------------------------- MODULE AccountSessionsProofs -------------------------
(***************************************************************************)
(* What the components of MCAccounts keep, for any accounts, browsers,     *)
(* grants, tabs and numbers of sessions.  AccountSessions: a browser is    *)
(* signed in once, with the credential in force, and what ended stays      *)
(* ended. Accounts: names differ, one administrator stays.                 *)
(* BrowserAccounts: one account is open.  DeviceTrust: what the browser    *)
(* counts on was accepted. CredentialChanges: what is accepted opens what  *)
(* is kept.                                                                *)
(*                                                                         *)
(* The properties of AccountSessions speak of sessions and grants that can *)
(* be used.  They are inductive for those of sessions that are active and  *)
(* of grants that are in the table, whatever their endpoint and account    *)
(* are at the moment.  Each component after it has an invariant of its     *)
(* own, whose parts say what an operation under way may count on.          *)
(***************************************************************************)
EXTENDS MCAccounts, FiniteSetTheorems, TLAPS

(* A browser's cookie is of a session of that browser. *)
CookiesAreOwn == \A b \in Browsers : cookie[b] # 0 => sess[cookie[b]].browser = b

(* An active session is the one in its browser's cookie, was proved with   *)
(* the present credential, and is remembered only if its endpoint is.      *)
ActiveIsCurrent ==
    \A s \in DOMAIN sess : sess[s].state = "active" =>
      /\ cookie[sess[s].browser] = s
      /\ sess[s].proof = secret[sess[s].user]
      /\ Live(sess[s].user, sess[s].browser) /\ sess[s].remembered =>
           endpoint[sess[s].user][sess[s].browser].remembered

(* A grant is of an enabled account; one whose endpoint is live is of a    *)
(* remembered endpoint and was proved with the present credential.         *)
GrantsAreCurrent ==
    \A u \in Users, b \in Browsers : grant[u][b].row =>
      /\ account[u] = "enabled"
      /\ Live(u, b) => endpoint[u][b].remembered /\ grant[u][b].proof = secret[u]

SessionsInv ==
    /\ SessionsTypeOK /\ CookiesAreOwn /\ ActiveIsCurrent /\ GrantsAreCurrent
    /\ StreamsFollowSessions

States == {"active", "expired", "revoked", "gone"}

-----------------------------------------------------------------------------
(***************************************************************************)
(* The statements over the tables.                                         *)
(***************************************************************************)

LEMMA SessionFields ==
    ASSUME sess \in Seq(Sessions), NEW s \in DOMAIN sess
    PROVE  /\ sess[s] \in Sessions
           /\ sess[s].user \in Users /\ sess[s].browser \in Browsers
           /\ sess[s].state \in States /\ sess[s].proof \in 0..MaxSecrets
           /\ sess[s].remembered \in BOOLEAN
           /\ s \in Nat \ {0} /\ s <= Len(sess)
<1>1. sess \in [1..Len(sess) -> Sessions] /\ Len(sess) \in Nat
  OBVIOUS
<1>2. sess[s] \in Sessions /\ s \in 1..Len(sess)
  BY <1>1
<1>3. s \in Nat \ {0} /\ s <= Len(sess)
  BY <1>1, <1>2
<1> QED
  BY <1>2, <1>3 DEF Sessions, States

(* What refers to what, without the types. *)
LEMMA RowsExist ==
    ASSUME SessionsTypeOK
    PROVE  /\ \A u \in Users, b \in Browsers : grant[u][b].row => endpoint[u][b].row
           /\ \A s \in DOMAIN sess : sess[s].state # "gone" =>
                endpoint[sess[s].user][sess[s].browser].row
           /\ \A b \in Browsers : cookie[b] # 0 => cookie[b] \in DOMAIN sess
           /\ \A s \in streams : s \in DOMAIN sess
  BY DEF SessionsTypeOK

LEMMA EndedSessions ==
    ASSUME sess \in Seq(Sessions), NEW S, NEW to \in States
    PROVE  /\ Ended(S, to) \in Seq(Sessions)
           /\ Len(Ended(S, to)) = Len(sess) /\ DOMAIN Ended(S, to) = DOMAIN sess
           /\ \A s \in DOMAIN sess :
                /\ Ended(S, to)[s].user = sess[s].user
                /\ Ended(S, to)[s].browser = sess[s].browser
                /\ Ended(S, to)[s].remembered = sess[s].remembered
                /\ Ended(S, to)[s].proof = sess[s].proof
                /\ Ended(S, to)[s].state = IF s \in S THEN to ELSE sess[s].state
<1>1. \A s \in DOMAIN sess : sess[s] \in Sessions
  BY SessionFields
<1>2. ASSUME NEW s \in DOMAIN sess
      PROVE  /\ [sess[s] EXCEPT !.state = to] \in Sessions
             /\ [sess[s] EXCEPT !.state = to].user = sess[s].user
             /\ [sess[s] EXCEPT !.state = to].browser = sess[s].browser
             /\ [sess[s] EXCEPT !.state = to].remembered = sess[s].remembered
             /\ [sess[s] EXCEPT !.state = to].proof = sess[s].proof
             /\ [sess[s] EXCEPT !.state = to].state = to
  BY <1>1, <1>2 DEF Sessions, States
<1>3. Ended(S, to) \in [1..Len(sess) -> Sessions]
  BY <1>1, <1>2 DEF Ended
<1>4. Ended(S, to) \in Seq(Sessions) /\ Len(Ended(S, to)) = Len(sess)
  BY <1>3
<1> QED
  BY <1>2, <1>4 DEF Ended

LEMMA SignedEndpoint ==
    ASSUME NEW row \in Endpoints
    PROVE  /\ Signed(row) \in Endpoints /\ Signed(row).row = row.row
           /\ Signed(row).row => Signed(row).revoked
<1>1. CASE row = NoRow
  BY <1>1 DEF Signed, Endpoints, NoRow
<1>2. CASE row \in [row : {TRUE}, remembered : BOOLEAN, revoked : BOOLEAN, dayOld : BOOLEAN]
  <2>1. Signed(row) = [row EXCEPT !.remembered = FALSE, !.revoked = TRUE]
    BY <1>2 DEF Signed
  <2> QED
    BY <1>2, <2>1 DEF Endpoints
<1> QED
  BY <1>1, <1>2 DEF Endpoints

LEMMA NoRowIsOne == NoRow \in Endpoints /\ NoRow \in GrantRows /\ NoRow.row = FALSE
  BY DEF Endpoints, GrantRows, NoRow

-----------------------------------------------------------------------------
(***************************************************************************)
(* A step that ends the sessions S, revokes or removes endpoints and drops *)
(* or ages grants, and renews nothing.                                     *)
(***************************************************************************)
(* What can resume could resume before, or was registered by this step.    *)
GrantsEnd ==
    \A u \in Users, b \in Browsers : Resumable(u, b)' =>
      \/ Resumable(u, b) /\ grant'[u][b].issue = grant[u][b].issue
      \/ grant'[u][b].issue = enrolments + 1

(* The account and the remembered flag follow from the invariant. *)
LEMMA KeptGrantsEnd ==
    ASSUME SessionsInv,
           \A u \in Users, b \in Browsers :
             grant'[u][b].row /\ ~grant'[u][b].expired /\ Live(u, b)' =>
               \/ /\ grant[u][b].row /\ ~grant[u][b].expired /\ Live(u, b)
                  /\ grant'[u][b].issue = grant[u][b].issue
               \/ grant'[u][b].issue = enrolments + 1
    PROVE  GrantsEnd
  BY DEF SessionsInv, GrantsAreCurrent, GrantsEnd, Resumable

Ends(S, to) ==
    /\ sess' = Ended(S, to)
    /\ UNCHANGED <<cookie, enrolments>>
    /\ secret' \in [Users -> 0..MaxSecrets]
    /\ \A u \in Users : secret'[u] # secret[u] =>
         /\ \A s \in SessionsOf(u) : sess[s].state = "active" => s \in S
         /\ \A b \in Browsers : ~grant'[u][b].row
    /\ account' \in [Users -> {"none", "enabled", "disabled", "deleted"}]
    /\ endpoint' \in [Users -> [Browsers -> Endpoints]]
    /\ grant' \in [Users -> [Browsers -> GrantRows]]
    /\ streams' \subseteq streams
    /\ to = "revoked" => streams' \cap S = {}
    /\ to # "gone" => \A s \in S \cap DOMAIN sess : sess[s].state # "gone"
    /\ \A u \in Users, b \in Browsers :
         \/ /\ ~endpoint'[u][b].row /\ ~grant'[u][b].row
            /\ \A s \in SessionsAt(u, b) : s \in S /\ to = "gone"
         \/ /\ endpoint'[u][b].row = endpoint[u][b].row
            /\ \/ endpoint'[u][b].row => endpoint'[u][b].revoked
               \/ /\ endpoint'[u][b].revoked = endpoint[u][b].revoked
                  /\ endpoint'[u][b].remembered = endpoint[u][b].remembered
    /\ \A u \in Users, b \in Browsers :
         grant'[u][b].row => grant'[u][b] = grant[u][b] /\ account'[u] = account[u]

LEMMA EndingStep ==
    ASSUME SessionsInv, NEW S, NEW to \in States \ {"active"}, Ends(S, to)
    PROVE  SessionsInv' /\ GrantsEnd
<1>1. /\ SessionsTypeOK /\ CookiesAreOwn /\ ActiveIsCurrent /\ GrantsAreCurrent
      /\ StreamsFollowSessions /\ sess \in Seq(Sessions)
  BY DEF SessionsInv, SessionsTypeOK
<1>2. /\ sess' \in Seq(Sessions) /\ Len(sess') = Len(sess) /\ DOMAIN sess' = DOMAIN sess
      /\ \A s \in DOMAIN sess :
           /\ sess'[s].user = sess[s].user
           /\ sess'[s].browser = sess[s].browser
           /\ sess'[s].remembered = sess[s].remembered
           /\ sess'[s].proof = sess[s].proof
           /\ sess'[s].state = IF s \in S THEN to ELSE sess[s].state
  <2>1. sess' = Ended(S, to)
    BY DEF Ends
  <2> QED
    BY <1>1, <2>1, EndedSessions
<1>3. \A s \in DOMAIN sess : sess[s].user \in Users /\ sess[s].browser \in Browsers
  BY <1>1, SessionFields
<1>4. \A u \in Users, b \in Browsers :
        \/ /\ ~endpoint'[u][b].row /\ ~grant'[u][b].row
           /\ \A s \in SessionsAt(u, b) : s \in S /\ to = "gone"
        \/ /\ endpoint'[u][b].row = endpoint[u][b].row
           /\ \/ endpoint'[u][b].row => endpoint'[u][b].revoked
              \/ /\ endpoint'[u][b].revoked = endpoint[u][b].revoked
                 /\ endpoint'[u][b].remembered = endpoint[u][b].remembered
  BY DEF Ends
<1>5. \A u \in Users, b \in Browsers :
        Live(u, b)' => Live(u, b) /\ endpoint'[u][b].remembered = endpoint[u][b].remembered
  BY <1>4 DEF Live
<1>6. \A u \in Users, b \in Browsers :
        grant'[u][b].row => /\ grant'[u][b] = grant[u][b]
                            /\ account'[u] = account[u] /\ secret'[u] = secret[u]
  BY DEF Ends
<1>7. cookie' = cookie /\ \A s \in streams' : s \in streams /\ (to = "revoked" => s \notin S)
  BY DEF Ends
<1>8. \A s \in DOMAIN sess : sess'[s].state = "active" =>
        sess[s].state = "active" /\ secret'[sess[s].user] = secret[sess[s].user]
  BY <1>2, <1>3 DEF Ends, SessionsOf
<1>9. SessionsTypeOK'
  <2>1. \A u \in Users, b \in Browsers : grant'[u][b].row => endpoint'[u][b].row
    <3>1. \A u \in Users, b \in Browsers : grant[u][b].row => endpoint[u][b].row
      BY <1>1, RowsExist
    <3> QED
      BY <1>4, <1>6, <3>1
  <2>2. ASSUME NEW s \in DOMAIN sess, sess'[s].state # "gone"
        PROVE  endpoint'[sess[s].user][sess[s].browser].row
    <3>1. sess[s].state # "gone"
      BY <1>2, <2>2 DEF Ends
    <3>2. endpoint[sess[s].user][sess[s].browser].row
      BY <1>1, <3>1 DEF SessionsTypeOK
    <3>3. s \in SessionsAt(sess[s].user, sess[s].browser)
      BY DEF SessionsAt, SessionsOf
    <3>4. ~(s \in S /\ to = "gone")
      BY <1>2, <2>2
    <3> QED
      BY <1>3, <1>4, <3>2, <3>3, <3>4
  <2>3. \A s \in DOMAIN sess' : sess'[s].state # "gone" =>
          endpoint'[sess'[s].user][sess'[s].browser].row
    BY <1>2, <2>2
  <2>4. /\ account' \in [Users -> {"none", "enabled", "disabled", "deleted"}]
        /\ endpoint' \in [Users -> [Browsers -> Endpoints]]
        /\ grant' \in [Users -> [Browsers -> GrantRows]]
        /\ secret' \in [Users -> 0..MaxSecrets] /\ enrolments' = enrolments
        /\ streams' \subseteq streams
    BY DEF Ends
  <2>5. /\ Len(sess') <= MaxSessions /\ cookie' \in [Browsers -> 0..Len(sess')]
        /\ streams' \subseteq DOMAIN sess' /\ enrolments' \in 0..MaxEnrolments
    BY <1>1, <1>2, <1>7, <2>4 DEF SessionsTypeOK
  <2> QED
    BY <1>2, <2>1, <2>3, <2>4, <2>5 DEF SessionsTypeOK
<1>10. CookiesAreOwn'
  <2>1. \A b \in Browsers : cookie[b] # 0 => cookie[b] \in DOMAIN sess
    BY <1>1 DEF SessionsTypeOK
  <2> QED
    BY <1>1, <1>2, <1>7, <2>1 DEF CookiesAreOwn
<1>11. ActiveIsCurrent'
  BY <1>1, <1>2, <1>3, <1>5, <1>7, <1>8 DEF ActiveIsCurrent
<1>12. GrantsAreCurrent'
  BY <1>1, <1>5, <1>6 DEF GrantsAreCurrent
<1>13. StreamsFollowSessions'
  <2>1. \A s \in streams : s \in DOMAIN sess
    BY <1>1 DEF SessionsTypeOK
  <2> QED
    BY <1>1, <1>2, <1>7, <2>1 DEF StreamsFollowSessions
<1>14. GrantsEnd
  BY <1>5, <1>6, KeptGrantsEnd
<1> QED
  BY <1>9, <1>10, <1>11, <1>12, <1>13, <1>14 DEF SessionsInv

LEMMA RevokeEndpointStep ==
    ASSUME SessionsInv, NEW u \in Users, NEW b \in Browsers, RevokeEndpoint(u, b),
           UNCHANGED <<account, cookie, secret, enrolments>>
    PROVE  SessionsInv' /\ GrantsEnd
<1> DEFINE S == Unended(SessionsAt(u, b))
<1>1. /\ sess' = Ended(S, "revoked")
      /\ streams' \subseteq streams /\ streams' \cap S = {}
      /\ \A s \in S : sess[s].state # "gone"
  BY DEF RevokeEndpoint, Unended
<1>2. /\ endpoint' \in [Users -> [Browsers -> Endpoints]]
      /\ \A v \in Users, c \in Browsers :
           endpoint'[v][c] = IF v = u /\ c = b THEN Signed(endpoint[u][b]) ELSE endpoint[v][c]
  BY SignedEndpoint DEF SessionsInv, SessionsTypeOK, RevokeEndpoint
<1>3. /\ grant' \in [Users -> [Browsers -> GrantRows]]
      /\ \A v \in Users, c \in Browsers :
           grant'[v][c] = IF v = u /\ c = b THEN NoRow ELSE grant[v][c]
  BY NoRowIsOne DEF SessionsInv, SessionsTypeOK, RevokeEndpoint
<1>4. \A v \in Users, c \in Browsers :
        /\ endpoint'[v][c].row = endpoint[v][c].row
        /\ \/ endpoint'[v][c].row => endpoint'[v][c].revoked
           \/ endpoint'[v][c] = endpoint[v][c]
  BY <1>2, SignedEndpoint DEF SessionsInv, SessionsTypeOK
<1>5. \A v \in Users, c \in Browsers : grant'[v][c].row => grant'[v][c] = grant[v][c]
  BY <1>3, NoRowIsOne
<1> HIDE DEF S
<1> QED
  <2>1. Ends(S, "revoked")
    BY <1>1, <1>2, <1>3, <1>4, <1>5 DEF Ends, SessionsInv, SessionsTypeOK
  <2> QED
    BY <2>1, EndingStep DEF States

LEMMA CloseSessionStep ==
    ASSUME SessionsInv, NEW s, CloseSession(s),
           UNCHANGED <<account, endpoint, grant, cookie, secret, enrolments>>
    PROVE  SessionsInv' /\ GrantsEnd
<1> DEFINE S == Unended({s})
<1>1. /\ sess' = Ended(S, "revoked")
      /\ streams' \subseteq streams /\ streams' \cap S = {}
      /\ \A t \in S : sess[t].state # "gone"
  BY DEF CloseSession, Unended
<1> HIDE DEF S
<1>2. Ends(S, "revoked")
  BY <1>1 DEF Ends, SessionsInv, SessionsTypeOK
<1> QED
  BY <1>2, EndingStep DEF States

LEMMA DropEndpointStep ==
    ASSUME SessionsInv, NEW u \in Users, NEW b \in Browsers, DropEndpoint(u, b),
           UNCHANGED <<account, cookie, streams, secret, enrolments>>
    PROVE  SessionsInv' /\ GrantsEnd
<1>1. sess' = Ended(SessionsAt(u, b), "gone")
  BY DEF DropEndpoint
<1>2. /\ endpoint' \in [Users -> [Browsers -> Endpoints]]
      /\ grant' \in [Users -> [Browsers -> GrantRows]]
      /\ \A v \in Users, c \in Browsers :
           /\ endpoint'[v][c] = IF v = u /\ c = b THEN NoRow ELSE endpoint[v][c]
           /\ grant'[v][c] = IF v = u /\ c = b THEN NoRow ELSE grant[v][c]
  BY NoRowIsOne DEF SessionsInv, SessionsTypeOK, DropEndpoint
<1>3. Ends(SessionsAt(u, b), "gone")
  BY <1>1, <1>2, NoRowIsOne DEF Ends, SessionsInv, SessionsTypeOK
<1> QED
  BY <1>3, EndingStep DEF States

(* Nothing of the account u stays signed in; its secret may change.         *)
LEMMA RevokeUserCredentialsStep ==
    ASSUME SessionsInv, NEW u \in Users, RevokeUserCredentials(u),
           streams' = streams \ SessionsOf(u),
           UNCHANGED <<cookie, enrolments>>,
           secret' \in [Users -> 0..MaxSecrets],
           account' \in [Users -> {"none", "enabled", "disabled", "deleted"}],
           \A v \in Users : v # u => account'[v] = account[v] /\ secret'[v] = secret[v]
    PROVE  SessionsInv' /\ GrantsEnd
<1> DEFINE S == Unended(SessionsOf(u))
<1>1. /\ sess' = Ended(S, "revoked")
      /\ streams' \subseteq streams /\ streams' \cap S = {}
      /\ \A s \in S : sess[s].state # "gone"
      /\ \A s \in SessionsOf(u) : sess[s].state = "active" => s \in S
  BY DEF RevokeUserCredentials, Unended
<1> HIDE DEF S
<1>2. /\ endpoint' \in [Users -> [Browsers -> Endpoints]]
      /\ \A v \in Users, c \in Browsers :
           endpoint'[v][c] = IF v = u THEN Signed(endpoint[u][c]) ELSE endpoint[v][c]
  BY SignedEndpoint DEF SessionsInv, SessionsTypeOK, RevokeUserCredentials
<1>3. /\ grant' \in [Users -> [Browsers -> GrantRows]]
      /\ \A v \in Users, c \in Browsers :
           grant'[v][c] = IF v = u THEN NoRow ELSE grant[v][c]
  BY NoRowIsOne DEF SessionsInv, SessionsTypeOK, RevokeUserCredentials
<1>4. \A v \in Users, c \in Browsers :
        /\ endpoint'[v][c].row = endpoint[v][c].row
        /\ \/ endpoint'[v][c].row => endpoint'[v][c].revoked
           \/ endpoint'[v][c] = endpoint[v][c]
  BY <1>2, SignedEndpoint DEF SessionsInv, SessionsTypeOK
<1>5. \A v \in Users, c \in Browsers :
        grant'[v][c].row => v # u /\ grant'[v][c] = grant[v][c]
  BY <1>3, NoRowIsOne
<1>6. Ends(S, "revoked")
  BY <1>1, <1>2, <1>3, <1>4, <1>5 DEF Ends, SessionsInv, SessionsTypeOK
<1> QED
  BY <1>6, EndingStep DEF States

LEMMA DeleteUserStep ==
    ASSUME SessionsInv, NEW u \in Users, DeleteUser(u)
    PROVE  SessionsInv' /\ GrantsEnd
<1>1. /\ sess' = Ended(SessionsOf(u), "gone") /\ streams' \subseteq streams
      /\ UNCHANGED <<cookie, secret, enrolments>>
      /\ account' \in [Users -> {"none", "enabled", "disabled", "deleted"}]
      /\ \A v \in Users : v # u => account'[v] = account[v]
  BY DEF DeleteUser, SessionsInv, SessionsTypeOK
<1>2. /\ endpoint' \in [Users -> [Browsers -> Endpoints]]
      /\ grant' \in [Users -> [Browsers -> GrantRows]]
      /\ \A v \in Users, c \in Browsers :
           /\ endpoint'[v][c] = IF v = u THEN NoRow ELSE endpoint[v][c]
           /\ grant'[v][c] = IF v = u THEN NoRow ELSE grant[v][c]
  BY NoRowIsOne DEF SessionsInv, SessionsTypeOK, DeleteUser
<1>3. \A v \in Users, c \in Browsers :
        \/ /\ ~endpoint'[v][c].row /\ ~grant'[v][c].row
           /\ \A s \in SessionsAt(v, c) : s \in SessionsOf(u)
        \/ /\ v # u /\ endpoint'[v][c] = endpoint[v][c] /\ grant'[v][c] = grant[v][c]
  BY <1>2, NoRowIsOne DEF SessionsAt
<1>4. Ends(SessionsOf(u), "gone")
  BY <1>1, <1>2, <1>3 DEF Ends, SessionsInv, SessionsTypeOK
<1> QED
  BY <1>4, EndingStep DEF States

LEMMA TimeStep ==
    ASSUME SessionsInv, TimePasses
    PROVE  SessionsInv' /\ GrantsEnd
<1>1. ASSUME NEW s \in DOMAIN sess, SessionExpires(s) PROVE SessionsInv' /\ GrantsEnd
  <2>1. sess' = Ended({s}, "expired") /\ sess[s].state # "gone"
    BY <1>1 DEF SessionExpires
  <2>2. Ends({s}, "expired")
    BY <1>1, <2>1 DEF SessionExpires, Ends, SessionsInv, SessionsTypeOK
  <2> QED
    BY <2>2, EndingStep DEF States
<1>2. ASSUME NEW u \in Users, NEW b \in Browsers, GrantExpires(u, b) PROVE SessionsInv' /\ GrantsEnd
  <2>1. grant[u][b] \in [row : {TRUE}, id : Grants, expired : BOOLEAN,
                           issue : 1..MaxEnrolments, proof : 0..MaxSecrets]
    BY <1>2, NoRowIsOne DEF GrantExpires, SessionsInv, SessionsTypeOK, GrantRows
  <2>2. [grant[u][b] EXCEPT !.expired = TRUE] \in GrantRows
        /\ [grant[u][b] EXCEPT !.expired = TRUE].row = grant[u][b].row
        /\ [grant[u][b] EXCEPT !.expired = TRUE].proof = grant[u][b].proof
        /\ [grant[u][b] EXCEPT !.expired = TRUE].expired
    BY <2>1 DEF GrantRows
  <2>3. /\ grant' \in [Users -> [Browsers -> GrantRows]]
        /\ \A v \in Users, c \in Browsers :
             /\ grant'[v][c].row = grant[v][c].row
             /\ grant[v][c].row => grant'[v][c].proof = grant[v][c].proof
             /\ grant'[v][c].row /\ ~grant'[v][c].expired => grant'[v][c] = grant[v][c]
    BY <1>2, <2>2 DEF GrantExpires, SessionsInv, SessionsTypeOK
  <2>4. UNCHANGED <<account, endpoint, sess, cookie, streams, secret, enrolments>>
    BY <1>2 DEF GrantExpires
  <2>5. SessionsTypeOK'
    BY <2>3, <2>4 DEF SessionsInv, SessionsTypeOK
  <2>6. GrantsEnd
    BY <2>3, <2>4, KeptGrantsEnd DEF Live
  <2> QED
    BY <2>3, <2>4, <2>5, <2>6 DEF SessionsInv, CookiesAreOwn, ActiveIsCurrent, GrantsAreCurrent,
                             StreamsFollowSessions, Live
<1>3. ASSUME NEW u \in Users, NEW b \in Browsers, EndpointAges(u, b) PROVE SessionsInv' /\ GrantsEnd
  <2>1. endpoint[u][b] \in [row : {TRUE}, remembered : BOOLEAN, revoked : BOOLEAN, dayOld : BOOLEAN]
    BY <1>3, NoRowIsOne DEF EndpointAges, SessionsInv, SessionsTypeOK, Endpoints
  <2>2. [endpoint[u][b] EXCEPT !.dayOld = TRUE] \in Endpoints
        /\ [endpoint[u][b] EXCEPT !.dayOld = TRUE].row = endpoint[u][b].row
        /\ [endpoint[u][b] EXCEPT !.dayOld = TRUE].revoked = endpoint[u][b].revoked
        /\ [endpoint[u][b] EXCEPT !.dayOld = TRUE].remembered = endpoint[u][b].remembered
    BY <2>1 DEF Endpoints
  <2>3. /\ endpoint' \in [Users -> [Browsers -> Endpoints]]
        /\ \A v \in Users, c \in Browsers :
             /\ endpoint'[v][c].row = endpoint[v][c].row
             /\ endpoint'[v][c].revoked = endpoint[v][c].revoked
             /\ endpoint'[v][c].remembered = endpoint[v][c].remembered
    BY <1>3, <2>2 DEF EndpointAges, SessionsInv, SessionsTypeOK
  <2>4. UNCHANGED <<account, grant, sess, cookie, streams, secret, enrolments>>
    BY <1>3 DEF EndpointAges
  <2>5. \A s \in DOMAIN sess : sess[s].user \in Users /\ sess[s].browser \in Browsers
    BY SessionFields DEF SessionsInv, SessionsTypeOK
  <2>6. SessionsTypeOK'
    <3>1. \A s \in DOMAIN sess : sess[s].state # "gone" =>
            endpoint'[sess[s].user][sess[s].browser].row
      BY <2>3, <2>5, RowsExist DEF SessionsInv
    <3>2. \A v \in Users, c \in Browsers : grant[v][c].row => endpoint'[v][c].row
      BY <2>3 DEF SessionsInv, SessionsTypeOK
    <3> QED
      BY <2>3, <2>4, <3>1, <3>2 DEF SessionsInv, SessionsTypeOK
  <2>7. GrantsEnd
    BY <2>3, <2>4, KeptGrantsEnd DEF Live
  <2>8. ActiveIsCurrent'
    BY <2>3, <2>4, <2>5 DEF SessionsInv, ActiveIsCurrent, Live
  <2>9. GrantsAreCurrent'
    BY <2>3, <2>4 DEF SessionsInv, GrantsAreCurrent, Live
  <2>10. CookiesAreOwn' /\ StreamsFollowSessions'
    BY <2>4 DEF SessionsInv, CookiesAreOwn, StreamsFollowSessions
  <2> QED
    BY <2>6, <2>7, <2>8, <2>9, <2>10 DEF SessionsInv
<1>4. ASSUME NEW u \in Users, NEW b \in Browsers, CleanupEndpoint(u, b) PROVE SessionsInv' /\ GrantsEnd
  BY <1>4, DropEndpointStep DEF CleanupEndpoint
<1> QED
  BY <1>1, <1>2, <1>3, <1>4 DEF TimePasses

-----------------------------------------------------------------------------
(***************************************************************************)
(* The steps that begin or renew something.                                *)
(***************************************************************************)

(* setSession, for an account that may sign in and with the credential in  *)
(* force.                                                                  *)
LEMMA SetSessionStep ==
    ASSUME SessionsInv, NEW u \in Users, NEW b \in Browsers, NEW remembered \in BOOLEAN,
           NEW proof, proof = secret[u], SetSession(u, b, remembered, proof),
           account' \in [Users -> {"none", "enabled", "disabled", "deleted"}],
           account'[u] = "enabled", \A v \in Users : v # u => account'[v] = account[v],
           UNCHANGED <<secret, enrolments>>
    PROVE  SessionsInv' /\ GrantsEnd
<1>1. /\ SessionsTypeOK /\ CookiesAreOwn /\ ActiveIsCurrent /\ GrantsAreCurrent
      /\ StreamsFollowSessions /\ sess \in Seq(Sessions)
  BY DEF SessionsInv, SessionsTypeOK
<1> DEFINE retired == Unended({s \in DOMAIN sess : sess[s].browser = b})
           new == [user |-> u, browser |-> b, remembered |-> remembered,
                   state |-> "active", proof |-> proof]
           n == Len(sess) + 1
<1>2. new \in Sessions
  BY <1>1 DEF Sessions, SessionsTypeOK
<1>3. /\ Len(sess) \in Nat /\ Len(sess) < MaxSessions
      /\ sess' = Append(Ended(retired, "revoked"), new)
      /\ streams' = streams \ retired
      /\ cookie' = [cookie EXCEPT ![b] = n]
  BY <1>1 DEF SetSession
<1>4. /\ Ended(retired, "revoked") \in Seq(Sessions)
      /\ Len(Ended(retired, "revoked")) = Len(sess)
      /\ \A s \in DOMAIN sess :
                /\ Ended(retired, "revoked")[s].user = sess[s].user
                /\ Ended(retired, "revoked")[s].browser = sess[s].browser
                /\ Ended(retired, "revoked")[s].remembered = sess[s].remembered
                /\ Ended(retired, "revoked")[s].proof = sess[s].proof
                /\ Ended(retired, "revoked")[s].state = IF s \in retired THEN "revoked" ELSE sess[s].state
  <2> HIDE DEF retired
  <2> QED
    BY <1>1, EndedSessions DEF States
<1>5. /\ sess' \in Seq(Sessions) /\ Len(sess') = n
      /\ DOMAIN sess' = DOMAIN sess \cup {n} /\ n \notin DOMAIN sess
      /\ sess'[n] = new
      /\ \A s \in DOMAIN sess : sess'[s] = Ended(retired, "revoked")[s]
  <2> HIDE DEF retired, new
  <2> QED
    BY <1>1, <1>2, <1>3, <1>4
<1>6. \A s \in DOMAIN sess :
        /\ sess'[s].user = sess[s].user
        /\ sess'[s].browser = sess[s].browser
        /\ sess'[s].remembered = sess[s].remembered
        /\ sess'[s].proof = sess[s].proof
        /\ sess'[s].state = IF s \in retired THEN "revoked" ELSE sess[s].state
        /\ sess[s].user \in Users /\ sess[s].browser \in Browsers
  <2> HIDE DEF retired
  <2> QED
    BY <1>1, <1>4, <1>5, SessionFields
<1>7. \A s \in DOMAIN sess : sess'[s].state = "active" => sess[s].state = "active" /\ sess[s].browser # b
  BY <1>6 DEF Unended
<1>8. [row |-> TRUE, remembered |-> remembered, revoked |-> FALSE,
       dayOld |-> endpoint[u][b].row /\ endpoint[u][b].dayOld] \in Endpoints
  <2>1. (endpoint[u][b].row /\ endpoint[u][b].dayOld) \in BOOLEAN
    OBVIOUS
  <2> QED
    BY <2>1 DEF Endpoints
<1>9. /\ endpoint' \in [Users -> [Browsers -> Endpoints]]
      /\ endpoint'[u][b].row /\ ~endpoint'[u][b].revoked
      /\ endpoint'[u][b].remembered = remembered
      /\ \A v \in Users, c \in Browsers : v # u \/ c # b => endpoint'[v][c] = endpoint[v][c]
  BY <1>1, <1>8 DEF SetSession, SessionsTypeOK
<1>10. /\ grant' \in [Users -> [Browsers -> GrantRows]]
       /\ \A v \in Users, c \in Browsers : grant'[v][c].row => grant'[v][c] = grant[v][c]
       /\ grant'[u][b].row => remembered /\ (endpoint[u][b].row => ~endpoint[u][b].revoked)
  BY <1>1, NoRowIsOne DEF SetSession, SessionsTypeOK
<1>11. /\ sess'[n].user = u /\ sess'[n].browser = b /\ sess'[n].remembered = remembered
       /\ sess'[n].state = "active" /\ sess'[n].proof = secret[u]
  BY <1>5
<1>12. /\ \A c \in Browsers : cookie'[c] = IF c = b THEN n ELSE cookie[c]
       /\ \A s \in streams' : s \in streams /\ s \notin retired
  BY <1>1, <1>3 DEF SessionsTypeOK
<1>13. \A s \in retired : sess[s].state # "gone"
  BY DEF Unended
<1>14. /\ cookie' \in [Browsers -> 0..Len(sess')] /\ streams' \subseteq DOMAIN sess'
       /\ Len(sess') <= MaxSessions
  <2>1. cookie \in [Browsers -> 0..Len(sess)] /\ streams \subseteq DOMAIN sess
    BY <1>1 DEF SessionsTypeOK
  <2>2. cookie' \in [Browsers -> 0..n]
    BY <1>3, <2>1
  <2>3. streams' \subseteq DOMAIN sess'
    BY <1>3, <1>5, <2>1
  <2> QED
    BY <1>3, <1>5, <2>2, <2>3, SessionBounds DEF SessionBounds
<1> HIDE DEF retired, new, n
<1>15. SessionsTypeOK'
  <2>1. \A v \in Users, c \in Browsers : grant'[v][c].row => endpoint'[v][c].row
    <3>1. \A v \in Users, c \in Browsers : grant[v][c].row => endpoint[v][c].row
      BY <1>1, RowsExist
    <3>2. ASSUME NEW v \in Users, NEW c \in Browsers, grant'[v][c].row
          PROVE  endpoint'[v][c].row
      <4>1. grant[v][c].row
        BY <1>10, <3>2
      <4>2. endpoint[v][c].row
        BY <3>1, <4>1
      <4> QED
        BY <1>9, <4>2
    <3> QED
      BY <3>2
  <2>2. \A s \in DOMAIN sess' : sess'[s].state # "gone" =>
          endpoint'[sess'[s].user][sess'[s].browser].row
    <3>1. \A s \in DOMAIN sess : sess'[s].state # "gone" =>
            endpoint'[sess[s].user][sess[s].browser].row
      BY <1>1, <1>6, <1>9, <1>13, RowsExist
    <3> QED
      BY <1>5, <1>6, <1>9, <1>11, <3>1
  <2>3. enrolments' \in 0..MaxEnrolments /\ secret' \in [Users -> 0..MaxSecrets]
    BY <1>1 DEF SessionsTypeOK
  <2> QED
    BY <1>5, <1>9, <1>10, <1>14, <2>1, <2>2, <2>3 DEF SessionsTypeOK
<1>16. CookiesAreOwn'
  BY <1>1, <1>6, <1>11, <1>12, RowsExist DEF CookiesAreOwn
<1>17. ActiveIsCurrent'
  <2>1. \A s \in DOMAIN sess : sess'[s].state = "active" =>
          /\ cookie'[sess[s].browser] = s
          /\ sess[s].proof = secret'[sess[s].user]
          /\ Live(sess[s].user, sess[s].browser)' /\ sess[s].remembered =>
               endpoint'[sess[s].user][sess[s].browser].remembered
    BY <1>1, <1>6, <1>7, <1>9, <1>12 DEF ActiveIsCurrent, Live
  <2>2. /\ cookie'[b] = n /\ secret'[u] = secret[u]
        /\ remembered => endpoint'[u][b].remembered
    BY <1>9, <1>12
  <2> QED
    BY <1>5, <1>6, <1>11, <2>1, <2>2 DEF ActiveIsCurrent
<1>18. GrantsAreCurrent'
  <2>1. ASSUME NEW v \in Users, NEW c \in Browsers, grant'[v][c].row
        PROVE  /\ account'[v] = "enabled"
               /\ Live(v, c)' => endpoint'[v][c].remembered /\ grant'[v][c].proof = secret'[v]
    <3>1. grant'[v][c] = grant[v][c] /\ grant[v][c].row
      BY <1>10, <2>1
    <3>2. CASE v = u /\ c = b
      BY <1>1, <1>9, <1>10, <2>1, <3>1, <3>2, RowsExist DEF GrantsAreCurrent, Live
    <3>3. CASE v # u \/ c # b
      BY <1>1, <1>9, <3>1, <3>3 DEF GrantsAreCurrent, Live
    <3> QED
      BY <3>2, <3>3
  <2> QED
    BY <2>1 DEF GrantsAreCurrent
<1>19. StreamsFollowSessions'
  BY <1>1, <1>6, <1>12, RowsExist DEF StreamsFollowSessions
<1>20. GrantsEnd
  <2>1. ASSUME NEW v \in Users, NEW c \in Browsers, grant'[v][c].row, Live(v, c)'
        PROVE  grant'[v][c] = grant[v][c] /\ Live(v, c)
    <3>1. grant'[v][c] = grant[v][c] /\ endpoint[v][c].row
      BY <1>1, <1>10, <2>1, RowsExist
    <3> QED
      BY <1>9, <1>10, <2>1, <3>1 DEF Live
  <2> QED
    BY <2>1, KeptGrantsEnd
<1> QED
  BY <1>15, <1>16, <1>17, <1>18, <1>19, <1>20 DEF SessionsInv

LEMMA EnrollStep ==
    ASSUME SessionsInv, NEW b \in Browsers, NEW g \in Grants, Enroll(b, g)
    PROVE  SessionsInv' /\ GrantsEnd
<1>1. /\ SessionsTypeOK /\ CookiesAreOwn /\ ActiveIsCurrent /\ GrantsAreCurrent
      /\ StreamsFollowSessions /\ sess \in Seq(Sessions)
  BY DEF SessionsInv, SessionsTypeOK
<1>2. PICK u \in Users : u = UserAt(b)
  BY <1>1, RowsExist, SessionFields DEF Enroll, SignedIn, UserAt
<1>3. /\ account[u] = "enabled" /\ Live(u, b) /\ endpoint[u][b].remembered
      /\ endpoint[u][b].row
  BY <1>1, <1>2, RowsExist
     DEF Enroll, SignedIn, Usable, UserAt, CookiesAreOwn, ActiveIsCurrent, Live
<1>4. /\ secret[u] \in 0..MaxSecrets
      /\ enrolments + 1 \in 1..MaxEnrolments /\ enrolments' \in 0..MaxEnrolments
      /\ enrolments' = enrolments + 1
  BY <1>1, SessionBounds DEF SessionsTypeOK, Enroll, SessionBounds
<1>5. PICK r : r = [row |-> TRUE, id |-> g, expired |-> FALSE,
                    issue |-> enrolments + 1, proof |-> secret[u]]
  OBVIOUS
<1>6. r \in GrantRows /\ r.proof = secret[u]
  BY <1>4, <1>5 DEF GrantRows
<1>7. grant' = [grant EXCEPT ![u][b] = r]
  BY <1>2, <1>5 DEF Enroll
<1>8. /\ grant' \in [Users -> [Browsers -> GrantRows]]
      /\ \A v \in Users, c \in Browsers :
           grant'[v][c] = IF v = u /\ c = b THEN r ELSE grant[v][c]
  BY <1>1, <1>6, <1>7 DEF SessionsTypeOK
<1>9. UNCHANGED <<account, endpoint, sess, cookie, streams, secret>>
  BY DEF Enroll
<1>10. \A v \in Users, c \in Browsers : grant'[v][c].row => endpoint[v][c].row
  BY <1>1, <1>3, <1>8, RowsExist
<1>11. SessionsTypeOK'
  BY <1>1, <1>4, <1>8, <1>9, <1>10 DEF SessionsTypeOK
<1>12. GrantsAreCurrent'
  BY <1>1, <1>3, <1>6, <1>8, <1>9 DEF GrantsAreCurrent, Live
<1>13. CookiesAreOwn' /\ ActiveIsCurrent' /\ StreamsFollowSessions'
  BY <1>1, <1>9 DEF CookiesAreOwn, ActiveIsCurrent, StreamsFollowSessions, Live
<1>14. GrantsEnd
  <2>1. r.issue = enrolments + 1
    BY <1>5
  <2> QED
    BY <1>8, <1>9, <2>1, KeptGrantsEnd DEF Live
<1> QED
  BY <1>11, <1>12, <1>13, <1>14 DEF SessionsInv

(* A change of password or username: the session that makes it is renewed, *)
(* the others of the account end, their endpoints are revoked, and the     *)
(* grants that stay are of those endpoints or renewed.                     *)
LEMMA RenewalStep ==
    ASSUME SessionsInv, NEW b \in Browsers, ChangePassword(b) \/ ChangeUsername(b)
    PROVE  SessionsInv' /\ GrantsEnd
<1>1. /\ SessionsTypeOK /\ CookiesAreOwn /\ ActiveIsCurrent /\ GrantsAreCurrent
      /\ StreamsFollowSessions /\ sess \in Seq(Sessions)
  BY DEF SessionsInv, SessionsTypeOK
<1>2. PICK s : s = cookie[b]
  OBVIOUS
<1>3. PICK u : u = UserAt(b)
  OBVIOUS
<1>4. /\ s \in DOMAIN sess /\ u \in Users /\ u = sess[s].user /\ sess[s].browser = b
      /\ sess[s].state = "active" /\ Live(u, b) /\ sess[s] \in Sessions
  <2>1. SignedIn(b)
    BY DEF ChangePassword, ChangeUsername
  <2>2. s \in DOMAIN sess /\ s # 0
    BY <1>1, <1>2, <2>1, RowsExist DEF SignedIn
  <2> QED
    BY <1>1, <1>2, <1>3, <2>1, <2>2, SessionFields DEF SignedIn, Usable, UserAt, CookiesAreOwn
<1>5. secret[u] + 1 \in 0..MaxSecrets
  <2>1. secret[u] < MaxSecrets
    BY <1>3 DEF ChangePassword, ChangeUsername
  <2>2. secret[u] \in 0..MaxSecrets /\ MaxSecrets \in Nat
    BY <1>1, <1>4, SessionBounds DEF SessionsTypeOK, SessionBounds
  <2> QED
    BY <2>1, <2>2
<1> DEFINE others == SessionsOf(u) \ {s}
           S == Unended(others)
<1>6. /\ sess' = [Ended(S, "revoked") EXCEPT ![s].proof = secret[u] + 1]
      /\ secret' = [secret EXCEPT ![u] = @ + 1]
      /\ endpoint' = [endpoint EXCEPT ![u] = [c \in Browsers |-> IF c = b THEN @[c] ELSE Signed(@[c])]]
      /\ streams' = streams \ others
      /\ UNCHANGED <<account, cookie, enrolments>>
  BY <1>2, <1>3 DEF ChangePassword, ChangeUsername
<1>7. /\ s \notin S /\ \A t \in S : t \in others /\ sess[t].state # "gone"
      /\ \A t \in SessionsOf(u) : t = s \/ t \in S \/ sess[t].state \notin {"active", "expired"}
  BY DEF Unended
<1>8. \A t \in streams' : t \in streams /\ t \notin S
  BY <1>6, <1>7
<1> HIDE DEF S
<1>9. /\ sess' \in Seq(Sessions) /\ Len(sess') = Len(sess) /\ DOMAIN sess' = DOMAIN sess
      /\ \A t \in DOMAIN sess :
           /\ sess'[t].user = sess[t].user
           /\ sess'[t].browser = sess[t].browser
           /\ sess'[t].remembered = sess[t].remembered
           /\ sess'[t].proof = IF t = s THEN secret[u] + 1 ELSE sess[t].proof
           /\ sess'[t].state = IF t \in S THEN "revoked" ELSE sess[t].state
  <2> DEFINE ended == Ended(S, "revoked")
  <2>1. /\ ended \in Seq(Sessions)
        /\ Len(ended) = Len(sess) /\ DOMAIN ended = DOMAIN sess
        /\ \A t \in DOMAIN sess :
             /\ ended[t].user = sess[t].user
             /\ ended[t].browser = sess[t].browser
             /\ ended[t].remembered = sess[t].remembered
             /\ ended[t].proof = sess[t].proof
             /\ ended[t].state = IF t \in S THEN "revoked" ELSE sess[t].state
    BY <1>1, EndedSessions DEF States
  <2> HIDE DEF ended
  <2>2. sess' = [ended EXCEPT ![s].proof = secret[u] + 1]
    BY <1>6 DEF ended
  <2>3. ended[s] \in Sessions
    BY <1>4, <2>1
  <2>4. /\ [ended[s] EXCEPT !.proof = secret[u] + 1] \in Sessions
        /\ [ended[s] EXCEPT !.proof = secret[u] + 1].user = ended[s].user
        /\ [ended[s] EXCEPT !.proof = secret[u] + 1].browser = ended[s].browser
        /\ [ended[s] EXCEPT !.proof = secret[u] + 1].remembered = ended[s].remembered
        /\ [ended[s] EXCEPT !.proof = secret[u] + 1].state = ended[s].state
        /\ [ended[s] EXCEPT !.proof = secret[u] + 1].proof = secret[u] + 1
    BY <1>5, <2>3 DEF Sessions
  <2>5. sess' = [ended EXCEPT ![s] = [ended[s] EXCEPT !.proof = secret[u] + 1]]
    BY <2>2
  <2>6. sess' \in Seq(Sessions) /\ Len(sess') = Len(sess) /\ DOMAIN sess' = DOMAIN sess
    BY <1>4, <2>1, <2>4, <2>5
  <2> QED
    BY <1>4, <2>1, <2>4, <2>5, <2>6
<1>10. /\ endpoint' \in [Users -> [Browsers -> Endpoints]]
       /\ \A v \in Users, c \in Browsers :
            endpoint'[v][c] = IF v = u /\ c # b THEN Signed(endpoint[u][c]) ELSE endpoint[v][c]
  BY <1>1, <1>4, <1>6, SignedEndpoint DEF SessionsTypeOK
<1>11. \A v \in Users, c \in Browsers :
         /\ endpoint'[v][c].row = endpoint[v][c].row
         /\ Live(v, c)' => (v # u \/ c = b) /\ endpoint'[v][c] = endpoint[v][c] /\ Live(v, c)
  BY <1>1, <1>4, <1>10, SignedEndpoint DEF SessionsTypeOK, Live
<1>12. /\ secret' \in [Users -> 0..MaxSecrets]
       /\ \A v \in Users : secret'[v] = IF v = u THEN secret[u] + 1 ELSE secret[v]
  BY <1>1, <1>4, <1>5, <1>6 DEF SessionsTypeOK
<1>13. /\ grant' \in [Users -> [Browsers -> GrantRows]]
       /\ \A v \in Users, c \in Browsers : grant'[v][c].row =>
            /\ grant[v][c].row
            /\ v = u /\ c = b => grant'[v][c].proof = secret[u] + 1
            /\ v # u => grant'[v][c].proof = grant[v][c].proof
            /\ grant'[v][c].expired = grant[v][c].expired
            /\ grant'[v][c].issue = grant[v][c].issue
  <2>1. grant \in [Users -> [Browsers -> GrantRows]]
    BY <1>1 DEF SessionsTypeOK
  <2> DEFINE renewed == [grant[u][b] EXCEPT !.proof = secret[u] + 1]
  <2>2. grant[u][b].row => renewed \in GrantRows /\ renewed.proof = secret[u] + 1 /\ renewed.row
                           /\ renewed.expired = grant[u][b].expired
                           /\ renewed.issue = grant[u][b].issue
    <3>1. SUFFICES ASSUME grant[u][b].row
                   PROVE  /\ renewed \in GrantRows /\ renewed.proof = secret[u] + 1 /\ renewed.row
                          /\ renewed.expired = grant[u][b].expired
                          /\ renewed.issue = grant[u][b].issue
      OBVIOUS
    <3>2. grant[u][b] \in [row : {TRUE}, id : Grants, expired : BOOLEAN,
                           issue : 1..MaxEnrolments, proof : 0..MaxSecrets]
      BY <1>4, <2>1, <3>1, NoRowIsOne DEF GrantRows
    <3> QED
      BY <1>5, <3>2 DEF GrantRows
  <2>3. CASE ChangePassword(b)
    <3>1. grant' = [grant EXCEPT ![u] = [c \in Browsers |->
             IF c = b /\ grant[u][c].row THEN [grant[u][c] EXCEPT !.proof = secret[u] + 1] ELSE NoRow]]
      BY <1>3, <2>3 DEF ChangePassword
    <3>2. \A v \in Users, c \in Browsers :
            grant'[v][c] = IF v # u THEN grant[v][c]
                           ELSE IF c = b /\ grant[u][b].row THEN renewed ELSE NoRow
      BY <1>4, <2>1, <3>1
    <3> HIDE DEF renewed
    <3>3. grant' = [v \in Users |-> [c \in Browsers |-> grant'[v][c]]]
      BY <2>1, <3>1
    <3>4. grant' \in [Users -> [Browsers -> GrantRows]]
      BY <2>1, <2>2, <3>2, <3>3, NoRowIsOne
    <3> QED
      BY <2>2, <3>2, <3>4, NoRowIsOne
  <2>4. CASE ChangeUsername(b)
    <3>1. grant' = IF grant[u][b].row THEN [grant EXCEPT ![u][b] = renewed] ELSE grant
      BY <1>3, <2>4 DEF ChangeUsername
    <3> HIDE DEF renewed
    <3> QED
      BY <1>4, <2>1, <2>2, <3>1
  <2> QED
    BY <2>3, <2>4
<1>14. SessionsTypeOK'
  <2>1. \A v \in Users, c \in Browsers : grant'[v][c].row => endpoint'[v][c].row
    BY <1>1, <1>11, <1>13, RowsExist
  <2>2. \A t \in DOMAIN sess' : sess'[t].state # "gone" =>
          endpoint'[sess'[t].user][sess'[t].browser].row
    <3>1. \A t \in DOMAIN sess : sess[t].user \in Users /\ sess[t].browser \in Browsers
      BY <1>1, SessionFields
    <3>2. \A t \in DOMAIN sess : sess'[t].state # "gone" => sess[t].state # "gone"
      BY <1>7, <1>9
    <3> QED
      BY <1>1, <1>9, <1>11, <3>1, <3>2, RowsExist
  <2>3. streams' \subseteq DOMAIN sess' /\ Len(sess') <= MaxSessions
        /\ cookie' \in [Browsers -> 0..Len(sess')] /\ enrolments' \in 0..MaxEnrolments
        /\ account' \in [Users -> {"none", "enabled", "disabled", "deleted"}]
    BY <1>1, <1>6, <1>8, <1>9 DEF SessionsTypeOK
  <2> QED
    BY <1>9, <1>10, <1>12, <1>13, <2>1, <2>2, <2>3 DEF SessionsTypeOK
<1>15. CookiesAreOwn'
  BY <1>1, <1>6, <1>9, RowsExist DEF CookiesAreOwn
<1>16. ActiveIsCurrent'
  <2>1. ASSUME NEW t \in DOMAIN sess, sess'[t].state = "active"
        PROVE  /\ sess[t].state = "active" /\ cookie[sess[t].browser] = t
               /\ sess'[t].proof = secret'[sess[t].user]
               /\ Live(sess[t].user, sess[t].browser)' /\ sess[t].remembered =>
                    endpoint'[sess[t].user][sess[t].browser].remembered
    <3>1. sess[t].user \in Users /\ sess[t].browser \in Browsers
      BY <1>1, SessionFields
    <3>2. sess[t].state = "active" /\ t \notin S
      BY <1>9, <2>1
    <3>3. t = s \/ sess[t].user # u
      BY <1>7, <3>2 DEF SessionsOf
    <3> QED
      BY <1>1, <1>4, <1>9, <1>11, <1>12, <3>1, <3>2, <3>3 DEF ActiveIsCurrent
  <2>2. cookie' = cookie /\ DOMAIN sess' = DOMAIN sess
        /\ \A t \in DOMAIN sess : /\ sess'[t].user = sess[t].user
                                 /\ sess'[t].browser = sess[t].browser
                                 /\ sess'[t].remembered = sess[t].remembered
    BY <1>6, <1>9
  <2> QED
    BY <2>1, <2>2 DEF ActiveIsCurrent
<1>17. GrantsAreCurrent'
  <2>1. ASSUME NEW v \in Users, NEW c \in Browsers, grant'[v][c].row
        PROVE  /\ account[v] = "enabled"
               /\ Live(v, c)' => endpoint'[v][c].remembered /\ grant'[v][c].proof = secret'[v]
    BY <1>1, <1>11, <1>12, <1>13, <2>1 DEF GrantsAreCurrent
  <2> QED
    BY <1>6, <2>1 DEF GrantsAreCurrent
<1>18. StreamsFollowSessions'
  BY <1>1, <1>8, <1>9, RowsExist DEF StreamsFollowSessions
<1>19. GrantsEnd
  BY <1>11, <1>13, KeptGrantsEnd
<1> QED
  BY <1>14, <1>15, <1>16, <1>17, <1>18, <1>19 DEF SessionsInv

LEMMA StreamStep ==
    ASSUME SessionsInv,
           \/ \E b \in Browsers : OpenStream(b)
           \/ \E s \in DOMAIN sess : CloseStream(s) \/ Heartbeat(s)
    PROVE  SessionsInv' /\ GrantsEnd
<1>1. UNCHANGED <<account, endpoint, grant, sess, cookie, secret, enrolments>>
  BY DEF OpenStream, CloseStream, Heartbeat
<1>2. \A s \in streams' : s \in DOMAIN sess /\ (s \in streams \/ sess[s].state = "active")
  BY RowsExist DEF SessionsInv, OpenStream, CloseStream, Heartbeat, SignedIn, Usable
<1>3. SessionsTypeOK'
  BY <1>1, <1>2 DEF SessionsInv, SessionsTypeOK
<1>4. GrantsEnd
  BY <1>1, KeptGrantsEnd DEF Live
<1> QED
  BY <1>1, <1>2, <1>3, <1>4 DEF SessionsInv, CookiesAreOwn, ActiveIsCurrent, GrantsAreCurrent,
                           StreamsFollowSessions, Live

LEMMA RequestStep ==
    ASSUME SessionsInv, NEW b \in Browsers, BrowserRequest(b)
    PROVE  SessionsInv' /\ GrantsEnd
<1>1. ASSUME NEW u \in Users, Register(u, b) PROVE SessionsInv' /\ GrantsEnd
  <2>1. /\ account' \in [Users -> {"none", "enabled", "disabled", "deleted"}]
        /\ account'[u] = "enabled" /\ \A v \in Users : v # u => account'[v] = account[v]
    BY <1>1 DEF Register, SessionsInv, SessionsTypeOK
  <2>2. SetSession(u, b, FALSE, secret[u]) /\ UNCHANGED <<secret, enrolments>>
    BY <1>1 DEF Register
  <2> QED
    BY <2>1, <2>2, SetSessionStep
<1>2. ASSUME NEW u \in Users, NEW remembered \in BOOLEAN, Login(u, b, remembered)
      PROVE  SessionsInv' /\ GrantsEnd
  <2>1. account' \in [Users -> {"none", "enabled", "disabled", "deleted"}]
        /\ account'[u] = "enabled" /\ \A v \in Users : v # u => account'[v] = account[v]
    BY <1>2 DEF Login, SessionsInv, SessionsTypeOK
  <2>2. SetSession(u, b, remembered, secret[u]) /\ UNCHANGED <<secret, enrolments>>
    BY <1>2 DEF Login
  <2> QED
    BY <2>1, <2>2, SetSessionStep
<1>3. ASSUME NEW g \in Grants, Enroll(b, g) PROVE SessionsInv' /\ GrantsEnd
  BY <1>3, EnrollStep
<1>4. ASSUME NEW u \in Users, Resume(u, b) PROVE SessionsInv' /\ GrantsEnd
  <2>1. account' \in [Users -> {"none", "enabled", "disabled", "deleted"}]
        /\ account'[u] = "enabled" /\ \A v \in Users : v # u => account'[v] = account[v]
    BY <1>4 DEF Resume, Resumable, SessionsInv, SessionsTypeOK
  <2>2. SetSession(u, b, TRUE, grant[u][b].proof) /\ UNCHANGED <<secret, enrolments>>
    BY <1>4 DEF Resume
  <2>3. grant[u][b].proof = secret[u]
    BY <1>4 DEF Resume, Resumable, SessionsInv, GrantsAreCurrent
  <2> QED
    BY <2>1, <2>2, <2>3, SetSessionStep
<1>5. CASE Close(b)
  BY <1>5, CloseSessionStep DEF Close
<1>6. CASE Logout(b)
  <2>1. UserAt(b) \in Users
    BY <1>6, RowsExist, SessionFields
       DEF Logout, SignedIn, UserAt, SessionsInv, SessionsTypeOK
  <2> QED
    BY <1>6, <2>1, RevokeEndpointStep DEF Logout
<1>7. ASSUME NEW u \in Users, NEW g \in Grants, NEW s \in DOMAIN sess, RevokeBrowserGrant(u, b, g, s)
      PROVE  SessionsInv' /\ GrantsEnd
  <2>1. UNCHANGED <<account, cookie, secret, enrolments>>
        /\ (RevokeEndpoint(u, b) \/ (CloseSession(s) /\ UNCHANGED <<endpoint, grant>>))
    BY <1>7 DEF RevokeBrowserGrant
  <2> QED
    BY <2>1, RevokeEndpointStep, CloseSessionStep
<1>8. ASSUME NEW other \in Browsers, RemoveEndpoint(b, other) PROVE SessionsInv' /\ GrantsEnd
  <2>1. PICK u \in Users : u = UserAt(b)
    BY <1>8, RowsExist, SessionFields
       DEF RemoveEndpoint, SignedIn, UserAt, SessionsInv, SessionsTypeOK
  <2>2. UNCHANGED <<account, cookie, secret, enrolments>>
        /\ (RevokeEndpoint(u, other) \/ (DropEndpoint(u, other) /\ UNCHANGED streams))
    BY <1>8, <2>1 DEF RemoveEndpoint
  <2> QED
    BY <2>2, RevokeEndpointStep, DropEndpointStep
<1>9. CASE ChangePassword(b) \/ ChangeUsername(b)
  BY <1>9, RenewalStep
<1>10. CASE OpenStream(b)
  BY <1>10, StreamStep
<1> QED
  BY <1>1, <1>2, <1>3, <1>4, <1>5, <1>6, <1>7, <1>8, <1>9, <1>10 DEF BrowserRequest

LEMMA AdministrationStep ==
    ASSUME SessionsInv, NEW u \in Users, Administration(u)
    PROVE  SessionsInv' /\ GrantsEnd
<1>1. CASE Recover(u)
  <2>1. secret' \in [Users -> 0..MaxSecrets] /\ \A v \in Users : v # u => secret'[v] = secret[v]
    BY <1>1, SessionBounds DEF Recover, SessionsInv, SessionsTypeOK, SessionBounds
  <2>2. /\ RevokeUserCredentials(u) /\ streams' = streams \ SessionsOf(u)
        /\ UNCHANGED <<account, cookie, enrolments>>
    BY <1>1 DEF Recover
  <2>3. account \in [Users -> {"none", "enabled", "disabled", "deleted"}]
    BY DEF SessionsInv, SessionsTypeOK
  <2> QED
    BY <2>1, <2>2, <2>3, RevokeUserCredentialsStep
<1>2. CASE Disable(u)
  <2>1. account' \in [Users -> {"none", "enabled", "disabled", "deleted"}]
        /\ \A v \in Users : v # u => account'[v] = account[v]
    BY <1>2 DEF Disable, SessionsInv, SessionsTypeOK
  <2>2. RevokeUserCredentials(u) /\ streams' = streams \ SessionsOf(u)
        /\ UNCHANGED <<cookie, secret, enrolments>>
    BY <1>2 DEF Disable
  <2>3. secret \in [Users -> 0..MaxSecrets]
    BY DEF SessionsInv, SessionsTypeOK
  <2> QED
    BY <2>1, <2>2, <2>3, RevokeUserCredentialsStep
<1>3. CASE Enable(u)
  <2>1. account' \in [Users -> {"none", "enabled", "disabled", "deleted"}]
        /\ \A v \in Users : account[v] = "enabled" => account'[v] = "enabled"
    BY <1>3 DEF Enable, SessionsInv, SessionsTypeOK
  <2>2. UNCHANGED <<endpoint, grant, sess, cookie, streams, secret, enrolments>>
    BY <1>3 DEF Enable
  <2>3. SessionsTypeOK'
    BY <2>1, <2>2 DEF SessionsInv, SessionsTypeOK
  <2>4. GrantsEnd
    BY <2>2, KeptGrantsEnd DEF Live
  <2> QED
    BY <2>1, <2>2, <2>3, <2>4 DEF SessionsInv, CookiesAreOwn, ActiveIsCurrent, GrantsAreCurrent,
                             StreamsFollowSessions, Live
<1>4. CASE DeleteUser(u)
  BY <1>4, DeleteUserStep
<1> QED
  BY <1>1, <1>2, <1>3, <1>4 DEF Administration

-----------------------------------------------------------------------------
LEMMA SessionsInductive == SessionsInv /\ [Next]_vars => SessionsInv' /\ GrantsEnd
<1>1. CASE UNCHANGED vars
  <2>1. SessionsInv => GrantsEnd
    BY <1>1, KeptGrantsEnd DEF vars, Live
  <2>2. SessionsInv => SessionsInv'
    BY <1>1 DEF vars, SessionsInv, SessionsTypeOK, CookiesAreOwn, ActiveIsCurrent,
                GrantsAreCurrent, StreamsFollowSessions, Live
  <2> QED
    BY <2>1, <2>2
<1> QED
  BY <1>1, RequestStep, AdministrationStep, TimeStep, StreamStep DEF Next

LEMMA SessionsInit == Init => SessionsInv
<1> SUFFICES ASSUME Init PROVE SessionsInv
  OBVIOUS
<1>1. Len(sess) = 0 /\ DOMAIN sess = {} /\ sess \in Seq(Sessions)
  BY DEF Init
<1>2. SessionsTypeOK
  BY <1>1, NoRowIsOne, SessionBounds DEF Init, SessionsTypeOK, SessionBounds
<1> QED
  BY <1>1, <1>2, NoRowIsOne
     DEF Init, SessionsInv, CookiesAreOwn, ActiveIsCurrent, GrantsAreCurrent,
        StreamsFollowSessions

LEMMA SessionsInvariant == Spec => []SessionsInv
  BY SessionsInit, SessionsInductive, PTL DEF Spec

LEMMA InvImpliesSafe == SessionsInv => SessionsSafe
<1> SUFFICES ASSUME SessionsInv PROVE SessionsSafe
  OBVIOUS
<1>1. \A s \in DOMAIN sess : sess[s].user \in Users /\ sess[s].browser \in Browsers
  BY SessionFields DEF SessionsInv, SessionsTypeOK
<1>2. OneSessionPerBrowser
  BY DEF SessionsInv, OneSessionPerBrowser, ActiveIsCurrent, Usable
<1>3. CredentialsAreCurrent
  BY <1>1 DEF SessionsInv, CredentialsAreCurrent, ActiveIsCurrent, GrantsAreCurrent, Usable,
     Resumable
<1> QED
  BY <1>2, <1>3 DEF SessionsInv, SessionsSafe

(* A browser is signed in to one account at a time, no session or grant     *)
(* that can be used outlives the credential it was obtained with, and no    *)
(* stream is of a revoked session, however the requests, the administration *)
(* and the clocks interleave.                                               *)
THEOREM SessionsAreSafe == Spec => []SessionsSafe
  BY SessionsInvariant, InvImpliesSafe, PTL

(* A grant that can no longer resume a session never can again, whatever is *)
(* signed in, restored or enabled later.                                    *)
LEMMA RetiredGrants == Spec => RetiredGrantsStayRetired
<1>1. ASSUME SessionsInv, [Next]_vars, NEW i \in 1..MaxEnrolments, i <= enrolments, ~CanResume(i)
      PROVE  ~CanResume(i)'
  <2>1. GrantsEnd /\ enrolments \in Nat
    BY <1>1, SessionsInductive, SessionBounds DEF SessionsInv, SessionsTypeOK, SessionBounds
  <2> QED
    BY <1>1, <2>1 DEF GrantsEnd, CanResume
<1>2. SessionsInv /\ [Next]_vars =>
        [\A i \in 1..MaxEnrolments : i <= enrolments /\ ~CanResume(i) => ~CanResume(i)']_vars
  BY <1>1
<1> QED
  BY <1>2, SessionsInvariant, PTL DEF Spec, RetiredGrantsStayRetired

(* A revocation that comes late ends what it names, not what came after it. *)
LEMMA LateRevocations == Spec => LateRevocationSparesNewerSignIns
<1>1. ASSUME SessionsInv, NEW u \in Users, NEW b \in Browsers, NEW g \in Grants, NEW s \in DOMAIN sess,
             RevokeBrowserGrant(u, b, g, s), ~(grant[u][b].row /\ grant[u][b].id = g)
      PROVE  /\ \A t \in DOMAIN sess : t > s /\ Usable(t) => Usable(t)'
             /\ \A c \in Browsers : Resumable(u, c) => Resumable(u, c)'
  <2>1. /\ SessionsTypeOK /\ sess \in Seq(Sessions) /\ ~grant[u][b].row /\ account' = account
        /\ s \in SessionsAt(u, b)
    BY <1>1 DEF RevokeBrowserGrant, SessionsInv, SessionsTypeOK
  <2>2. \A t \in DOMAIN sess : t > s => t # s
    BY <2>1, SessionFields
  <2>3. CASE CloseSession(s) /\ UNCHANGED <<endpoint, grant>>
    <3>1. sess' = Ended(Unended({s}), "revoked")
      BY <2>3 DEF CloseSession
    <3>2. \A t \in DOMAIN sess : t # s => sess'[t] = sess[t]
      BY <3>1 DEF Ended, Unended
    <3> QED
      BY <2>1, <2>2, <2>3, <3>2 DEF Usable, Resumable, Live
  <2>4. CASE RevokeEndpoint(u, b) /\ \A t \in SessionsAt(u, b) \ {s} : sess[t].state # "active"
    <3>1. /\ sess' = Ended(Unended(SessionsAt(u, b)), "revoked")
          /\ grant' = [grant EXCEPT ![u][b] = NoRow]
          /\ endpoint' = [endpoint EXCEPT ![u][b] = Signed(@)]
      BY <2>4 DEF RevokeEndpoint
    <3>2. \A v \in Users, c \in Browsers : v # u \/ c # b =>
            endpoint'[v][c] = endpoint[v][c] /\ grant'[v][c] = grant[v][c]
      BY <2>1, <3>1 DEF SessionsTypeOK
    <3>3. ASSUME NEW t \in DOMAIN sess, t > s, Usable(t)
          PROVE  Usable(t)'
      <4>1. sess[t].user \in Users /\ sess[t].browser \in Browsers /\ t \notin SessionsAt(u, b)
        BY <2>1, <2>2, <2>4, <3>3, SessionFields DEF Usable
      <4>2. sess'[t] = sess[t]
        BY <3>1, <4>1 DEF Ended, Unended
      <4> QED
        BY <2>1, <3>2, <3>3, <4>1, <4>2 DEF Usable, Live, SessionsAt, SessionsOf
    <3>4. \A c \in Browsers : Resumable(u, c) => Resumable(u, c)'
      BY <2>1, <3>2 DEF Resumable, Live
    <3> QED
      BY <3>3, <3>4
  <2> QED
    BY <1>1, <2>1, <2>3, <2>4 DEF RevokeBrowserGrant
<1>2. SessionsInv =>
        [\A u \in Users, b \in Browsers, g \in Grants, s \in DOMAIN sess :
           RevokeBrowserGrant(u, b, g, s) /\ ~(grant[u][b].row /\ grant[u][b].id = g) =>
             /\ \A t \in DOMAIN sess : t > s /\ Usable(t) => Usable(t)'
             /\ \A c \in Browsers : Resumable(u, c) => Resumable(u, c)']_vars
  BY <1>1
<1> QED
  BY <1>2, SessionsInvariant, PTL DEF Spec, LateRevocationSparesNewerSignIns

(* What was ended stays ended, and ending ends no more than it says.        *)
THEOREM EndingsAreFinal == Spec => EndedStaysEnded
  BY RetiredGrants, LateRevocations, PTL DEF EndedStaysEnded

-----------------------------------------------------------------------------
(***************************************************************************)
(* Accounts: what is known of its tables.                                  *)
(***************************************************************************)
(* A connection nobody revoked was made with the present credential of an    *)
(* account that is enabled, also one that idles and may be woken again.      *)
UnrevokedAreCurrent ==
  \A a \in Apps : app[a].row /\ ~app[a].revoked =>
    /\ app[a].proof = user[app[a].owner].secret
    /\ app[a].owner \in Server!SignedIn

(* A registration that may come again finds the row of its account.          *)
PostedAreRows == \A p \in posted : app[p[2]].row /\ app[p[2]].owner = p[1]

AccountsInv ==
  /\ Server!AccountsTypeOK /\ Server!NamesAreUnique /\ Server!OneAdministrator
  /\ UnrevokedAreCurrent /\ PostedAreRows

LEMMA AccountsRecords ==
  /\ \A u \in Server!Accounts : /\ u.state \in {"enabled", "disabled"} /\ u.name \in Names
                         /\ u.role \in {"admin", "user"} /\ u.secret \in 0..MaxReplaced
  /\ Server!Unused.state = "unused" /\ Server!Deleted.state = "deleted" /\ ~Server!NoApp.row
  /\ \A c \in Server!AppRows : /\ c.row /\ c.owner \in Ids /\ c.revoked \in BOOLEAN
                        /\ c.proof \in 0..MaxReplaced /\ c.expiry \in {"ahead", "idle", "absolute"}
  /\ \A s \in Server!Setups : s.name \in Names /\ s.by \in Ids /\ s.expired \in BOOLEAN
  BY DEF Server!Accounts, Server!Unused, Server!Deleted, Server!NoApp, Server!AppRows,
     Server!Setups

LEMMA AccountsInitially == Server!AccountBounds /\ Server!Init => AccountsInv
  BY AccountsRecords
  DEF Server!Init, AccountsInv, Server!AccountsTypeOK, Server!NamesAreUnique,
     Server!OneAdministrator, UnrevokedAreCurrent,
      PostedAreRows, Server!Rows, Server!SignedIn, Server!Admins, Server!Pending, Server!NameTaken

LEMMA InsertKeeps ==
  ASSUME Server!AccountBounds, AccountsInv, NEW i \in Ids, NEW n \in Names,
         NEW role \in {"admin", "user"}, role = "admin" <=> Server!Rows = {},
         Server!InsertUser(i, n, role), setup' \subseteq setup,
         \A s \in setup' : ~s.expired => s.name # n,
         UNCHANGED <<app, posted, request>>
  PROVE  AccountsInv'
<1>1. /\ user' = [user EXCEPT ![i] = [state |-> "enabled", name |-> n, role |-> role, secret |-> 0]]
      /\ user[i] = Server!Unused /\ ~Server!NameTaken(n)
  BY DEF Server!InsertUser
<1>2. [state |-> "enabled", name |-> n, role |-> role, secret |-> 0] \in Server!Accounts
  BY DEF Server!Accounts, Server!AccountBounds
<1>3. user \in [Ids -> Server!Accounts \cup {Server!Unused, Server!Deleted}]
  BY DEF AccountsInv, Server!AccountsTypeOK
<1>4. /\ user' \in [Ids -> Server!Accounts \cup {Server!Unused, Server!Deleted}]
      /\ \A j \in Ids : j # i => user'[j] = user[j]
      /\ user'[i].state = "enabled" /\ user'[i].name = n /\ user'[i].role = role
  BY <1>1, <1>2, <1>3
<1>5. i \notin Server!Rows /\ Server!Rows' = Server!Rows \cup {i} /\ Server!SignedIn' = Server!SignedIn \cup {i}
  BY <1>1, <1>4, AccountsRecords DEF Server!Rows, Server!SignedIn
<1>6. Server!Admins' = IF role = "admin" THEN Server!Admins \cup {i} ELSE Server!Admins
  BY <1>4, <1>5 DEF Server!Admins, Server!Rows
<1>7. Server!AccountsTypeOK'
  BY <1>4, <1>5 DEF AccountsInv, Server!AccountsTypeOK
<1>8. Server!NamesAreUnique'
  BY <1>1, <1>4, <1>5 DEF AccountsInv, Server!NamesAreUnique, Server!NameTaken,
     Server!Pending, Server!Rows
<1>9. Server!OneAdministrator'
  BY <1>5, <1>6 DEF AccountsInv, Server!OneAdministrator, Server!Admins
<1>10. UnrevokedAreCurrent'
  BY <1>4, <1>5, AccountsRecords DEF AccountsInv, Server!AccountsTypeOK, UnrevokedAreCurrent,
     Server!Rows
<1>11. PostedAreRows'
  BY DEF AccountsInv, PostedAreRows
<1> QED BY <1>7, <1>8, <1>9, <1>10, <1>11 DEF AccountsInv

LEMMA SetupsKeep ==
  ASSUME Server!AccountBounds, AccountsInv, UNCHANGED <<user, app, posted, request>>,
         setup' \subseteq Server!Setups, \A s \in setup' : s.by \in Server!Rows, Server!NamesAreUnique'
  PROVE  AccountsInv'
<1>1. Server!Rows' = Server!Rows /\ Server!SignedIn' = Server!SignedIn /\ Server!Admins' = Server!Admins
  BY DEF Server!Rows, Server!SignedIn, Server!Admins
<1>2. Server!AccountsTypeOK'
  BY <1>1 DEF AccountsInv, Server!AccountsTypeOK
<1> QED
  BY <1>1, <1>2 DEF AccountsInv, Server!OneAdministrator, UnrevokedAreCurrent, PostedAreRows

LEMMA CreateSetupKeeps ==
  ASSUME Server!AccountBounds, AccountsInv, NEW i \in Ids, NEW n \in Names, Server!CreateSetup(i, n)
  PROVE  AccountsInv'
<1> DEFINE made == [name |-> n, by |-> i, expired |-> FALSE]
<1>1. made \in Server!Setups /\ made.name = n /\ made.by = i
  BY DEF Server!Setups
<1>2. /\ UNCHANGED <<user, app, posted, request>> /\ i \in Server!Rows
      /\ setup' = Server!Pending \cup {made} /\ ~Server!NameTaken(n) /\ \A s \in Server!Pending : s.name # n
  BY DEF Server!CreateSetup, Server!SignedIn, Server!Rows
<1> HIDE DEF made
<1>3. setup' \subseteq Server!Setups /\ (\A s \in setup' : s.by \in Server!Rows)
  BY <1>1, <1>2 DEF Server!Pending, AccountsInv, Server!AccountsTypeOK
<1>4. Server!NamesAreUnique'
  BY <1>1, <1>2 DEF Server!Pending, AccountsInv, Server!NamesAreUnique, Server!NameTaken,
     Server!Rows
<1> QED BY <1>2, <1>3, <1>4, SetupsKeep

LEMMA DeleteSetupKeeps ==
  ASSUME Server!AccountBounds, AccountsInv, NEW i \in Ids, NEW s \in setup, Server!DeleteSetup(i, s)
  PROVE  AccountsInv'
<1>1. UNCHANGED <<user, app, posted, request>> /\ setup' = setup \ {s}
  BY DEF Server!DeleteSetup
<1>2. setup' \subseteq Server!Setups /\ (\A d \in setup' : d.by \in Server!Rows)
  BY <1>1 DEF AccountsInv, Server!AccountsTypeOK
<1>3. Server!NamesAreUnique'
  BY <1>1 DEF Server!Pending, AccountsInv, Server!NamesAreUnique, Server!NameTaken, Server!Rows
<1> QED BY <1>1, <1>2, <1>3, SetupsKeep

LEMMA SetupExpiresKeeps ==
  ASSUME Server!AccountBounds, AccountsInv, NEW s \in setup, Server!SetupExpires(s)
  PROVE  AccountsInv'
<1>1. s \in Server!Setups BY DEF AccountsInv, Server!AccountsTypeOK
<1> DEFINE over == [s EXCEPT !.expired = TRUE]
<1>2. over \in Server!Setups /\ over.name = s.name /\ over.by = s.by /\ over.expired
  BY <1>1 DEF Server!Setups
<1>3. UNCHANGED <<user, app, posted, request>> /\ setup' = (setup \ {s}) \cup {over} /\ s \in Server!Pending
  BY DEF Server!SetupExpires
<1> HIDE DEF over
<1>4. setup' \subseteq Server!Setups /\ (\A d \in setup' : d.by \in Server!Rows)
  BY <1>2, <1>3 DEF AccountsInv, Server!AccountsTypeOK
<1>5. Server!NamesAreUnique'
  BY <1>2, <1>3 DEF Server!Pending, AccountsInv, Server!NamesAreUnique, Server!NameTaken,
     Server!Rows
<1> QED BY <1>3, <1>4, <1>5, SetupsKeep

LEMMA RevokeKeeps ==
  ASSUME Server!AccountsTypeOK, NEW i \in Ids, Server!RevokeApplicationConnections(i)
  PROVE  /\ app' \in [Apps -> Server!AppRows \cup {Server!NoApp}]
         /\ \A a \in Apps : /\ app'[a].row = app[a].row
                            /\ app[a].row => app'[a].owner = app[a].owner
                            /\ app[a].row /\ app[a].owner # i => app'[a] = app[a]
                            /\ app[a].row /\ app[a].owner = i => app'[a].revoked
                            /\ app[a].row /\ app[a].revoked => app'[a].revoked
                            /\ app[a].row => app'[a].proof = app[a].proof
                            /\ app[a].row => app'[a].expiry = app[a].expiry
<1>1. app' = [a \in Apps |-> IF app[a].row /\ app[a].owner = i THEN [app[a] EXCEPT !.revoked = TRUE] ELSE app[a]]
  BY DEF Server!RevokeApplicationConnections
<1>2. ASSUME NEW a \in Apps, app[a].row
      PROVE  /\ app[a] \in Server!AppRows
             /\ [app[a] EXCEPT !.revoked = TRUE] \in Server!AppRows
             /\ [app[a] EXCEPT !.revoked = TRUE].row /\ app[a].row = TRUE
             /\ [app[a] EXCEPT !.revoked = TRUE].revoked
             /\ [app[a] EXCEPT !.revoked = TRUE].owner = app[a].owner
             /\ [app[a] EXCEPT !.revoked = TRUE].row = app[a].row
             /\ [app[a] EXCEPT !.revoked = TRUE].proof = app[a].proof
             /\ [app[a] EXCEPT !.revoked = TRUE].expiry = app[a].expiry
  <2>1. app[a] \in Server!AppRows BY <1>2, AccountsRecords DEF Server!AccountsTypeOK
  <2> QED BY <2>1 DEF Server!AppRows
<1>3. app' \in [Apps -> Server!AppRows \cup {Server!NoApp}]
  BY <1>1, <1>2 DEF Server!AccountsTypeOK
<1> QED BY <1>1, <1>2, <1>3

(* Every action that changes accounts only in their secrets, states or names. *)
LEMMA RenameKeeps ==
  ASSUME Server!AccountBounds, AccountsInv, NEW i \in Ids, NEW n \in Names, Server!ChangeUsername(i, n)
  PROVE  AccountsInv'
<1> DEFINE row == [user[i] EXCEPT !.name = n]
<1>1. user[i] \in Server!Accounts /\ i \in Server!Rows
  BY AccountsRecords DEF Server!ChangeUsername, Server!SignedIn, Server!Rows, AccountsInv,
     Server!AccountsTypeOK
<1>2. row \in Server!Accounts /\ row.name = n /\ row.state = user[i].state /\ row.role = user[i].role
      /\ row.secret = user[i].secret
  BY <1>1 DEF Server!Accounts
<1>3. user' = [user EXCEPT ![i] = row] /\ UNCHANGED <<setup, app, posted, request>>
  BY DEF Server!ChangeUsername
<1>4. ~Server!NameTaken(n) /\ ~Server!Reserved(n) BY DEF Server!ChangeUsername
<1> HIDE DEF row
<1>5. user' \in [Ids -> Server!Accounts \cup {Server!Unused, Server!Deleted}]
      /\ user'[i] = row /\ \A j \in Ids : j # i => user'[j] = user[j]
  BY <1>2, <1>3 DEF AccountsInv, Server!AccountsTypeOK
<1>6. Server!Rows' = Server!Rows /\ Server!SignedIn' = Server!SignedIn /\ Server!Admins' = Server!Admins
  BY <1>2, <1>5 DEF Server!Rows, Server!SignedIn, Server!Admins
<1>7. Server!AccountsTypeOK'
  BY <1>3, <1>5, <1>6 DEF AccountsInv, Server!AccountsTypeOK
<1>8. Server!NamesAreUnique'
  BY <1>2, <1>3, <1>4, <1>5, <1>6
  DEF AccountsInv, Server!NamesAreUnique, Server!NameTaken, Server!Reserved, Server!Pending,
     Server!Rows
<1>9. UnrevokedAreCurrent'
  BY <1>1, <1>2, <1>3, <1>5, <1>6 DEF AccountsInv, Server!AccountsTypeOK,
     UnrevokedAreCurrent, Server!Rows
<1> QED
  BY <1>3, <1>6, <1>7, <1>8, <1>9 DEF AccountsInv, Server!OneAdministrator, PostedAreRows

LEMMA ReplaceSecretKeeps ==
  ASSUME Server!AccountBounds, AccountsInv, NEW i \in Ids, Server!ReplaceSecret(i)
  PROVE  AccountsInv'
<1> DEFINE row == [user[i] EXCEPT !.secret = @ + 1]
<1>1. user[i] \in Server!Accounts /\ i \in Server!Rows
  BY AccountsRecords DEF Server!ReplaceSecret, Server!Rows, AccountsInv, Server!AccountsTypeOK
<1>2. row \in Server!Accounts /\ row.name = user[i].name /\ row.state = user[i].state
      /\ row.role = user[i].role
  BY <1>1 DEF Server!Accounts, Server!ReplaceSecret, Server!AccountBounds
<1>3. user' = [user EXCEPT ![i] = row] /\ UNCHANGED <<setup, posted, request>>
      /\ Server!RevokeApplicationConnections(i)
  BY DEF Server!ReplaceSecret
<1> HIDE DEF row
<1>4. user' \in [Ids -> Server!Accounts \cup {Server!Unused, Server!Deleted}]
      /\ user'[i] = row /\ \A j \in Ids : j # i => user'[j] = user[j]
  BY <1>2, <1>3 DEF AccountsInv, Server!AccountsTypeOK
<1>5. Server!Rows' = Server!Rows /\ Server!SignedIn' = Server!SignedIn /\ Server!Admins' = Server!Admins
  BY <1>2, <1>4 DEF Server!Rows, Server!SignedIn, Server!Admins
<1>6. Server!AccountsTypeOK'
  BY <1>3, <1>4, <1>5, RevokeKeeps DEF AccountsInv, Server!AccountsTypeOK
<1>7. Server!NamesAreUnique'
  BY <1>2, <1>3, <1>4, <1>5 DEF AccountsInv, Server!NamesAreUnique, Server!NameTaken,
     Server!Pending, Server!Rows
<1>8. UnrevokedAreCurrent'
  BY <1>3, <1>4, <1>5, RevokeKeeps DEF AccountsInv, Server!AccountsTypeOK,
     UnrevokedAreCurrent, Server!Rows
<1>9. PostedAreRows'
  BY <1>3, RevokeKeeps DEF AccountsInv, Server!AccountsTypeOK, PostedAreRows
<1> QED
  BY <1>5, <1>6, <1>7, <1>8, <1>9 DEF AccountsInv, Server!OneAdministrator

LEMMA DisableKeeps ==
  ASSUME Server!AccountBounds, AccountsInv, NEW i \in Ids, NEW t \in Ids, Server!Disable(i, t)
  PROVE  AccountsInv'
<1> DEFINE row == [user[t] EXCEPT !.state = "disabled"]
<1>1. user[t] \in Server!Accounts /\ t \in Server!Rows /\ t # i /\ i \in Server!SignedIn \cap Server!Admins
  BY AccountsRecords DEF Server!Disable, Server!Rows, AccountsInv, Server!AccountsTypeOK
<1>2. row \in Server!Accounts /\ row.name = user[t].name /\ row.state = "disabled"
      /\ row.role = user[t].role
  BY <1>1 DEF Server!Accounts
<1>3. user' = [user EXCEPT ![t] = row] /\ UNCHANGED <<setup, posted, request>>
      /\ Server!RevokeApplicationConnections(t)
  BY DEF Server!Disable
<1> HIDE DEF row
<1>4. user' \in [Ids -> Server!Accounts \cup {Server!Unused, Server!Deleted}]
      /\ user'[t] = row /\ \A j \in Ids : j # t => user'[j] = user[j]
  BY <1>2, <1>3 DEF AccountsInv, Server!AccountsTypeOK
<1>5. Server!Rows' = Server!Rows /\ Server!SignedIn' = Server!SignedIn \ {t} /\ Server!Admins' = Server!Admins
  BY <1>1, <1>2, <1>4 DEF Server!Rows, Server!SignedIn, Server!Admins
<1>6. Server!AccountsTypeOK'
  BY <1>3, <1>4, <1>5, RevokeKeeps DEF AccountsInv, Server!AccountsTypeOK
<1>7. Server!NamesAreUnique'
  BY <1>2, <1>3, <1>4, <1>5 DEF AccountsInv, Server!NamesAreUnique, Server!NameTaken,
     Server!Pending, Server!Rows
<1>8. UnrevokedAreCurrent'
  BY <1>3, <1>4, <1>5, RevokeKeeps DEF AccountsInv, Server!AccountsTypeOK,
     UnrevokedAreCurrent, Server!Rows
<1>9. PostedAreRows'
  BY <1>3, RevokeKeeps DEF AccountsInv, Server!AccountsTypeOK, PostedAreRows
<1>10. Server!OneAdministrator'
  BY <1>1, <1>5 DEF AccountsInv, Server!OneAdministrator
<1> QED
  BY <1>6, <1>7, <1>8, <1>9, <1>10 DEF AccountsInv

LEMMA EnableKeeps ==
  ASSUME Server!AccountBounds, AccountsInv, NEW i \in Ids, NEW t \in Ids, Server!Enable(i, t)
  PROVE  AccountsInv'
<1> DEFINE row == [user[t] EXCEPT !.state = "enabled"]
<1>1. user[t] \in Server!Accounts /\ t \in Server!Rows
  BY AccountsRecords DEF Server!Enable, Server!Rows, AccountsInv, Server!AccountsTypeOK
<1>2. row \in Server!Accounts /\ row.name = user[t].name /\ row.state = "enabled"
      /\ row.role = user[t].role /\ row.secret = user[t].secret
  BY <1>1 DEF Server!Accounts
<1>3. user' = [user EXCEPT ![t] = row] /\ UNCHANGED <<setup, app, posted, request>>
  BY DEF Server!Enable
<1> HIDE DEF row
<1>4. user' \in [Ids -> Server!Accounts \cup {Server!Unused, Server!Deleted}]
      /\ user'[t] = row /\ \A j \in Ids : j # t => user'[j] = user[j]
  BY <1>2, <1>3 DEF AccountsInv, Server!AccountsTypeOK
<1>5. Server!Rows' = Server!Rows /\ Server!SignedIn' = Server!SignedIn \cup {t} /\ Server!Admins' = Server!Admins
  BY <1>1, <1>2, <1>4 DEF Server!Rows, Server!SignedIn, Server!Admins
<1>6. Server!AccountsTypeOK'
  BY <1>3, <1>4, <1>5 DEF AccountsInv, Server!AccountsTypeOK
<1>7. Server!NamesAreUnique'
  BY <1>2, <1>3, <1>4, <1>5 DEF AccountsInv, Server!NamesAreUnique, Server!NameTaken,
     Server!Pending, Server!Rows
<1>8. UnrevokedAreCurrent'
  BY <1>2, <1>3, <1>4, <1>5 DEF AccountsInv, Server!AccountsTypeOK, UnrevokedAreCurrent,
     Server!Rows
<1>9. PostedAreRows' /\ Server!OneAdministrator'
  BY <1>3, <1>5 DEF AccountsInv, PostedAreRows, Server!OneAdministrator
<1> QED
  BY <1>6, <1>7, <1>8, <1>9 DEF AccountsInv

LEMMA DeleteUserKeeps ==
  ASSUME Server!AccountBounds, AccountsInv, NEW i \in Ids, NEW t \in Ids, Server!DeleteUser(i, t)
  PROVE  AccountsInv'
<1>1. /\ i \in Server!SignedIn \cap Server!Admins /\ t \in Server!Rows \ {i}
      /\ user' = [user EXCEPT ![t] = Server!Deleted]
      /\ setup' = {s \in setup : s.by # t}
      /\ app' = [a \in Apps |-> IF app[a].row /\ app[a].owner = t THEN Server!NoApp ELSE app[a]]
      /\ posted' = {p \in posted : p[1] # t}
      /\ request' = request
  BY DEF Server!DeleteUser
<1>2. user' \in [Ids -> Server!Accounts \cup {Server!Unused, Server!Deleted}]
      /\ user'[t] = Server!Deleted /\ \A j \in Ids : j # t => user'[j] = user[j]
  BY <1>1 DEF AccountsInv, Server!AccountsTypeOK
<1>3. t \notin Server!Admins
  BY <1>1 DEF AccountsInv, Server!OneAdministrator
<1>4. Server!Rows' = Server!Rows \ {t} /\ Server!SignedIn' = Server!SignedIn \ {t} /\ Server!Admins' = Server!Admins
  BY <1>1, <1>2, <1>3, AccountsRecords DEF Server!Rows, Server!SignedIn, Server!Admins
<1>5. \A a \in Apps : IF app[a].row /\ app[a].owner = t THEN app'[a] = Server!NoApp ELSE app'[a] = app[a]
  BY <1>1
<1>6. app' \in [Apps -> Server!AppRows \cup {Server!NoApp}]
  BY <1>1 DEF AccountsInv, Server!AccountsTypeOK
<1>7. Server!AccountsTypeOK'
  BY <1>1, <1>2, <1>4, <1>5, <1>6, AccountsRecords DEF AccountsInv, Server!AccountsTypeOK
<1>8. Server!NamesAreUnique'
  BY <1>1, <1>2, <1>4 DEF AccountsInv, Server!NamesAreUnique, Server!NameTaken,
     Server!Pending, Server!Rows
<1>9. UnrevokedAreCurrent'
  BY <1>2, <1>4, <1>5, AccountsRecords
  DEF AccountsInv, Server!AccountsTypeOK, UnrevokedAreCurrent, Server!Rows
<1>10. PostedAreRows'
  BY <1>1, <1>5 DEF AccountsInv, Server!AccountsTypeOK, PostedAreRows
<1>11. Server!OneAdministrator'
  BY <1>1, <1>4 DEF AccountsInv, Server!OneAdministrator
<1> QED
  BY <1>7, <1>8, <1>9, <1>10, <1>11 DEF AccountsInv

LEMMA RowWritten ==
  ASSUME Server!AccountsTypeOK, NEW a \in Apps, NEW row \in Server!AppRows, app' = [app EXCEPT ![a] = row]
  PROVE  /\ app' \in [Apps -> Server!AppRows \cup {Server!NoApp}]
         /\ app'[a] = row /\ \A b \in Apps : b # a => app'[b] = app[b]
  BY DEF Server!AccountsTypeOK

LEMMA RowFields ==
  ASSUME Server!AccountsTypeOK, NEW a \in Apps, app[a].row
  PROVE  /\ app[a] \in Server!AppRows /\ app[a].row = TRUE
         /\ \A row \in {[app[a] EXCEPT !.revoked = TRUE], [app[a] EXCEPT !.removed = TRUE],
                        [app[a] EXCEPT !.expiry = "ahead"], [app[a] EXCEPT !.expiry = "idle"],
                        [app[a] EXCEPT !.expiry = "absolute"]} :
              /\ row \in Server!AppRows /\ row.row /\ row.owner = app[a].owner
              /\ row.proof = app[a].proof
              /\ app[a].revoked => row.revoked
              /\ row.revoked => app[a].revoked \/ row = [app[a] EXCEPT !.revoked = TRUE]
         /\ [app[a] EXCEPT !.revoked = TRUE].revoked
<1>1. app[a] \in Server!AppRows
  BY AccountsRecords DEF Server!AccountsTypeOK
<1> QED BY <1>1 DEF Server!AppRows

(* Nothing happens to a connection but that it ends, or idles and wakes. *)
LEMMA ConnectionsKeep ==
  ASSUME Server!AccountBounds, AccountsInv, UNCHANGED <<user, setup, posted>>, request' \subseteq Apps,
         app' \in [Apps -> Server!AppRows \cup {Server!NoApp}],
         \A a \in Apps : /\ app'[a].row = app[a].row
                         /\ app[a].row => /\ app'[a].owner = app[a].owner
                                          /\ app'[a].proof = app[a].proof
                                          /\ app[a].revoked => app'[a].revoked
  PROVE  AccountsInv'
<1>1. Server!Rows' = Server!Rows /\ Server!SignedIn' = Server!SignedIn /\ Server!Admins' = Server!Admins
  BY DEF Server!Rows, Server!SignedIn, Server!Admins
<1>2. Server!AccountsTypeOK'
  BY <1>1 DEF AccountsInv, Server!AccountsTypeOK
<1>3. Server!NamesAreUnique' /\ Server!OneAdministrator'
  BY <1>1 DEF AccountsInv, Server!NamesAreUnique, Server!NameTaken, Server!Pending,
     Server!OneAdministrator
<1>4. UnrevokedAreCurrent'
  BY <1>1 DEF AccountsInv, UnrevokedAreCurrent
<1>5. PostedAreRows'
  BY DEF AccountsInv, Server!AccountsTypeOK, PostedAreRows
<1> QED BY <1>2, <1>3, <1>4, <1>5 DEF AccountsInv

LEMMA RegisterApplicationKeeps ==
  ASSUME Server!AccountBounds, AccountsInv, NEW i \in Ids, NEW a \in Apps,
         NEW access \in {"read", "read-write"}, Server!RegisterApplication(i, a, access)
  PROVE  AccountsInv'
<1> DEFINE row == [row |-> TRUE, owner |-> i, access |-> access, revoked |-> FALSE,
                   removed |-> FALSE, expiry |-> "ahead", proof |-> user[i].secret]
<1>1. user[i] \in Server!Accounts /\ i \in Server!SignedIn /\ i \in Server!Rows
  BY AccountsRecords DEF Server!RegisterApplication, Server!SignedIn, Server!Rows,
     AccountsInv, Server!AccountsTypeOK
<1>2. /\ row \in Server!AppRows /\ row.row /\ row.owner = i /\ row.proof = user[i].secret
  BY <1>1, AccountsRecords DEF Server!AppRows
<1>3. /\ app' = [app EXCEPT ![a] = row] /\ posted' = posted \cup {<<i, a>>}
      /\ UNCHANGED <<user, setup, request>> /\ ~app[a].row
  BY DEF Server!RegisterApplication
<1> HIDE DEF row
<1>4. /\ app' \in [Apps -> Server!AppRows \cup {Server!NoApp}]
      /\ app'[a] = row /\ \A b \in Apps : b # a => app'[b] = app[b]
  BY <1>2, <1>3, RowWritten DEF AccountsInv
<1>5. Server!Rows' = Server!Rows /\ Server!SignedIn' = Server!SignedIn /\ Server!Admins' = Server!Admins
  BY <1>3 DEF Server!Rows, Server!SignedIn, Server!Admins
<1>6. Server!AccountsTypeOK'
  BY <1>1, <1>2, <1>3, <1>4, <1>5 DEF AccountsInv, Server!AccountsTypeOK
<1>7. Server!NamesAreUnique' /\ Server!OneAdministrator'
  BY <1>3, <1>5 DEF AccountsInv, Server!NamesAreUnique, Server!NameTaken, Server!Pending,
     Server!OneAdministrator
<1>8. UnrevokedAreCurrent'
  BY <1>1, <1>2, <1>3, <1>4, <1>5 DEF AccountsInv, UnrevokedAreCurrent
<1>9. PostedAreRows'
  BY <1>2, <1>3, <1>4 DEF AccountsInv, Server!AccountsTypeOK, PostedAreRows
<1> QED BY <1>6, <1>7, <1>8, <1>9 DEF AccountsInv

LEMMA RowChangedKeeps ==
  ASSUME Server!AccountBounds, AccountsInv, NEW a \in Apps, app[a].row,
         NEW row \in {[app[a] EXCEPT !.revoked = TRUE], [app[a] EXCEPT !.removed = TRUE],
                      [app[a] EXCEPT !.expiry = "ahead"], [app[a] EXCEPT !.expiry = "idle"],
                      [app[a] EXCEPT !.expiry = "absolute"]},
         app' = [app EXCEPT ![a] = row], UNCHANGED <<user, setup, posted>>, request' \subseteq Apps
  PROVE  AccountsInv'
<1>1. Server!AccountsTypeOK BY DEF AccountsInv
<1>2. /\ row \in Server!AppRows /\ row.row /\ row.owner = app[a].owner /\ row.proof = app[a].proof
      /\ app[a].revoked => row.revoked
  BY <1>1, RowFields
<1>3. /\ app' \in [Apps -> Server!AppRows \cup {Server!NoApp}]
      /\ app'[a] = row /\ \A b \in Apps : b # a => app'[b] = app[b]
  BY <1>1, <1>2, RowWritten
<1>4. app[a].row = TRUE /\ row.row = TRUE
  BY <1>1, <1>2, RowFields DEF Server!AppRows
<1>5. \A b \in Apps : /\ app'[b].row = app[b].row
                      /\ app[b].row => /\ app'[b].owner = app[b].owner
                                       /\ app'[b].proof = app[b].proof
                                       /\ app[b].revoked => app'[b].revoked
  BY <1>2, <1>3, <1>4
<1> QED BY <1>3, <1>5, ConnectionsKeep

LEMMA CleanupKeeps ==
  ASSUME Server!AccountBounds, AccountsInv, Server!Cleanup
  PROVE  AccountsInv'
<1>1. /\ UNCHANGED <<user, request>> /\ setup' = Server!Pending
      /\ posted' = {p \in posted : Server!Active(p[2])}
      /\ app' = [a \in Apps |-> IF app[a].row /\ ~Server!Active(a) THEN Server!NoApp ELSE app[a]]
  BY DEF Server!Cleanup
<1>2. \A a \in Apps : app'[a] = IF app[a].row /\ ~Server!Active(a) THEN Server!NoApp ELSE app[a]
  BY <1>1
<1>3. app' \in [Apps -> Server!AppRows \cup {Server!NoApp}]
  BY <1>1 DEF AccountsInv, Server!AccountsTypeOK
<1>4. Server!Rows' = Server!Rows /\ Server!SignedIn' = Server!SignedIn /\ Server!Admins' = Server!Admins
  BY <1>1 DEF Server!Rows, Server!SignedIn, Server!Admins
<1>5. Server!AccountsTypeOK'
  BY <1>1, <1>2, <1>3, <1>4, AccountsRecords DEF AccountsInv, Server!AccountsTypeOK,
     Server!Pending
<1>6. Server!NamesAreUnique' /\ Server!OneAdministrator'
  BY <1>1, <1>4 DEF AccountsInv, Server!NamesAreUnique, Server!NameTaken, Server!Pending,
     Server!OneAdministrator
<1>7. UnrevokedAreCurrent'
  BY <1>1, <1>2, <1>4, AccountsRecords DEF AccountsInv, UnrevokedAreCurrent
<1>8. PostedAreRows'
  BY <1>1, <1>2 DEF AccountsInv, Server!AccountsTypeOK, PostedAreRows, Server!Active
<1> QED BY <1>5, <1>6, <1>7, <1>8 DEF AccountsInv

LEMMA AccountsInductive ==
  ASSUME Server!AccountBounds, AccountsInv, [Server!Next]_Server!vars
  PROVE  AccountsInv'
<1>1. CASE UNCHANGED Server!vars
  BY <1>1, SetupsKeep DEF Server!vars, AccountsInv, Server!AccountsTypeOK,
     Server!NamesAreUnique, Server!NameTaken, Server!Pending, Server!Rows
<1>2. CASE Server!AccountStep
  <2>1. ASSUME NEW i \in Ids, NEW n \in Names, Server!Register(i, n) PROVE AccountsInv'
    <3>1. /\ Server!InsertUser(i, n, Server!Role) /\ setup' = Server!Pending /\ UNCHANGED <<app, posted, request>>
          /\ \A s \in Server!Pending : s.name # n
      BY <2>1 DEF Server!Register
    <3>2. Server!Role \in {"admin", "user"} /\ (Server!Role = "admin" <=> Server!Rows = {})
      BY DEF Server!Role
    <3>3. setup' \subseteq setup /\ \A s \in setup' : ~s.expired => s.name # n
      BY <3>1 DEF Server!Pending
    <3> QED BY <3>1, <3>2, <3>3, InsertKeeps
  <2>2. ASSUME NEW i \in Ids, NEW n \in Names, Server!CreateSetup(i, n) PROVE AccountsInv'
    BY <2>2, CreateSetupKeeps
  <2>3. ASSUME NEW i \in Ids, NEW n \in Names, Server!ChangeUsername(i, n) PROVE AccountsInv'
    BY <2>3, RenameKeeps
  <2>4. ASSUME NEW i \in Ids, NEW s \in setup, Server!Activate(i, s) PROVE AccountsInv'
    <3>1. /\ Server!InsertUser(i, s.name, "user") /\ setup' = setup \ {s} /\ UNCHANGED <<app, posted, request>>
          /\ s \in Server!Pending
      BY <2>4 DEF Server!Activate
    <3>2. s.name \in Names /\ s.by \in Server!Rows
      BY AccountsRecords DEF AccountsInv, Server!AccountsTypeOK
    <3>3. setup' \subseteq setup /\ \A d \in setup' : ~d.expired => d.name # s.name
      BY <3>1 DEF AccountsInv, Server!NamesAreUnique
    <3> QED BY <3>1, <3>2, <3>3, InsertKeeps
  <2>5. ASSUME NEW i \in Ids, NEW s \in setup, Server!DeleteSetup(i, s) PROVE AccountsInv'
    BY <2>5, DeleteSetupKeeps
  <2>6. ASSUME NEW s \in setup, Server!SetupExpires(s) PROVE AccountsInv'
    BY <2>6, SetupExpiresKeeps
  <2>7. ASSUME NEW i \in Ids, Server!ReplaceSecret(i) PROVE AccountsInv'
    BY <2>7, ReplaceSecretKeeps
  <2>8. ASSUME NEW i \in Ids, NEW t \in Ids, Server!Disable(i, t) \/ Server!Enable(i, t) \/ Server!DeleteUser(i, t)
        PROVE AccountsInv'
    BY <2>8, DisableKeeps, EnableKeeps, DeleteUserKeeps
  <2> QED
    BY <1>2, <2>1, <2>2, <2>3, <2>4, <2>5, <2>6, <2>7, <2>8 DEF Server!AccountStep
<1>3. CASE Server!ApplicationStep
  <2>1. ASSUME NEW i \in Ids, NEW a \in Apps, NEW access \in {"read", "read-write"},
               Server!RegisterApplication(i, a, access)
        PROVE AccountsInv'
    BY <2>1, RegisterApplicationKeeps
  <2>2. ASSUME NEW i \in Ids, NEW a \in Apps, Server!RevokeApplication(i, a) \/ Server!RemoveRecord(i, a)
        PROVE AccountsInv'
    <3>1. CASE Server!RevokeApplication(i, a)
      BY <3>1, RowChangedKeeps DEF Server!RevokeApplication, AccountsInv, Server!AccountsTypeOK
    <3>2. CASE Server!RemoveRecord(i, a)
      BY <3>2, RowChangedKeeps DEF Server!RemoveRecord, AccountsInv, Server!AccountsTypeOK
    <3> QED BY <2>2, <3>1, <3>2
  <2>3. ASSUME NEW i \in Ids, Server!RevokeAll(i) PROVE AccountsInv'
    BY <2>3, RevokeKeeps, ConnectionsKeep DEF Server!RevokeAll, AccountsInv,
       Server!AccountsTypeOK
  <2>4. ASSUME NEW a \in Apps, NEW how \in {"idle", "absolute"}, Server!ApplicationExpires(a, how)
        PROVE AccountsInv'
    <3>1. /\ UNCHANGED <<user, setup, posted, request>> /\ app[a].row
          /\ app' = [app EXCEPT ![a] = [app[a] EXCEPT !.expiry = how]]
      BY <2>4 DEF Server!ApplicationExpires, Server!Active
    <3>2. Server!AccountsTypeOK BY DEF AccountsInv
    <3> QED BY <3>1, <3>2, RowChangedKeeps DEF Server!AccountsTypeOK
  <2>5. ASSUME NEW a \in Apps, Server!RequestArrives(a) PROVE AccountsInv'
    BY <2>5, ConnectionsKeep DEF Server!RequestArrives, AccountsInv, Server!AccountsTypeOK
  <2>6. ASSUME NEW a \in Apps, NEW ok \in BOOLEAN, Server!RequestEnds(a, ok) PROVE AccountsInv'
    <3>1. Server!AccountsTypeOK BY DEF AccountsInv
    <3>2. UNCHANGED <<user, setup, posted>> /\ request' \subseteq Apps
      BY <2>6, <3>1 DEF Server!RequestEnds, Server!AccountsTypeOK
    <3>3. CASE app' = app
      BY <3>1, <3>2, <3>3, ConnectionsKeep DEF Server!AccountsTypeOK
    <3>4. CASE app[a].row /\ app' = [app EXCEPT ![a] = [app[a] EXCEPT !.expiry = "ahead"]]
      BY <3>2, <3>4, RowChangedKeeps
    <3> QED BY <2>6, <3>3, <3>4 DEF Server!RequestEnds
  <2> QED BY <1>3, <2>1, <2>2, <2>3, <2>4, <2>5, <2>6 DEF Server!ApplicationStep
<1>4. CASE Server!Cleanup
  BY <1>4, CleanupKeeps
<1> QED BY <1>1, <1>2, <1>3, <1>4 DEF Server!Next

LEMMA AccountsInvIsSafe == AccountsInv => Server!AccountsSafe
  BY DEF AccountsInv, Server!AccountsSafe, UnrevokedAreCurrent,
     Server!ApplicationsAreCurrent, Server!Active

(* A registration still on its way finds its row, so a revoked connection    *)
(* is not made again; nothing else takes its revocation back.                *)
LEMMA RevokedStays ==
  ASSUME Server!AccountBounds, AccountsInv, Server!Next, NEW a \in Apps, NEW p \in posted, p[2] = a,
         ~app[a].row \/ app[a].revoked
  PROVE  ~Server!Active(a)'
<1>1. app[a].row /\ app[a].revoked /\ app[a] \in Server!AppRows /\ Server!AccountsTypeOK
  BY AccountsRecords DEF AccountsInv, PostedAreRows, Server!AccountsTypeOK
<1> SUFFICES ~app'[a].row \/ app'[a].revoked
  BY DEF Server!Active
<1>2. ASSUME app'[a] = app[a] PROVE ~app'[a].row \/ app'[a].revoked
  BY <1>1, <1>2
<1>3. ASSUME NEW i, Server!RevokeApplicationConnections(i) PROVE app'[a].revoked
  <2>1. app'[a] = app[a] \/ app'[a] = [app[a] EXCEPT !.revoked = TRUE]
    BY <1>3 DEF Server!RevokeApplicationConnections
  <2> QED BY <1>1, <2>1, RowFields
<1>4. ASSUME NEW b \in Apps, NEW row, app' = [app EXCEPT ![b] = row], b # a
      PROVE app'[a] = app[a]
  BY <1>4, <1>1 DEF Server!AccountsTypeOK
<1>5. CASE Server!AccountStep
  <2>1. ASSUME NEW i \in Ids, NEW n \in Names, Server!Register(i, n) \/ Server!CreateSetup(i, n) \/ Server!ChangeUsername(i, n)
        PROVE app' = app
    BY <2>1 DEF Server!Register, Server!CreateSetup, Server!ChangeUsername
  <2>2. ASSUME NEW i \in Ids, NEW s \in setup, Server!Activate(i, s) \/ Server!DeleteSetup(i, s) PROVE app' = app
    BY <2>2 DEF Server!Activate, Server!DeleteSetup
  <2>3. ASSUME NEW s \in setup, Server!SetupExpires(s) PROVE app' = app
    BY <2>3 DEF Server!SetupExpires
  <2>4. ASSUME NEW i \in Ids, Server!ReplaceSecret(i) PROVE app'[a].revoked
    BY <2>4, <1>3 DEF Server!ReplaceSecret
  <2>5. ASSUME NEW i \in Ids, NEW t \in Ids, Server!Disable(i, t) PROVE app'[a].revoked
    BY <2>5, <1>3 DEF Server!Disable
  <2>6. ASSUME NEW i \in Ids, NEW t \in Ids, Server!Enable(i, t) PROVE app' = app
    BY <2>6 DEF Server!Enable
  <2>7. ASSUME NEW i \in Ids, NEW t \in Ids, Server!DeleteUser(i, t) PROVE app'[a] = app[a] \/ app'[a] = Server!NoApp
    BY <2>7 DEF Server!DeleteUser
  <2> QED
    BY <1>2, <1>5, <2>1, <2>2, <2>3, <2>4, <2>5, <2>6, <2>7,
       AccountsRecords DEF Server!AccountStep
<1>6. CASE Server!ApplicationStep
  <2>1. ASSUME NEW i \in Ids, NEW b \in Apps, NEW access \in {"read", "read-write"},
               Server!RegisterApplication(i, b, access)
        PROVE app'[a] = app[a]
    BY <2>1, <1>1, <1>4 DEF Server!RegisterApplication
  <2>2. ASSUME NEW i \in Ids, NEW b \in Apps, Server!RevokeApplication(i, b) \/ Server!RemoveRecord(i, b)
        PROVE app'[a].revoked
    <3>1. CASE b # a
      BY <2>2, <3>1, <1>1, <1>4 DEF Server!RevokeApplication, Server!RemoveRecord
    <3>2. CASE b = a
      BY <2>2, <3>2, <1>1, RowFields DEF Server!RevokeApplication, Server!RemoveRecord,
         Server!AccountsTypeOK
    <3> QED BY <3>1, <3>2
  <2>3. ASSUME NEW i \in Ids, Server!RevokeAll(i) PROVE app'[a].revoked
    BY <2>3, <1>3 DEF Server!RevokeAll
  <2>4. ASSUME NEW b \in Apps, NEW how \in {"idle", "absolute"}, Server!ApplicationExpires(b, how)
        PROVE app'[a] = app[a]
    BY <2>4, <1>1, <1>4 DEF Server!ApplicationExpires, Server!Active
  <2>5. ASSUME NEW b \in Apps, Server!RequestArrives(b) PROVE app' = app
    BY <2>5 DEF Server!RequestArrives
  <2>6. ASSUME NEW b \in Apps, NEW ok \in BOOLEAN, Server!RequestEnds(b, ok) PROVE app'[a] = app[a]
    BY <2>6, <1>1, <1>4 DEF Server!RequestEnds
  <2> QED BY <1>1, <1>2, <1>6, <2>1, <2>2, <2>3, <2>4, <2>5, <2>6 DEF Server!ApplicationStep
<1>7. CASE Server!Cleanup
  BY <1>7, <1>1, AccountsRecords DEF Server!Cleanup, Server!Active
<1> QED BY <1>5, <1>6, <1>7 DEF Server!Next

-----------------------------------------------------------------------------
(***************************************************************************)
(* BrowserAccounts: what is known of a change of account, step by step.    *)
(***************************************************************************)
(* The rows of the two tables. *)
Selections == [user : Users \cup {Browser!NoUser}, generation : Nat, closing : BOOLEAN]
TabRows(g) ==
    [alive : BOOLEAN, user : Users \cup {Browser!NoUser}, generation : 0..g, dirty : BOOLEAN,
     leaving : {"no", "save", "discard"}]
ChangeKinds == {"login", "choose", "lock", "logout", "distrust"}
ChangeSteps == {"close", "leave", "await", "rotate", "open", "forget", "clear"}
Actions ==
    [tab : Tabs, kind : ChangeKinds, user : Users, step : ChangeSteps, before : Selections]

BrowserRows ==
    /\ generation \in 0..MaxGenerations /\ crashes \in Nat
    /\ selection \in [user : Users \cup {Browser!NoUser}, generation : 0..generation, closing : BOOLEAN]
    /\ trusted \in SUBSET Users /\ forgotten \in SUBSET Users /\ stored \subseteq Users \X Tabs
    /\ tab \in [Tabs -> TabRows(generation)]
    /\ \A t \in Tabs : Browser!Working(t) => tab[t].alive
    /\ action = Browser!Idle \/ action \in Actions

(* Every workspace is of the selected account and of its present choice.   *)
WorkspacesAreSelected ==
    \A t \in Tabs :
      /\ Browser!Working(t) => /\ tab[t].generation = selection.generation
                       /\ tab[t].user = selection.user /\ tab[t].user \notin forgotten
      /\ tab[t].dirty \/ tab[t].leaving # "no" => Browser!Working(t)

NobodyWorks == \A t \in Tabs : ~Browser!Working(t)

(* What is so at each step of a change. *)
ClosingIsAChange ==
    selection.closing => action # Browser!Idle /\ action.step \in {"leave", "await", "rotate"}

ChangeIsUnderWay ==
    action # Browser!Idle =>
      /\ tab[action.tab].alive
      /\ action.step = "close" =>
           /\ generation + 2 <= MaxGenerations
           /\ action.kind = "logout" => selection.user = action.user
      /\ action.step \in {"leave", "await", "rotate"} =>
           /\ generation + 2 <= MaxGenerations
           /\ action.before.user = selection.user
           /\ action.before.generation = selection.generation
      /\ action.step \in {"rotate", "clear"} => NobodyWorks
      /\ action.step = "open" =>
           \/ action.user = selection.user
           \/ NobodyWorks /\ generation + 1 <= MaxGenerations
      /\ action.step = "open" /\ Browser!Working(action.tab) => tab[action.tab].user # action.user
      /\ action.step \in {"forget", "clear"} =>
           /\ generation + 1 <= MaxGenerations
           /\ \A t \in Tabs : Browser!Working(t) => tab[t].user # action.user
           /\ action.before.user = action.user => NobodyWorks

DiscardIsAsked ==
    \A t \in Tabs : tab[t].leaving = "discard" =>
      Browser!Holds(t, "leave") /\ action.kind = "logout" /\ action.user = tab[t].user

BrowserInv ==
    /\ BrowserRows /\ WorkspacesAreSelected /\ ClosingIsAChange /\ ChangeIsUnderWay
    /\ DiscardIsAsked /\ Browser!SignedOutLeavesNothing

LEMMA ActionRow ==
    ASSUME NEW a \in Actions
    PROVE  /\ a # Browser!Idle /\ a.tab \in Tabs /\ a.kind \in ChangeKinds /\ a.user \in Users
           /\ a.step \in ChangeSteps /\ a.before \in Selections
<1>1. a.kind # Browser!Idle.kind
  BY DEF Actions, Browser!Idle, ChangeKinds
<1> QED
  BY <1>1 DEF Actions

LEMMA TabRow ==
    ASSUME BrowserRows, NEW t \in Tabs
    PROVE  /\ tab[t] \in TabRows(generation) /\ tab[t].alive \in BOOLEAN
           /\ tab[t].user \in Users \cup {Browser!NoUser} /\ tab[t].generation \in 0..generation
           /\ tab[t].dirty \in BOOLEAN /\ tab[t].leaving \in {"no", "save", "discard"}
BY DEF BrowserRows, TabRows

LEMMA EmptyRow ==
    ASSUME NEW g \in Nat
    PROVE  /\ Browser!Absent \in TabRows(g) /\ Browser!Absent.user = Browser!NoUser /\ ~Browser!Absent.dirty
           /\ Browser!Absent.leaving = "no" /\ ~Browser!Absent.alive
           /\ Browser!Empty \in TabRows(g) /\ Browser!Empty.user = Browser!NoUser /\ ~Browser!Empty.dirty
           /\ Browser!Empty.leaving = "no" /\ Browser!Empty.alive
<1>1. Browser!Absent = [alive |-> FALSE, user |-> Browser!NoUser, generation |-> 0, dirty |-> FALSE, leaving |-> "no"]
  BY DEF Browser!Absent
<1>2. 0 \in 0..g /\ Browser!NoUser \in Users \cup {Browser!NoUser}
  OBVIOUS
<1>3. Browser!Absent \in TabRows(g) /\ ~Browser!Absent.alive
  BY <1>1, <1>2 DEF TabRows
<1>4. Browser!Empty \in TabRows(g) /\ Browser!Empty.alive
  BY <1>3 DEF TabRows, Browser!Empty
<1>5. /\ Browser!Absent.user = Browser!NoUser /\ ~Browser!Absent.dirty /\ Browser!Absent.leaving = "no"
      /\ Browser!Empty.user = Browser!NoUser /\ ~Browser!Empty.dirty /\ Browser!Empty.leaving = "no"
  BY <1>1 DEF Browser!Empty
<1> QED
  BY <1>3, <1>4, <1>5

(* A change goes on. *)
LEMMA Continues ==
    ASSUME action \in Actions, NEW step \in ChangeSteps, Browser!Continue(step)
    PROVE  /\ action' \in Actions /\ action'.tab = action.tab /\ action'.kind = action.kind
           /\ action'.user = action.user /\ action'.before = action.before
           /\ action'.step = step
<1>1. action' = [action EXCEPT !.step = step]
  BY DEF Browser!Continue, ChangeSteps
<1> QED
  BY <1>1 DEF Actions

LEMMA BrowserInitially == Browser!BrowserBounds /\ Browser!Init => BrowserInv
<1> SUFFICES ASSUME Browser!BrowserBounds, Browser!Init PROVE BrowserInv
  OBVIOUS
<1>1. /\ Browser!Absent \in TabRows(generation) /\ Browser!Absent.user = Browser!NoUser /\ ~Browser!Absent.dirty
      /\ Browser!Absent.leaving = "no"
  BY EmptyRow DEF Browser!Init
<1>2. tab \in [Tabs -> TabRows(generation)] /\ \A t \in Tabs : tab[t] = Browser!Absent
  BY <1>1 DEF Browser!Init
<1>3. BrowserRows
  BY <1>1, <1>2 DEF Browser!Init, Browser!BrowserBounds, BrowserRows, Browser!Working
<1>4. WorkspacesAreSelected /\ DiscardIsAsked
  BY <1>1, <1>2 DEF WorkspacesAreSelected, DiscardIsAsked, Browser!Working
<1> QED
  BY <1>3, <1>4 DEF Browser!Init, BrowserInv, ClosingIsAChange, ChangeIsUnderWay,
     Browser!SignedOutLeavesNothing

(* A change begins and moves nothing yet. *)
LEMMA BeginKeeps ==
    ASSUME Browser!BrowserBounds, BrowserInv, NEW t \in Tabs, NEW kind \in ChangeKinds, NEW u \in Users,
           NEW step \in {"close", "open", "forget"}, Browser!Begin(t, kind, u, step),
           UNCHANGED <<selection, generation, stored, forgotten, tab, crashes>>,
           trusted' \subseteq trusted,
           step = "close" /\ kind = "logout" => selection.user = u,
           step = "open" => selection.user = u /\ tab[t].user # u,
           step = "forget" => selection.user # u
    PROVE  BrowserInv'
<1> USE DEF BrowserInv
<1>1. /\ action' = [tab |-> t, kind |-> kind, user |-> u, step |-> step, before |-> selection]
      /\ selection \in Selections
  BY DEF Browser!Begin, BrowserRows, Selections
<1>2. action' \in Actions
  BY <1>1 DEF Actions, ChangeSteps
<1>3. ~selection.closing /\ generation + 2 <= MaxGenerations /\ tab[t].alive
  BY DEF Browser!Begin, ClosingIsAChange
<1>4. BrowserRows'
  BY <1>2 DEF BrowserRows, Browser!Working, TabRows, Actions, Selections
<1>5. WorkspacesAreSelected' /\ ClosingIsAChange'
  BY <1>3 DEF WorkspacesAreSelected, ClosingIsAChange, Browser!Working
<1>6. ChangeIsUnderWay'
  <2>1. generation + 1 <= MaxGenerations /\ generation' = generation
    BY <1>3 DEF BrowserRows, Browser!BrowserBounds
  <2>2. \A s \in Tabs : Browser!Working(s)' = Browser!Working(s) /\ (Browser!Working(s) => tab[s].user = selection.user)
    BY DEF Browser!Working, WorkspacesAreSelected
  <2> QED
    BY <1>1, <1>3, <2>1, <2>2 DEF ChangeIsUnderWay, NobodyWorks, Browser!Working
<1>7. DiscardIsAsked'
  BY DEF DiscardIsAsked, Browser!Holds, Browser!Begin
<1>8. Browser!SignedOutLeavesNothing'
  BY DEF Browser!SignedOutLeavesNothing
<1> QED
  BY <1>4, <1>5, <1>6, <1>7, <1>8

LEMMA BeginsKeep ==
    ASSUME Browser!BrowserBounds, BrowserInv, NEW t \in Tabs,
           \/ \E u \in Users : Browser!BeginLogin(t, u) \/ Browser!BeginChoose(t, u) \/ Browser!BeginLogout(t, u)
           \/ Browser!BeginLock(t) \/ Browser!BeginDistrust(t)
    PROVE  BrowserInv'
<1>1. ASSUME NEW u \in Users, Browser!BeginLogin(t, u) PROVE BrowserInv'
  BY <1>1, BeginKeeps DEF Browser!BeginLogin, ChangeKinds
<1>2. ASSUME NEW u \in Users, Browser!BeginChoose(t, u) PROVE BrowserInv'
  BY <1>2, BeginKeeps DEF Browser!BeginChoose, ChangeKinds
<1>3. ASSUME NEW u \in Users, Browser!BeginLogout(t, u) PROVE BrowserInv'
  BY <1>3, BeginKeeps DEF Browser!BeginLogout, ChangeKinds
<1>4. CASE Browser!BeginLock(t) \/ Browser!BeginDistrust(t)
  <2>1. tab[t].user \in Users
    BY <1>4, TabRow DEF Browser!BeginLock, Browser!BeginDistrust, Browser!Working, BrowserInv
  <2> QED
    BY <1>4, <2>1, BeginKeeps DEF Browser!BeginLock, Browser!BeginDistrust, ChangeKinds
<1> QED
  BY <1>1, <1>2, <1>3, <1>4

(* A tab starts: its change, if it makes one, is to open the account that  *)
(* is selected.                                                            *)
LEMMA StartKeeps ==
    ASSUME Browser!BrowserBounds, BrowserInv, NEW t \in Tabs, Browser!Start(t) PROVE BrowserInv'
<1> USE DEF BrowserInv
<1>1. ~selection.closing /\ UNCHANGED <<selection, generation, trusted, stored, forgotten, crashes>>
  BY DEF Browser!Start, ClosingIsAChange, Browser!Keep
<1>2. /\ Browser!Empty \in TabRows(generation) /\ Browser!Empty.user = Browser!NoUser /\ Browser!Empty.alive
      /\ ~Browser!Empty.dirty /\ Browser!Empty.leaving = "no"
  BY EmptyRow DEF BrowserRows, Browser!BrowserBounds
<1>3. /\ tab' \in [Tabs -> TabRows(generation)] /\ tab'[t] = Browser!Empty
      /\ \A s \in Tabs : s # t => tab'[s] = tab[s]
  BY <1>2 DEF Browser!Start, BrowserRows
<1>4. ~Browser!Working(t)' /\ \A s \in Tabs : s # t => Browser!Working(s)' = Browser!Working(s)
  BY <1>2, <1>3 DEF Browser!Working
<1>5. \/ action' = Browser!Idle
      \/ /\ action' \in Actions /\ action'.tab = t /\ action'.step = "open"
         /\ action'.user = selection.user
  <2> SUFFICES ASSUME selection.user \in trusted
               PROVE  /\ action' \in Actions /\ action'.tab = t /\ action'.step = "open"
                      /\ action'.user = selection.user
    BY DEF Browser!Start
  <2>1. action' = [tab |-> t, kind |-> "choose", user |-> selection.user, step |-> "open", before |-> selection]
    BY <1>1 DEF Browser!Start
  <2>2. selection \in Selections /\ selection.user \in Users
    BY DEF Selections, BrowserRows
  <2> QED
    BY <2>1, <2>2 DEF Actions, ChangeKinds, ChangeSteps
<1>6. BrowserRows'
  BY <1>1, <1>2, <1>3, <1>4, <1>5 DEF BrowserRows
<1>7. WorkspacesAreSelected'
  BY <1>1, <1>2, <1>3, <1>4 DEF WorkspacesAreSelected
<1>8. ClosingIsAChange'
  BY <1>1 DEF ClosingIsAChange
<1>9. ChangeIsUnderWay'
  BY <1>1, <1>2, <1>3, <1>4, <1>5 DEF ChangeIsUnderWay
<1>10. DiscardIsAsked'
  <2>1. action = Browser!Idle
    BY DEF Browser!Start
  <2> QED
    BY <1>2, <1>3, <2>1 DEF DiscardIsAsked, Browser!Holds
<1>11. Browser!SignedOutLeavesNothing'
  BY <1>1 DEF Browser!SignedOutLeavesNothing
<1> QED
  BY <1>6, <1>7, <1>8, <1>9, <1>10, <1>11

(* A step of a tab that keeps its workspace where it is, and that writes   *)
(* only for the account that is open.                                      *)
LEMMA OneTabKeeps ==
    ASSUME BrowserInv, NEW t \in Tabs, NEW row \in TabRows(generation),
           tab' = [tab EXCEPT ![t] = row],
           UNCHANGED <<selection, generation, trusted, forgotten, action, crashes>>,
           row.user = tab[t].user, row.generation = tab[t].generation,
           row.alive = tab[t].alive,
           row.dirty \/ row.leaving # "no" => Browser!Working(t),
           row.leaving = "discard" => tab[t].leaving = "discard",
           Browser!Working(t) \/ stored' = stored,
           stored' \subseteq stored \cup {<<tab[t].user, t>>}
    PROVE  BrowserInv'
<1> USE DEF BrowserInv
<1>1. /\ tab' \in [Tabs -> TabRows(generation)] /\ tab'[t] = row
      /\ \A s \in Tabs : s # t => tab'[s] = tab[s]
  BY DEF BrowserRows
<1>2. \A s \in Tabs : Browser!Working(s)' = Browser!Working(s) /\ tab'[s].alive = tab[s].alive
                      /\ tab'[s].user = tab[s].user /\ tab'[s].generation = tab[s].generation
  BY <1>1 DEF Browser!Working
<1>3. stored' \subseteq Users \X Tabs
  BY TabRow DEF BrowserRows, Browser!Working
<1>4. BrowserRows'
  BY <1>1, <1>2, <1>3 DEF BrowserRows
<1>5. WorkspacesAreSelected'
  <2> SUFFICES ASSUME NEW s \in Tabs
               PROVE  /\ Browser!Working(s)' => /\ tab'[s].generation = selection.generation
                                        /\ tab'[s].user = selection.user
                                        /\ tab'[s].user \notin forgotten
                      /\ tab'[s].dirty \/ tab'[s].leaving # "no" => Browser!Working(s)'
    BY DEF WorkspacesAreSelected
  <2> QED
    BY <1>1, <1>2 DEF WorkspacesAreSelected
<1>6. ClosingIsAChange'
  BY DEF ClosingIsAChange
<1>7. ChangeIsUnderWay'
  <2> SUFFICES ASSUME action # Browser!Idle PROVE ChangeIsUnderWay'
    BY DEF ChangeIsUnderWay
  <2>1. action.tab \in Tabs
    BY ActionRow DEF BrowserRows
  <2> QED
    BY <1>2, <2>1 DEF ChangeIsUnderWay, NobodyWorks
<1>8. DiscardIsAsked'
  BY <1>1, <1>2 DEF DiscardIsAsked, Browser!Holds
<1>9. Browser!SignedOutLeavesNothing'
  BY DEF Browser!SignedOutLeavesNothing, WorkspacesAreSelected
<1> QED
  BY <1>4, <1>5, <1>6, <1>7, <1>8, <1>9

(* Editing, saving and beginning to leave keep the workspace. *)
LEMMA TabStepsKeep ==
    ASSUME BrowserInv, NEW t \in Tabs, Browser!Check(t) \/ Browser!Edit(t) \/ Browser!Save(t)
    PROVE  BrowserInv'
<1> DEFINE row == tab'[t]
<1> USE DEF BrowserInv
<1>0. tab[t] \in TabRows(generation)
  BY TabRow
<1>1. CASE Browser!Check(t)
  <2>1. /\ tab' = [tab EXCEPT ![t] = row] /\ row = [tab[t] EXCEPT !.leaving = "save"]
    BY <1>1 DEF Browser!Check, Browser!Leave, BrowserRows
  <2>2. /\ row \in TabRows(generation) /\ row.user = tab[t].user
        /\ row.generation = tab[t].generation /\ row.alive = tab[t].alive /\ row.leaving = "save"
    BY <1>0, <2>1 DEF TabRows
  <2>3. Browser!Working(t) /\ UNCHANGED <<selection, generation, trusted, stored, forgotten, action, crashes>>
    BY <1>1 DEF Browser!Check
  <2> HIDE DEF row
  <2> QED
    BY <2>1, <2>2, <2>3, OneTabKeeps
<1>2. CASE Browser!Edit(t)
  <2>1. /\ tab' = [tab EXCEPT ![t] = row] /\ row = [tab[t] EXCEPT !.dirty = TRUE]
    BY <1>2 DEF Browser!Edit, BrowserRows
  <2>2. /\ row \in TabRows(generation) /\ row.user = tab[t].user
        /\ row.generation = tab[t].generation /\ row.alive = tab[t].alive
        /\ row.leaving = tab[t].leaving
    BY <1>0, <2>1 DEF TabRows
  <2>3. /\ Browser!Working(t) /\ UNCHANGED <<selection, generation, trusted, forgotten, action, crashes>>
        /\ stored' \subseteq stored
    BY <1>2 DEF Browser!Edit
  <2> HIDE DEF row
  <2> QED
    BY <2>1, <2>2, <2>3, OneTabKeeps
<1>3. CASE Browser!Save(t)
  <2>1. /\ tab' = [tab EXCEPT ![t] = row] /\ row = [tab[t] EXCEPT !.dirty = FALSE]
    BY <1>3 DEF Browser!Save, BrowserRows
  <2>2. /\ row \in TabRows(generation) /\ row.user = tab[t].user
        /\ row.generation = tab[t].generation /\ row.alive = tab[t].alive
        /\ row.leaving = tab[t].leaving
    BY <1>0, <2>1 DEF TabRows
  <2>3. /\ Browser!Working(t) /\ UNCHANGED <<selection, generation, trusted, forgotten, action, crashes>>
        /\ stored' \subseteq stored \cup {<<tab[t].user, t>>}
    BY <1>3 DEF Browser!Save, WorkspacesAreSelected
  <2> HIDE DEF row
  <2> QED
    BY <2>1, <2>2, <2>3, OneTabKeeps
<1> QED
  BY <1>1, <1>2, <1>3

LEMMA NothingIsDiscarded ==
    ASSUME BrowserInv, NEW t \in Tabs, ~Browser!Holds(t, "leave")
    PROVE  tab[t].leaving # "discard"
BY DEF BrowserInv, DiscardIsAsked

(* A change is taken back: what was selected is open again. *)
LEMMA TakenBack ==
    ASSUME Browser!BrowserBounds, BrowserInv, action # Browser!Idle, Browser!Abort,
           action.step \in {"leave", "await", "rotate"}
    PROVE  /\ selection' \in [user : Users \cup {Browser!NoUser}, generation : 0..generation, closing : BOOLEAN]
           /\ selection'.user = selection.user /\ selection'.generation = selection.generation
           /\ ~selection'.closing /\ action' = Browser!Idle
<1>1. /\ action.before \in Selections /\ action.before.user = selection.user
      /\ action.before.generation = selection.generation
  BY ActionRow DEF BrowserInv, BrowserRows, ChangeIsUnderWay
<1>2. selection' = [action.before EXCEPT !.closing = FALSE] /\ action' = Browser!Idle
  BY DEF Browser!Abort
<1>3. selection.user \in Users \cup {Browser!NoUser} /\ selection.generation \in 0..generation
  BY DEF BrowserInv, BrowserRows
<1> QED
  BY <1>1, <1>2, <1>3 DEF Selections

(* A change that ends without a step of a tab. *)
LEMMA EndKeeps ==
    ASSUME BrowserInv, action' = Browser!Idle, UNCHANGED <<generation, trusted, stored, forgotten, tab, crashes>>,
           selection' \in [user : Users \cup {Browser!NoUser}, generation : 0..generation, closing : BOOLEAN],
           selection'.user = selection.user, selection'.generation = selection.generation,
           ~selection'.closing, \A t \in Tabs : tab[t].leaving # "discard"
    PROVE  BrowserInv'
<1> USE DEF BrowserInv
<1>1. \A t \in Tabs : Browser!Working(t)' = Browser!Working(t)
  BY DEF Browser!Working
<1>2. BrowserRows'
  BY <1>1 DEF BrowserRows
<1>3. WorkspacesAreSelected'
  BY <1>1 DEF WorkspacesAreSelected
<1>4. ClosingIsAChange' /\ ChangeIsUnderWay' /\ DiscardIsAsked' /\ Browser!SignedOutLeavesNothing'
  BY DEF ClosingIsAChange, ChangeIsUnderWay, DiscardIsAsked, Browser!SignedOutLeavesNothing
<1> QED
  BY <1>2, <1>3, <1>4

LEMMA EndsKeep ==
    ASSUME Browser!BrowserBounds, BrowserInv, NEW t \in Tabs, Browser!OpenFails(t) \/ Browser!CloseTimesOut(t)
    PROVE  BrowserInv'
<1>1. \A s \in Tabs : tab[s].leaving # "discard"
  BY NothingIsDiscarded DEF Browser!OpenFails, Browser!CloseTimesOut, Browser!Holds
<1>2. CASE Browser!OpenFails(t)
  <2>1. ~selection.closing
    BY <1>2 DEF Browser!OpenFails, Browser!Holds, BrowserInv, ClosingIsAChange
  <2> QED
    BY <1>1, <1>2, <2>1, EndKeeps DEF Browser!OpenFails, BrowserInv, BrowserRows
<1>3. CASE Browser!CloseTimesOut(t)
  BY <1>1, <1>3, TakenBack, EndKeeps DEF Browser!CloseTimesOut, Browser!Holds
<1> QED
  BY <1>2, <1>3

(* A tab gives its workspace up, with or without a save: it is not of an   *)
(* account that was signed out.                                            *)
LEMMA EmptiedKeeps ==
    ASSUME Browser!BrowserBounds, BrowserInv, NEW t \in Tabs, NEW row \in {Browser!Empty, Browser!Absent},
           tab' = [tab EXCEPT ![t] = row],
           UNCHANGED <<selection, generation, trusted, forgotten, crashes>>,
           stored' \subseteq stored \cup {<<tab[t].user, t>>},
           Browser!Working(t) \/ stored' = stored,
           \/ UNCHANGED action /\ ~Browser!Holds(t, "leave")
              /\ (row = Browser!Absent => action = Browser!Idle \/ action.tab # t)
           \/ Browser!Holds(t, "leave") /\ Browser!Continue("await") /\ row = Browser!Empty
    PROVE  BrowserInv'
<1> USE DEF BrowserInv
<1>1. generation \in Nat
  BY DEF BrowserRows, Browser!BrowserBounds
<1>2. row \in TabRows(generation) /\ row.user = Browser!NoUser /\ ~row.dirty /\ row.leaving = "no"
  BY <1>1, EmptyRow
<1>3. /\ tab' \in [Tabs -> TabRows(generation)] /\ tab'[t] = row
      /\ \A s \in Tabs : s # t => tab'[s] = tab[s]
  BY <1>2 DEF BrowserRows
<1>4. ~Browser!Working(t)' /\ \A s \in Tabs : s # t => Browser!Working(s)' = Browser!Working(s)
  BY <1>2, <1>3 DEF Browser!Working
<1>5. stored' \subseteq Users \X Tabs
  BY TabRow DEF BrowserRows, Browser!Working
<1>6. \/ UNCHANGED action /\ ~Browser!Holds(t, "leave") /\ (row = Browser!Absent => action = Browser!Idle \/ action.tab # t)
      \/ /\ action \in Actions /\ action' \in Actions /\ action.step = "leave" /\ action'.step = "await"
         /\ action'.tab = t /\ action.tab = t /\ action'.before = action.before /\ row = Browser!Empty
  BY Continues DEF Browser!Holds, BrowserRows, ChangeSteps
<1>7. BrowserRows'
  BY <1>3, <1>4, <1>5, <1>6 DEF BrowserRows
<1>8. WorkspacesAreSelected'
  BY <1>2, <1>3, <1>4 DEF WorkspacesAreSelected
<1>9. ClosingIsAChange'
  BY <1>6, ActionRow DEF ClosingIsAChange
<1>10. ChangeIsUnderWay'
  <2>1. NobodyWorks => NobodyWorks'
    BY <1>4 DEF NobodyWorks
  <2>2. CASE UNCHANGED action /\ (row = Browser!Absent => action = Browser!Idle \/ action.tab # t)
    <3> SUFFICES ASSUME action # Browser!Idle PROVE ChangeIsUnderWay'
      BY <2>2 DEF ChangeIsUnderWay
    <3>1. action.tab \in Tabs /\ tab'[action.tab].alive
      BY <1>1, <1>3, <2>2, ActionRow, EmptyRow DEF BrowserRows, ChangeIsUnderWay
    <3>2. \A s \in Tabs : Browser!Working(s)' => Browser!Working(s) /\ tab'[s] = tab[s]
      BY <1>3, <1>4
    <3> QED
      BY <2>1, <2>2, <3>1, <3>2 DEF ChangeIsUnderWay
  <2>3. CASE /\ action \in Actions /\ action' \in Actions /\ action.step = "leave" /\ action'.step = "await"
             /\ action'.tab = t /\ action.tab = t /\ action'.before = action.before /\ row = Browser!Empty
    BY <1>1, <1>3, <2>3, ActionRow, EmptyRow DEF ChangeIsUnderWay
  <2> QED
    BY <1>6, <2>2, <2>3
<1>11. DiscardIsAsked'
  <2> SUFFICES ASSUME NEW s \in Tabs, tab'[s].leaving = "discard"
               PROVE  /\ Browser!Holds(s, "leave")' /\ action'.kind = "logout"
                      /\ action'.user = tab'[s].user
    BY DEF DiscardIsAsked
  <2>1. s # t /\ tab'[s] = tab[s]
    BY <1>2, <1>3
  <2>2. Browser!Holds(s, "leave") /\ action.kind = "logout" /\ action.user = tab[s].user
    BY <2>1 DEF DiscardIsAsked
  <2>3. UNCHANGED action
    BY <1>6, <2>1, <2>2 DEF Browser!Holds
  <2> QED
    BY <2>1, <2>2, <2>3 DEF Browser!Holds
<1>12. Browser!SignedOutLeavesNothing'
  BY DEF Browser!SignedOutLeavesNothing, WorkspacesAreSelected
<1> QED
  BY <1>7, <1>8, <1>9, <1>10, <1>11, <1>12

LEMMA LeavingKeeps ==
    ASSUME Browser!BrowserBounds, BrowserInv, NEW t \in Tabs, Browser!LeaveDone(t) \/ Browser!TabEnds(t)
    PROVE  BrowserInv'
<1>1. CASE Browser!LeaveDone(t)
  <2>1. Browser!Working(t)
    BY <1>1 DEF Browser!LeaveDone, BrowserInv, WorkspacesAreSelected
  <2>2. Browser!Empty # Browser!Absent
    BY EmptyRow DEF BrowserInv, BrowserRows, Browser!BrowserBounds
  <2>3. stored' \subseteq stored \cup {<<tab[t].user, t>>}
    BY <1>1 DEF Browser!LeaveDone
  <2>4. \/ UNCHANGED action /\ ~Browser!Holds(t, "leave")
        \/ Browser!Holds(t, "leave") /\ Browser!Continue("await")
    BY <1>1 DEF Browser!LeaveDone
  <2>5. /\ tab' = [tab EXCEPT ![t] = Browser!Empty]
        /\ UNCHANGED <<selection, generation, trusted, forgotten, crashes>>
    BY <1>1 DEF Browser!LeaveDone
  <2> QED
    BY <2>1, <2>2, <2>3, <2>4, <2>5, EmptiedKeeps
<1>2. CASE Browser!TabEnds(t)
  <2>1. action = Browser!Idle \/ action.tab # t
    BY <1>2 DEF Browser!TabEnds, BrowserInv, BrowserRows
  <2> QED
    BY <1>2, <2>1, EmptiedKeeps DEF Browser!TabEnds, Browser!Holds
<1> QED
  BY <1>1, <1>2

(* A save that fails takes the change back, if the change waited for it.   *)
LEMMA LeaveFailsKeeps ==
    ASSUME Browser!BrowserBounds, BrowserInv, NEW t \in Tabs, Browser!LeaveFails(t) PROVE BrowserInv'
<1> DEFINE row == [tab[t] EXCEPT !.leaving = "no"]
<1> USE DEF BrowserInv
<1>1. tab' = [tab EXCEPT ![t] = row]
  BY DEF Browser!LeaveFails, BrowserRows
<1>2. /\ row \in TabRows(generation) /\ row.user = tab[t].user /\ row.dirty = tab[t].dirty
      /\ row.generation = tab[t].generation /\ row.alive = tab[t].alive /\ row.leaving = "no"
  BY TabRow DEF TabRows
<1> HIDE DEF row
<1>3. CASE ~Browser!Holds(t, "leave")
  <2>1. UNCHANGED <<selection, generation, trusted, stored, forgotten, action, crashes>> /\ Browser!Working(t)
    BY <1>3 DEF Browser!LeaveFails, WorkspacesAreSelected
  <2> QED
    BY <1>1, <1>2, <2>1, OneTabKeeps
<1>4. CASE Browser!Holds(t, "leave")
  <2>1. /\ UNCHANGED <<generation, trusted, stored, forgotten, crashes>>
        /\ selection' \in [user : Users \cup {Browser!NoUser}, generation : 0..generation, closing : BOOLEAN]
        /\ selection'.user = selection.user /\ selection'.generation = selection.generation
        /\ ~selection'.closing /\ action' = Browser!Idle
    BY <1>4, TakenBack DEF Browser!LeaveFails, Browser!Holds
  <2>2. /\ tab' \in [Tabs -> TabRows(generation)] /\ tab'[t] = row
        /\ \A s \in Tabs : s # t => tab'[s] = tab[s]
    BY <1>1, <1>2 DEF BrowserRows
  <2>3. \A s \in Tabs : Browser!Working(s)' = Browser!Working(s) /\ tab'[s].alive = tab[s].alive
                        /\ tab'[s].user = tab[s].user /\ tab'[s].generation = tab[s].generation
                        /\ tab'[s].dirty = tab[s].dirty
    BY <1>2, <2>2 DEF Browser!Working
  <2>4. \A s \in Tabs : tab'[s].leaving = "no" \/ tab'[s].leaving = tab[s].leaving
    BY <1>2, <2>2
  <2>5. BrowserRows'
    BY <2>1, <2>2, <2>3 DEF BrowserRows
  <2>6. WorkspacesAreSelected'
    BY <2>1, <2>3, <2>4 DEF WorkspacesAreSelected
  <2>7. DiscardIsAsked'
    <3>1. \A s \in Tabs : s # t => tab[s].leaving # "discard"
      BY <1>4 DEF DiscardIsAsked, Browser!Holds
    <3>2. \A s \in Tabs : tab'[s].leaving # "discard"
      BY <1>2, <2>2, <3>1
    <3> QED
      BY <3>2 DEF DiscardIsAsked
  <2>8. ClosingIsAChange' /\ ChangeIsUnderWay' /\ Browser!SignedOutLeavesNothing'
    BY <2>1 DEF ClosingIsAChange, ChangeIsUnderWay, Browser!SignedOutLeavesNothing
  <2> QED
    BY <2>5, <2>6, <2>7, <2>8
<1> QED
  BY <1>3, <1>4

(* The change closes the workspaces, or finds none. *)
LEMMA CloseKeeps ==
    ASSUME Browser!BrowserBounds, BrowserInv, NEW t \in Tabs, Browser!CloseForChange(t) PROVE BrowserInv'
<1> USE DEF BrowserInv
<1>1. /\ action # Browser!Idle /\ action.tab = t /\ action.step = "close" /\ action \in Actions
      /\ generation + 2 <= MaxGenerations /\ ~selection.closing
      /\ action.kind = "logout" => selection.user = action.user
      /\ UNCHANGED <<generation, trusted, stored, forgotten, crashes>>
  BY DEF Browser!CloseForChange, Browser!Holds, BrowserRows, ChangeIsUnderWay, ClosingIsAChange
<1>2. action.user \in Users /\ action.kind \in ChangeKinds
  BY <1>1, ActionRow
<1>3. \A s \in Tabs : tab[s].leaving # "discard"
  BY <1>1, NothingIsDiscarded DEF Browser!Holds
<1>4. CASE selection.user = Browser!NoUser
  <2>1. NobodyWorks
    BY <1>4 DEF NobodyWorks, WorkspacesAreSelected, Browser!Working
  <2>2. action.kind # "logout"
    BY <1>1, <1>2, <1>4 DEF Browser!BrowserBounds
  <2>3. UNCHANGED <<selection, tab>>
    BY <1>4 DEF Browser!CloseForChange
  <2>4. CASE Browser!AfterClose(action.kind) = "end"
    <3>1. action' = Browser!Idle
      BY <1>4, <2>4 DEF Browser!CloseForChange, Browser!Continue
    <3> QED
      BY <1>1, <1>3, <2>3, <3>1, EndKeeps DEF BrowserRows
  <2>5. CASE Browser!AfterClose(action.kind) = "open"
    <3>1. Browser!Continue("open")
      BY <1>4, <2>5 DEF Browser!CloseForChange
    <3>2. action' \in Actions /\ action'.tab = t /\ action'.step = "open"
      BY <1>1, <3>1, Continues DEF ChangeSteps
    <3>3. NobodyWorks'
      BY <2>1, <2>3 DEF NobodyWorks, Browser!Working
    <3>4. BrowserRows' /\ WorkspacesAreSelected' /\ ClosingIsAChange'
      BY <1>1, <2>3, <3>2 DEF BrowserRows, WorkspacesAreSelected, ClosingIsAChange,
         Browser!Working
    <3>5. ChangeIsUnderWay'
      <4>1. tab'[action'.tab].alive /\ ~Browser!Working(t)'
        BY <1>1, <2>3, <3>2, <3>3 DEF ChangeIsUnderWay, NobodyWorks
      <4>2. generation + 1 <= MaxGenerations /\ generation' = generation
        BY <1>1 DEF BrowserRows, Browser!BrowserBounds
      <4> QED
        BY <3>2, <3>3, <4>1, <4>2 DEF ChangeIsUnderWay
    <3>6. DiscardIsAsked' /\ Browser!SignedOutLeavesNothing'
      BY <1>1, <1>3, <2>3 DEF DiscardIsAsked, Browser!SignedOutLeavesNothing
    <3> QED
      BY <3>4, <3>5, <3>6
  <2> QED
    BY <1>2, <2>2, <2>4, <2>5 DEF Browser!AfterClose, ChangeKinds
<1>5. CASE selection.user # Browser!NoUser
  <2>1. /\ selection' \in [user : Users \cup {Browser!NoUser}, generation : 0..generation, closing : BOOLEAN]
        /\ selection'.user = selection.user /\ selection'.generation = selection.generation
    BY <1>5 DEF Browser!CloseForChange, BrowserRows
  <2>2. selection \in Selections
    BY DEF Selections, BrowserRows, Browser!BrowserBounds
  <2>3. /\ action' \in Actions /\ action'.tab = t /\ action'.kind = action.kind
        /\ action'.user = action.user /\ action'.before = selection
        /\ action'.step = IF Browser!Working(t) THEN "leave" ELSE "await"
    <3>1. action' = [action EXCEPT !.before = selection, !.step = IF Browser!Working(t) THEN "leave" ELSE "await"]
      BY <1>5 DEF Browser!CloseForChange
    <3> QED
      BY <1>1, <2>2, <3>1 DEF Actions, ChangeSteps
  <2>4. action' # Browser!Idle
    BY <2>3, ActionRow
  <2>5. /\ tab' \in [Tabs -> TabRows(generation)]
        /\ \A s \in Tabs : s # t => tab'[s] = tab[s]
        /\ tab'[t].user = tab[t].user /\ tab'[t].generation = tab[t].generation
        /\ tab'[t].alive = tab[t].alive /\ tab'[t].dirty = tab[t].dirty
        /\ ~Browser!Working(t) => tab'[t].leaving = tab[t].leaving
        /\ tab'[t].leaving = "discard" => Browser!Working(t) /\ action.kind = "logout"
    <3>1. CASE ~Browser!Working(t)
      BY <1>3, <1>5, <3>1 DEF Browser!CloseForChange, BrowserRows
    <3>2. CASE Browser!Working(t)
      <4> DEFINE how == IF action.kind = "logout" THEN "discard" ELSE "save"
                 to == IF tab[t].leaving = "no" THEN how ELSE tab[t].leaving
                 row == [tab[t] EXCEPT !.leaving = to]
      <4>1. tab' = [tab EXCEPT ![t] = row]
        BY <1>5, <3>2 DEF Browser!CloseForChange, Browser!Leave, BrowserRows
      <4>2. to \in {"no", "save", "discard"} /\ (to = "discard" => action.kind = "logout")
        BY <1>3, TabRow
      <4> HIDE DEF to
      <4>3. /\ row \in TabRows(generation) /\ row.user = tab[t].user /\ row.generation = tab[t].generation
            /\ row.alive = tab[t].alive /\ row.dirty = tab[t].dirty /\ row.leaving = to
        BY <4>2, TabRow DEF TabRows
      <4> HIDE DEF row
      <4> QED
        BY <3>2, <4>1, <4>2, <4>3 DEF BrowserRows
    <3> QED
      BY <3>1, <3>2
  <2>6. \A s \in Tabs : Browser!Working(s)' = Browser!Working(s) /\ tab'[s].alive = tab[s].alive
                        /\ tab'[s].user = tab[s].user /\ tab'[s].generation = tab[s].generation
                        /\ tab'[s].dirty = tab[s].dirty
    BY <2>5 DEF Browser!Working
  <2>7. BrowserRows'
    BY <1>1, <2>1, <2>3, <2>5, <2>6 DEF BrowserRows
  <2>8. WorkspacesAreSelected'
    <3> SUFFICES ASSUME NEW s \in Tabs
                 PROVE  /\ Browser!Working(s)' => /\ tab'[s].generation = selection.generation
                                          /\ tab'[s].user = selection.user
                                          /\ tab'[s].user \notin forgotten
                        /\ tab'[s].dirty \/ tab'[s].leaving # "no" => Browser!Working(s)'
      BY <1>1, <2>1 DEF WorkspacesAreSelected
    <3> QED
      BY <2>5, <2>6 DEF WorkspacesAreSelected
  <2>9. ClosingIsAChange' /\ ChangeIsUnderWay'
    <3>1. tab'[action'.tab].alive
      BY <1>1, <2>3, <2>6 DEF ChangeIsUnderWay
    <3> QED
      BY <1>1, <2>1, <2>3, <2>4, <3>1 DEF ClosingIsAChange, ChangeIsUnderWay
  <2>10. DiscardIsAsked'
    <3> SUFFICES ASSUME NEW s \in Tabs, tab'[s].leaving = "discard"
                 PROVE  /\ Browser!Holds(s, "leave")' /\ action'.kind = "logout"
                        /\ action'.user = tab'[s].user
      BY DEF DiscardIsAsked
    <3>1. s = t /\ Browser!Working(t) /\ action.kind = "logout"
      BY <1>3, <2>5
    <3>2. tab[t].user = selection.user
      BY <3>1 DEF WorkspacesAreSelected
    <3> QED
      BY <1>1, <2>3, <2>4, <2>5, <3>1, <3>2 DEF Browser!Holds
  <2>11. Browser!SignedOutLeavesNothing'
    BY <1>1 DEF Browser!SignedOutLeavesNothing
  <2> QED
    BY <2>7, <2>8, <2>9, <2>10, <2>11
<1> QED
  BY <1>4, <1>5

(* The workspaces of the generation are closed, and no other is open. *)
LEMMA ClosedKeeps ==
    ASSUME Browser!BrowserBounds, BrowserInv, NEW t \in Tabs, Browser!ClosedEverywhere(t) PROVE BrowserInv'
<1> USE DEF BrowserInv
<1>1. /\ action # Browser!Idle /\ action.tab = t /\ action.step = "await" /\ action \in Actions
      /\ UNCHANGED <<selection, generation, trusted, stored, forgotten, tab, crashes>>
  BY DEF Browser!ClosedEverywhere, Browser!Holds, BrowserRows
<1>2. /\ action' \in Actions /\ action'.tab = t /\ action'.step = "rotate" /\ action'.before = action.before
      /\ action' # Browser!Idle
  BY <1>1, Continues, ActionRow DEF Browser!ClosedEverywhere, ChangeSteps
<1>3. NobodyWorks
  <2> SUFFICES ASSUME NEW s \in Tabs, Browser!Working(s) PROVE FALSE
    BY DEF NobodyWorks
  <2>1. tab[s].generation = action.before.generation
    BY <1>1 DEF ChangeIsUnderWay, WorkspacesAreSelected
  <2> QED
    BY <2>1 DEF Browser!ClosedEverywhere, Browser!StillOpen
<1>4. \A s \in Tabs : Browser!Working(s)' = Browser!Working(s)
  BY <1>1 DEF Browser!Working
<1>5. BrowserRows' /\ WorkspacesAreSelected'
  BY <1>1, <1>2, <1>4 DEF BrowserRows, WorkspacesAreSelected
<1>6. ClosingIsAChange' /\ ChangeIsUnderWay'
  BY <1>1, <1>2, <1>3, <1>4 DEF ClosingIsAChange, ChangeIsUnderWay, NobodyWorks
<1>7. DiscardIsAsked' /\ Browser!SignedOutLeavesNothing'
  BY <1>1, NothingIsDiscarded DEF DiscardIsAsked, Browser!SignedOutLeavesNothing, Browser!Holds
<1> QED
  BY <1>5, <1>6, <1>7

(* The generation is replaced when nobody works. *)
LEMMA RotateKeeps ==
    ASSUME Browser!BrowserBounds, BrowserInv, NEW t \in Tabs, Browser!Rotate(t) PROVE BrowserInv'
<1> USE DEF BrowserInv
<1>1. /\ action # Browser!Idle /\ action.tab = t /\ action.step = "rotate" /\ action \in Actions
      /\ generation + 2 <= MaxGenerations /\ NobodyWorks
      /\ action.before.user = selection.user
      /\ UNCHANGED <<trusted, stored, forgotten, tab, crashes>>
  BY DEF Browser!Rotate, Browser!Holds, BrowserRows, ChangeIsUnderWay
<1>2. /\ generation' = generation + 1 /\ generation \in Nat
      /\ generation' \in 0..MaxGenerations /\ generation' + 1 <= MaxGenerations
  BY <1>1 DEF Browser!Rotate, Browser!Select, BrowserRows, Browser!BrowserBounds
<1>3. /\ selection' \in [user : Users \cup {Browser!NoUser}, generation : 0..generation', closing : BOOLEAN]
      /\ selection'.user = action.before.user /\ ~selection'.closing
  <2>1. selection' = [user |-> action.before.user, generation |-> generation', closing |-> FALSE]
    BY <1>2 DEF Browser!Rotate, Browser!Select
  <2>2. action.before.user \in Users \cup {Browser!NoUser} /\ generation' \in 0..generation'
    BY <1>1, <1>2 DEF BrowserRows
  <2> QED
    BY <2>1, <2>2
<1>4. action.kind \in ChangeKinds /\ Browser!AfterClose(action.kind) \in {"open", "forget", "end"}
  BY <1>1, ActionRow DEF Browser!AfterClose
<1>5. \/ action' = Browser!Idle
      \/ /\ action' \in Actions /\ action' # Browser!Idle /\ action'.tab = t /\ action'.before = action.before
         /\ action'.user = action.user /\ action'.step \in {"open", "forget"}
  <2>1. Browser!Continue(Browser!AfterClose(action.kind))
    BY DEF Browser!Rotate
  <2>2. CASE Browser!AfterClose(action.kind) = "end"
    BY <2>1, <2>2 DEF Browser!Continue
  <2>3. CASE Browser!AfterClose(action.kind) \in {"open", "forget"}
    <3>1. Browser!AfterClose(action.kind) \in ChangeSteps
      BY <2>3 DEF ChangeSteps
    <3> QED
      BY <1>1, <2>1, <2>3, <3>1, Continues, ActionRow
  <2> QED
    BY <1>4, <2>2, <2>3
<1>6. NobodyWorks' /\ \A s \in Tabs : ~Browser!Working(s) /\ ~Browser!Working(s)'
  BY <1>1 DEF NobodyWorks, Browser!Working
<1>7. tab' \in [Tabs -> TabRows(generation')]
  <2>1. \A s \in Tabs : tab[s] \in TabRows(generation')
    BY <1>2, TabRow DEF TabRows
  <2> QED
    BY <1>1, <2>1 DEF BrowserRows
<1>8. BrowserRows'
  BY <1>1, <1>2, <1>3, <1>5, <1>6, <1>7 DEF BrowserRows
<1>9. WorkspacesAreSelected' /\ ClosingIsAChange'
  BY <1>1, <1>3, <1>6 DEF WorkspacesAreSelected, ClosingIsAChange
<1>10. ChangeIsUnderWay'
  <2> SUFFICES ASSUME action' # Browser!Idle PROVE ChangeIsUnderWay'
    BY DEF ChangeIsUnderWay
  <2>1. tab'[t].alive
    BY <1>1 DEF ChangeIsUnderWay
  <2> QED
    BY <1>2, <1>5, <1>6, <2>1 DEF ChangeIsUnderWay
<1>11. DiscardIsAsked' /\ Browser!SignedOutLeavesNothing'
  BY <1>1, NothingIsDiscarded DEF DiscardIsAsked, Browser!SignedOutLeavesNothing, Browser!Holds
<1> QED
  BY <1>8, <1>9, <1>10, <1>11

(* A workspace opens: of the selected account, beside others of it, or     *)
(* alone.                                                                  *)
LEMMA MountKeeps ==
    ASSUME Browser!BrowserBounds, BrowserInv, NEW t \in Tabs, Browser!Mount(t) PROVE BrowserInv'
<1> DEFINE row == [Browser!Empty EXCEPT !.user = action.user, !.generation = selection'.generation]
<1> USE DEF BrowserInv
<1>1. /\ action # Browser!Idle /\ action.tab = t /\ action.step = "open" /\ action \in Actions
      /\ ~selection.closing /\ action' = Browser!Idle /\ UNCHANGED <<stored, crashes>>
      /\ trusted' = trusted \cup {action.user} /\ forgotten' = forgotten \ {action.user}
      /\ tab' = [tab EXCEPT ![t] = row]
      /\ \/ action.user = selection.user
         \/ NobodyWorks /\ generation + 1 <= MaxGenerations
  BY DEF Browser!Mount, Browser!Holds, BrowserRows, ChangeIsUnderWay, ClosingIsAChange
<1>2. action.user \in Users
  BY <1>1, ActionRow
<1>3. /\ generation' \in 0..MaxGenerations /\ generation <= generation'
      /\ selection' \in [user : Users \cup {Browser!NoUser}, generation : 0..generation', closing : BOOLEAN]
      /\ selection'.user = action.user /\ ~selection'.closing
      /\ \/ UNCHANGED <<selection, generation>> /\ action.user = selection.user
         \/ NobodyWorks
  <2>1. CASE action.user = selection.user
    BY <1>1, <2>1 DEF Browser!Mount, Browser!Keep, BrowserRows, Browser!BrowserBounds
  <2>2. CASE action.user # selection.user
    <3>1. selection' = [user |-> action.user, generation |-> generation + 1, closing |-> FALSE]
          /\ generation' = generation + 1 /\ NobodyWorks
      BY <1>1, <2>2 DEF Browser!Mount, Browser!Select
    <3>2. generation' \in 0..MaxGenerations /\ generation <= generation' /\ generation' \in 0..generation'
      BY <1>1, <2>2, <3>1 DEF BrowserRows, Browser!BrowserBounds
    <3> QED
      BY <1>2, <3>1, <3>2
  <2> QED
    BY <2>1, <2>2
<1>4. /\ row \in TabRows(generation') /\ row.user = action.user /\ row.alive
      /\ row.generation = selection'.generation /\ ~row.dirty /\ row.leaving = "no"
  <2>1. generation' \in Nat /\ selection'.generation \in 0..generation'
    BY <1>3 DEF Browser!BrowserBounds
  <2> QED
    BY <1>2, <2>1, EmptyRow DEF TabRows
<1> HIDE DEF row
<1>5. /\ tab' \in [Tabs -> TabRows(generation')] /\ tab'[t] = row
      /\ \A s \in Tabs : s # t => tab'[s] = tab[s]
  <2>1. \A s \in Tabs : tab[s] \in TabRows(generation')
    BY <1>3, TabRow DEF TabRows, BrowserRows, Browser!BrowserBounds
  <2> QED
    BY <1>1, <1>4, <2>1 DEF BrowserRows
<1>6. Browser!Working(t)' /\ \A s \in Tabs : s # t => Browser!Working(s)' = Browser!Working(s)
  BY <1>2, <1>4, <1>5 DEF Browser!Working, Browser!BrowserBounds
<1>7. BrowserRows'
  BY <1>1, <1>2, <1>3, <1>4, <1>5, <1>6 DEF BrowserRows
<1>8. WorkspacesAreSelected'
  <2> SUFFICES ASSUME NEW s \in Tabs
               PROVE  /\ Browser!Working(s)' => /\ tab'[s].generation = selection'.generation
                                        /\ tab'[s].user = selection'.user
                                        /\ tab'[s].user \notin forgotten'
                      /\ tab'[s].dirty \/ tab'[s].leaving # "no" => Browser!Working(s)'
    BY DEF WorkspacesAreSelected
  <2>1. CASE s = t
    BY <1>1, <1>3, <1>4, <1>5, <1>6, <2>1
  <2>2. CASE s # t
    BY <1>1, <1>3, <1>5, <1>6, <2>2 DEF WorkspacesAreSelected, NobodyWorks
  <2> QED
    BY <2>1, <2>2
<1>9. ClosingIsAChange' /\ ChangeIsUnderWay'
  BY <1>1, <1>3 DEF ClosingIsAChange, ChangeIsUnderWay
<1>10. DiscardIsAsked'
  <2>1. \A s \in Tabs : tab[s].leaving # "discard"
    BY <1>1, NothingIsDiscarded DEF Browser!Holds
  <2>2. \A s \in Tabs : tab'[s].leaving # "discard"
    BY <1>4, <1>5, <2>1
  <2> QED
    BY <2>2 DEF DiscardIsAsked
<1>11. Browser!SignedOutLeavesNothing'
  BY <1>1 DEF Browser!SignedOutLeavesNothing
<1> QED
  BY <1>7, <1>8, <1>9, <1>10, <1>11

(* The data of the account is deleted; what is open is of another.         *)
LEMMA ForgetKeeps ==
    ASSUME Browser!BrowserBounds, BrowserInv, NEW t \in Tabs, Browser!Forget(t) PROVE BrowserInv'
<1> USE DEF BrowserInv
<1>1. /\ action # Browser!Idle /\ action.tab = t /\ action.step = "forget" /\ action \in Actions
      /\ generation + 1 <= MaxGenerations /\ ~selection.closing
      /\ \A s \in Tabs : Browser!Working(s) => tab[s].user # action.user
      /\ action.before.user = action.user => NobodyWorks
      /\ UNCHANGED <<selection, generation, tab, crashes>>
  BY DEF Browser!Forget, Browser!Holds, BrowserRows, ChangeIsUnderWay, ClosingIsAChange
<1>2. /\ trusted' = trusted \ {action.user} /\ stored' = stored \ ({action.user} \X Tabs)
      /\ forgotten' = forgotten \cup {action.user} /\ action.user \in Users
  BY <1>1, ActionRow DEF Browser!Forget
<1>3. \/ action' = Browser!Idle
      \/ /\ action' \in Actions /\ action' # Browser!Idle /\ action'.tab = t /\ action'.before = action.before
         /\ action'.user = action.user /\ action'.step = "clear" /\ action.before.user = action.user
  <2>1. CASE action.before.user = action.user
    <3>1. Browser!Continue("clear")
      BY <2>1 DEF Browser!Forget
    <3> QED
      BY <1>1, <2>1, <3>1, Continues, ActionRow DEF ChangeSteps
  <2>2. CASE action.before.user # action.user
    BY <2>2 DEF Browser!Forget, Browser!Continue
  <2> QED
    BY <2>1, <2>2
<1>4. \A s \in Tabs : Browser!Working(s)' = Browser!Working(s)
  BY <1>1 DEF Browser!Working
<1>5. BrowserRows'
  BY <1>1, <1>2, <1>3, <1>4 DEF BrowserRows
<1>6. WorkspacesAreSelected'
  BY <1>1, <1>2, <1>4 DEF WorkspacesAreSelected
<1>7. ClosingIsAChange'
  BY <1>1 DEF ClosingIsAChange
<1>8. ChangeIsUnderWay'
  <2> SUFFICES ASSUME action' # Browser!Idle PROVE ChangeIsUnderWay'
    BY DEF ChangeIsUnderWay
  <2>1. tab'[t].alive
    BY <1>1 DEF ChangeIsUnderWay
  <2> QED
    BY <1>1, <1>3, <1>4, <2>1 DEF ChangeIsUnderWay, NobodyWorks
<1>9. DiscardIsAsked'
  BY <1>1, NothingIsDiscarded DEF DiscardIsAsked, Browser!Holds
<1>10. Browser!SignedOutLeavesNothing'
  BY <1>2 DEF Browser!SignedOutLeavesNothing
<1> QED
  BY <1>5, <1>6, <1>7, <1>8, <1>9, <1>10

(* Nobody is selected any more. *)
LEMMA ClearKeeps ==
    ASSUME Browser!BrowserBounds, BrowserInv, NEW t \in Tabs, Browser!Clear(t) PROVE BrowserInv'
<1> USE DEF BrowserInv
<1>1. /\ NobodyWorks /\ generation + 1 <= MaxGenerations /\ action' = Browser!Idle
      /\ UNCHANGED <<trusted, stored, forgotten, tab, crashes>>
      /\ generation' = generation + 1
      /\ selection' = [user |-> Browser!NoUser, generation |-> generation + 1, closing |-> FALSE]
  BY DEF Browser!Clear, Browser!Select, Browser!Holds, ChangeIsUnderWay
<1>2. generation' \in 0..MaxGenerations /\ generation <= generation' /\ generation' \in 0..generation'
  BY <1>1 DEF BrowserRows, Browser!BrowserBounds
<1>3. tab' \in [Tabs -> TabRows(generation')]
  <2>1. \A s \in Tabs : tab[s] \in TabRows(generation')
    BY <1>1, <1>2, TabRow DEF TabRows, BrowserRows, Browser!BrowserBounds
  <2> QED
    BY <1>1, <2>1 DEF BrowserRows
<1>4. \A s \in Tabs : ~Browser!Working(s) /\ ~Browser!Working(s)'
  BY <1>1 DEF NobodyWorks, Browser!Working
<1>5. BrowserRows'
  BY <1>1, <1>2, <1>3, <1>4 DEF BrowserRows
<1>6. WorkspacesAreSelected' /\ ClosingIsAChange' /\ ChangeIsUnderWay'
  BY <1>1, <1>4 DEF WorkspacesAreSelected, ClosingIsAChange, ChangeIsUnderWay
<1>7. \A s \in Tabs : tab[s].leaving # "discard"
  BY NothingIsDiscarded DEF Browser!Clear, Browser!Holds
<1>8. DiscardIsAsked' /\ Browser!SignedOutLeavesNothing'
  BY <1>1, <1>7 DEF DiscardIsAsked, Browser!SignedOutLeavesNothing
<1> QED
  BY <1>5, <1>6, <1>8

LEMMA BrowserIdle == ASSUME BrowserInv, UNCHANGED Browser!vars PROVE BrowserInv'
BY DEF Browser!vars, BrowserInv, BrowserRows, WorkspacesAreSelected, ClosingIsAChange,
   ChangeIsUnderWay,
   DiscardIsAsked, Browser!SignedOutLeavesNothing, NobodyWorks, Browser!Working, Browser!Holds

LEMMA BrowserInductive == Browser!BrowserBounds /\ BrowserInv /\ [Browser!Next]_Browser!vars => BrowserInv'
<1> SUFFICES ASSUME Browser!BrowserBounds, BrowserInv, [Browser!Next]_Browser!vars PROVE BrowserInv'
  OBVIOUS
<1>1. ASSUME NEW t \in Tabs, Browser!Start(t) \/ Browser!BeginLock(t) \/ Browser!BeginDistrust(t) PROVE BrowserInv'
  BY <1>1, StartKeeps, BeginsKeep
<1>2. ASSUME NEW t \in Tabs, NEW u \in Users,
             Browser!BeginLogin(t, u) \/ Browser!BeginChoose(t, u) \/ Browser!BeginLogout(t, u)
      PROVE  BrowserInv'
  BY <1>2, BeginsKeep
<1>3. ASSUME NEW t \in Tabs, Browser!ChangeStep(t) PROVE BrowserInv'
  BY <1>3, CloseKeeps, ClosedKeeps, EndsKeep, RotateKeeps, MountKeeps, ForgetKeeps, ClearKeeps
     DEF Browser!ChangeStep
<1>4. ASSUME NEW t \in Tabs, Browser!LeaveDone(t) \/ Browser!LeaveFails(t) \/ Browser!TabEnds(t) PROVE BrowserInv'
  BY <1>4, LeavingKeeps, LeaveFailsKeeps
<1>5. ASSUME NEW t \in Tabs, Browser!Check(t) \/ Browser!Edit(t) \/ Browser!Save(t) PROVE BrowserInv'
  BY <1>5, TabStepsKeep
<1>6. CASE UNCHANGED Browser!vars
  BY <1>6, BrowserIdle
<1> QED
  BY <1>1, <1>2, <1>3, <1>4, <1>5, <1>6 DEF Browser!Next

LEMMA BrowserInvIsSafe == BrowserInv => Browser!BrowserSafe
<1> SUFFICES ASSUME BrowserInv PROVE Browser!BrowserSafe
  OBVIOUS
<1>1. Browser!BrowserTypeOK
  <2>1. action # Browser!Idle => tab[action.tab].alive
    BY DEF BrowserInv, ChangeIsUnderWay
  <2> QED
    BY <2>1 DEF BrowserInv, BrowserRows, Browser!BrowserTypeOK, TabRows
<1>2. Browser!OneAccountOpen
  BY DEF Browser!OneAccountOpen, BrowserInv, WorkspacesAreSelected
<1> QED
  BY <1>1, <1>2 DEF Browser!BrowserSafe, BrowserInv

(* Work that is no longer unsaved was saved, discarded on request or went  *)
(* with its tab.                                                           *)
LEMMA UnsavedKept ==
    ASSUME Browser!BrowserBounds, BrowserInv, [Browser!Next]_Browser!vars, NEW t \in Tabs, tab[t].dirty, ~tab'[t].dirty
    PROVE  \/ ~tab'[t].alive
           \/ <<tab[t].user, t>> \in stored'
           \/ tab[t].leaving = "discard" /\ action.kind = "logout" /\ action.user = tab[t].user
<1> DEFINE Goal == \/ ~tab'[t].alive
                   \/ <<tab[t].user, t>> \in stored'
                   \/ tab[t].leaving = "discard" /\ action.kind = "logout" /\ action.user = tab[t].user
<1>0. /\ tab \in [Tabs -> TabRows(generation)] /\ Browser!Working(t) /\ tab[t].alive
      /\ tab[t].leaving \in {"no", "save", "discard"}
  BY TabRow DEF BrowserInv, BrowserRows, WorkspacesAreSelected
<1>1. tab' # tab
  OBVIOUS
<1>2. ASSUME NEW s \in Tabs, Browser!LeaveDone(s) PROVE Goal
  <2>1. s = t
    BY <1>0, <1>2 DEF Browser!LeaveDone
  <2>2. CASE tab[t].leaving = "save"
    BY <1>2, <2>1, <2>2 DEF Browser!LeaveDone
  <2>3. CASE tab[t].leaving = "discard"
    BY <2>3 DEF BrowserInv, DiscardIsAsked
  <2> QED
    BY <1>0, <1>2, <2>1, <2>2, <2>3 DEF Browser!LeaveDone
<1>3. ASSUME NEW s \in Tabs, Browser!Save(s) PROVE Goal
  <2>1. s = t
    BY <1>0, <1>3 DEF Browser!Save
  <2> QED
    BY <1>3, <2>1 DEF Browser!Save
<1>4. ASSUME NEW s \in Tabs, Browser!TabEnds(s) PROVE Goal
  <2>1. s = t
    BY <1>0, <1>4 DEF Browser!TabEnds
  <2>2. tab'[t] = Browser!Absent
    BY <1>0, <1>4, <2>1 DEF Browser!TabEnds
  <2>3. ~Browser!Absent.alive
    BY EmptyRow DEF BrowserInv, BrowserRows, Browser!BrowserBounds
  <2> QED
    BY <2>2, <2>3
<1>5. ASSUME NEW s \in Tabs, Browser!Start(s) PROVE FALSE
  BY <1>0, <1>5 DEF Browser!Start
<1>6. ASSUME NEW s \in Tabs, Browser!Check(s) \/ Browser!Edit(s) \/ Browser!LeaveFails(s) PROVE FALSE
  <2>1. s = t
    BY <1>0, <1>6 DEF Browser!Check, Browser!Edit, Browser!LeaveFails, Browser!Leave
  <2>2. CASE Browser!Check(t)
    BY <1>0, <2>2 DEF Browser!Check, Browser!Leave, TabRows
  <2>3. CASE Browser!Edit(t)
    BY <1>0, <2>3 DEF Browser!Edit
  <2>4. CASE Browser!LeaveFails(t)
    BY <1>0, <2>4 DEF Browser!LeaveFails, TabRows
  <2> QED
    BY <1>6, <2>1, <2>2, <2>3, <2>4
<1>7. ASSUME NEW s \in Tabs, Browser!CloseForChange(s) PROVE FALSE
  <2> DEFINE how == IF action.kind = "logout" THEN "discard" ELSE "save"
  <2>1. Browser!Leave(s, how)
    BY <1>1, <1>7 DEF Browser!CloseForChange
  <2> HIDE DEF how
  <2>2. s = t
    BY <1>0, <2>1 DEF Browser!Leave
  <2> QED
    BY <1>0, <2>1, <2>2 DEF Browser!Leave, TabRows
<1>8. ASSUME NEW s \in Tabs, Browser!Mount(s) PROVE FALSE
  <2>1. s = t
    BY <1>0, <1>8 DEF Browser!Mount
  <2>2. action # Browser!Idle /\ action.tab = t /\ action.step = "open"
    BY <1>8, <2>1 DEF Browser!Mount, Browser!Holds
  <2>3. tab[t].user # action.user /\ tab[t].user = selection.user
    BY <1>0, <2>2 DEF BrowserInv, ChangeIsUnderWay, WorkspacesAreSelected
  <2> QED
    BY <1>0, <2>2, <2>3 DEF BrowserInv, ChangeIsUnderWay, NobodyWorks
<1>9. ASSUME NEW s \in Tabs,
             \/ Browser!ClosedEverywhere(s) \/ Browser!CloseTimesOut(s) \/ Browser!Rotate(s) \/ Browser!OpenFails(s)
             \/ Browser!Forget(s) \/ Browser!Clear(s) \/ Browser!BeginLock(s) \/ Browser!BeginDistrust(s)
             \/ \E u \in Users : Browser!BeginLogin(s, u) \/ Browser!BeginChoose(s, u) \/ Browser!BeginLogout(s, u)
      PROVE  FALSE
  BY <1>1, <1>9 DEF Browser!ClosedEverywhere, Browser!CloseTimesOut, Browser!Rotate,
     Browser!OpenFails, Browser!Forget, Browser!Clear,
     Browser!BeginLock, Browser!BeginDistrust, Browser!BeginLogin, Browser!BeginChoose, Browser!BeginLogout
<1>10. CASE UNCHANGED Browser!vars
  BY <1>1, <1>10 DEF Browser!vars
<1> QED
  BY <1>2, <1>3, <1>4, <1>5, <1>6, <1>7, <1>8, <1>9, <1>10 DEF Browser!Next, Browser!ChangeStep

-----------------------------------------------------------------------------
(***************************************************************************)
(* DeviceTrust: what browser and server know of each other.                *)
(***************************************************************************)
TrustRows == [kind : {"none", "device", "pin"}, failed : 0..MaxTries - 1]
EditOps == {"none", "set PIN", "remove PIN", "settings", "unlock"}
(* What is known of the grants.  A grant that is enrolled or confirmed was *)
(* accepted, and nobody but this browser enrols one.                       *)
TrustNumbers ==
    /\ grants \in 0..MaxGrants /\ signIns \in 0..MaxSignIns /\ edits \in Nat
    /\ edit \in [Editors -> [op : EditOps, seen : TrustRows]]
    /\ signIn \in {"no", "remember", "clear", "enroll", "put", "confirm"}

GrantsKnown ==
    /\ Trust!GrantsCountedOnWereAccepted
    /\ trustEndpoint.grant # Trust!Nothing => trustEndpoint.grant \in accepted
    /\ trustGrant.pending \/ signIn = "put" => trustGrant.id # Trust!Nothing
    /\ signIn = "confirm" =>
         trustGrant.id # Trust!Nothing /\ trustGrant.id \in accepted /\ trustEndpoint.grant \in {trustGrant.id, Trust!Nothing}
    /\ online # Trust!Nothing =>
         trustGrant.id # Trust!Nothing /\ trustEndpoint.grant \in {trustGrant.id, Trust!Nothing} /\ signIn = "no"

(* While a revocation waits the browser has neither a grant nor a session, *)
(* and the server none of a later sign-in.                                 *)
WaitingRevocation ==
    revocation # Trust!NoTask =>
      /\ trustGrant = Trust!NoGrant /\ online = Trust!Nothing /\ signIn \in {"no", "remember", "clear"}
      /\ revocation.session # Trust!Nothing => trustEndpoint.grant \in {revocation.grant, Trust!Nothing}

(* No task names the grant in use or a session to come. *)
TasksArePast ==
    \A task \in sent \cup answered \cup {revocation} :
      /\ task.grant \in 0..grants /\ task.session \in 0..signIns
      /\ task.grant # Trust!Nothing => task.grant # trustGrant.id

AnsweredHaveEnded == revocation # Trust!NoTask /\ revocation \in answered => Trust!Ended(revocation)

TrustInv ==
    /\ Trust!TrustTypeOK /\ TrustNumbers /\ GrantsKnown /\ WaitingRevocation /\ TasksArePast
    /\ AnsweredHaveEnded

LEMMA TrustInitially == Trust!TrustBounds /\ Trust!Init => TrustInv
BY DEF Trust!TrustBounds, Trust!Init, TrustInv, Trust!TrustTypeOK, TrustNumbers, GrantsKnown,
   Trust!GrantsCountedOnWereAccepted,
   WaitingRevocation, TasksArePast, AnsweredHaveEnded, Trust!Nothing, Trust!NoTrust, Trust!NoGrant, Trust!NoTask, Trust!NoEdit,
   Trust!Tasks, TrustRows, EditOps

(* A sign-in with the master password: the session is a new one. *)
LEMMA LoginKeeps == ASSUME Trust!TrustBounds, TrustInv, Trust!Login PROVE TrustInv'
<1> USE DEF Trust!TrustBounds, TrustInv, Trust!Login, Trust!Nothing, Trust!NoTask
<1> USE DEF Trust!updates, Trust!server, Trust!local
<1>0. trustEndpoint'.revoked = FALSE /\ trustEndpoint'.grant \in {trustEndpoint.grant, Trust!Nothing}
  OBVIOUS
<1>1. Trust!TrustTypeOK'
  <2>1. trustEndpoint' \in [grant : 0..grants', revoked : BOOLEAN]
    BY DEF Trust!TrustTypeOK, TrustNumbers
  <2>2. {online, live}' \subseteq 0..signIns'
    BY DEF TrustNumbers
  <2> QED
    BY <1>0, <2>1, <2>2 DEF Trust!TrustTypeOK, Trust!Tasks
<1>2. TrustNumbers'
  BY DEF TrustNumbers
<1>3. GrantsKnown'
  BY <1>0 DEF GrantsKnown, Trust!GrantsCountedOnWereAccepted
<1>4. WaitingRevocation'
  BY <1>0 DEF WaitingRevocation
<1>5. TasksArePast'
  BY DEF TasksArePast, TrustNumbers
<1>6. AnsweredHaveEnded'
  <2> SUFFICES ASSUME revocation # Trust!NoTask, revocation \in answered PROVE Trust!Ended(revocation)'
    BY DEF AnsweredHaveEnded
  <2>1. ~Trust!Resumable(revocation.grant) /\ revocation.session \in 0..signIns
    BY DEF AnsweredHaveEnded, Trust!Ended, TasksArePast
  <2>2. ~Trust!Resumable(revocation.grant)'
    BY <2>1 DEF Trust!Resumable
  <2>3. live' = signIns + 1 /\ revocation.session # signIns + 1
    BY <2>1 DEF TrustNumbers
  <2> QED
    BY <2>2, <2>3 DEF Trust!Ended
<1> QED
  BY <1>1, <1>2, <1>3, <1>4, <1>5, <1>6

(* The server takes the grant: no revocation waits, and it is the only one *)
(* the browser counts on.                                                  *)
LEMMA EnrollKeeps == ASSUME Trust!TrustBounds, TrustInv, Trust!Enroll PROVE TrustInv'
<1> USE DEF Trust!TrustBounds, TrustInv, Trust!Enroll, Trust!Nothing
<1> USE DEF Trust!updates, Trust!server
<1>0. trustEndpoint'.revoked = trustEndpoint.revoked /\ trustEndpoint'.grant = trustGrant.id
  BY DEF Trust!TrustTypeOK
<1>1. revocation = Trust!NoTask /\ online = Trust!Nothing
  BY DEF WaitingRevocation, GrantsKnown
<1>2. Trust!TrustTypeOK'
  BY <1>0 DEF Trust!TrustTypeOK, Trust!Tasks
<1>3. TrustNumbers'
  BY DEF TrustNumbers
<1>4. GrantsKnown'
  BY <1>0, <1>1 DEF GrantsKnown, Trust!GrantsCountedOnWereAccepted
<1>5. WaitingRevocation' /\ AnsweredHaveEnded'
  BY <1>1 DEF WaitingRevocation, AnsweredHaveEnded
<1>6. TasksArePast'
  BY DEF TasksArePast
<1> QED
  BY <1>2, <1>3, <1>4, <1>5, <1>6

(* A grant that is sealed is a new one or an unconfirmed one; no task has  *)
(* it.                                                                     *)
LEMMA SealGrantKeeps == ASSUME Trust!TrustBounds, TrustInv, Trust!SealGrant PROVE TrustInv'
<1> USE DEF Trust!TrustBounds, TrustInv, Trust!SealGrant, Trust!Nothing
<1> USE DEF Trust!updates, Trust!server
<1>1. revocation = Trust!NoTask /\ online = Trust!Nothing
  BY DEF WaitingRevocation, GrantsKnown
<1>2. CASE trustGrant.pending
  <2>1. trustGrant.id # Trust!Nothing
    BY <1>2 DEF Trust!TrustTypeOK, GrantsKnown
  <2> QED
    BY <1>1, <1>2, <2>1 DEF Trust!TrustTypeOK, TrustNumbers, GrantsKnown,
       Trust!GrantsCountedOnWereAccepted, WaitingRevocation,
       TasksArePast, AnsweredHaveEnded, Trust!Tasks
<1>3. CASE ~trustGrant.pending
  <2>1. grants' = grants + 1 /\ grants' \in 0..MaxGrants /\ grants' # Trust!Nothing /\ grants' \in 0..grants'
    BY <1>3 DEF TrustNumbers
  <2>2. trustGrant' \in [id : 0..grants', pending : BOOLEAN] /\ trustGrant'.id = grants + 1 /\ trustGrant'.pending
    <3>1. trustGrant' = [id |-> grants', pending |-> TRUE]
      BY <1>3, <2>1
    <3> QED
      BY <2>1, <3>1
  <2>3. trustEndpoint \in [grant : 0..grants', revoked : BOOLEAN]
    BY <2>1 DEF Trust!TrustTypeOK, TrustNumbers
  <2>4. Trust!TrustTypeOK'
    BY <2>2, <2>3 DEF Trust!TrustTypeOK, Trust!Tasks
  <2>5. TrustNumbers'
    BY <2>1 DEF TrustNumbers
  <2>6. GrantsKnown' /\ WaitingRevocation' /\ AnsweredHaveEnded'
    BY <1>1, <2>1, <2>2 DEF GrantsKnown, Trust!GrantsCountedOnWereAccepted,
       WaitingRevocation, AnsweredHaveEnded
  <2>7. TasksArePast'
    BY <2>1, <2>2 DEF TasksArePast, TrustNumbers
  <2> QED
    BY <2>4, <2>5, <2>6, <2>7
<1> QED
  BY <1>2, <1>3

LEMMA ConfirmKeeps == ASSUME Trust!TrustBounds, TrustInv, Trust!Confirm PROVE TrustInv'
<1> USE DEF Trust!TrustBounds, TrustInv, Trust!Confirm, Trust!Nothing
<1> USE DEF Trust!updates, Trust!server
<1>1. revocation = Trust!NoTask /\ online = Trust!Nothing
  BY DEF WaitingRevocation, GrantsKnown
<1>2. trustGrant' \in [id : 0..grants', pending : BOOLEAN] /\ trustGrant'.id = trustGrant.id
  BY DEF Trust!TrustTypeOK
<1>3. signIns \in 0..signIns
  BY DEF TrustNumbers
<1>4. Trust!TrustTypeOK' /\ TrustNumbers'
  BY <1>2, <1>3 DEF Trust!TrustTypeOK, TrustNumbers, Trust!Tasks
<1>5. GrantsKnown'
  BY <1>2 DEF GrantsKnown, Trust!GrantsCountedOnWereAccepted
<1>6. WaitingRevocation' /\ AnsweredHaveEnded' /\ TasksArePast'
  BY <1>1, <1>2 DEF WaitingRevocation, AnsweredHaveEnded, TasksArePast
<1> QED
  BY <1>4, <1>5, <1>6

(* The steps of a sign-in. *)
LEMMA SignInKeeps == ASSUME Trust!TrustBounds, TrustInv, Trust!SignIn PROVE TrustInv'
<1>1. CASE Trust!Login
  BY <1>1, LoginKeeps
<1>2. CASE Trust!Enroll
  BY <1>2, EnrollKeeps
<1>5. CASE Trust!SealGrant
  BY <1>5, SealGrantKeeps
<1>6. CASE Trust!Confirm
  BY <1>6, ConfirmKeeps
<1> USE DEF Trust!TrustBounds, TrustInv, Trust!TrustTypeOK, TrustNumbers, GrantsKnown,
   Trust!GrantsCountedOnWereAccepted
<1> USE DEF WaitingRevocation, TasksArePast, AnsweredHaveEnded
<1> USE DEF Trust!Nothing, Trust!NoTrust, Trust!NoGrant, Trust!NoTask, Trust!NoEdit,
   Trust!Tasks, TrustRows
<1> USE DEF Trust!Ended, Trust!Resumable, Trust!updates, Trust!server, Trust!local
<1>3. CASE Trust!Remember
  BY <1>3 DEF Trust!Remember
<1>4. CASE Trust!ClearPendingEndpointRevocation
  BY <1>4 DEF Trust!ClearPendingEndpointRevocation
<1>7. CASE Trust!SignInFails
  BY <1>7 DEF Trust!SignInFails
<1> QED
  BY <1>1, <1>2, <1>3, <1>4, <1>5, <1>6, <1>7 DEF Trust!SignIn

(* A session is resumed with a grant the server holds, so no revocation    *)
(* waits.                                                                  *)
LEMMA ResumeKeeps == ASSUME Trust!TrustBounds, TrustInv, Trust!Resume PROVE TrustInv'
<1> USE DEF Trust!TrustBounds, TrustInv, Trust!Resume, Trust!Nothing, Trust!Resumable
<1> USE DEF Trust!updates
<1>1. revocation = Trust!NoTask /\ trustGrant.id # Trust!Nothing /\ trustEndpoint.grant = trustGrant.id
  BY DEF WaitingRevocation, Trust!NoGrant
<1>2. trustGrant'.id = trustGrant.id /\ trustGrant' \in [id : 0..grants, pending : BOOLEAN]
  BY DEF Trust!TrustTypeOK
<1>3. signIns' \in 0..MaxSignIns /\ signIns <= signIns' /\ live' \in 0..signIns' /\ online' = live'
  BY DEF Trust!TrustTypeOK, TrustNumbers
<1>4. Trust!TrustTypeOK'
  BY <1>2, <1>3 DEF Trust!TrustTypeOK, Trust!Tasks
<1>5. TrustNumbers'
  BY <1>3 DEF TrustNumbers
<1>6. GrantsKnown'
  BY <1>1, <1>2 DEF GrantsKnown, Trust!GrantsCountedOnWereAccepted
<1>7. WaitingRevocation' /\ AnsweredHaveEnded'
  BY <1>1 DEF WaitingRevocation, AnsweredHaveEnded
<1>8. TasksArePast'
  BY <1>2, <1>3 DEF TasksArePast, TrustNumbers
<1> QED
  BY <1>4, <1>5, <1>6, <1>7, <1>8

(* Giving up keeps what is to be revoked, which no task named before.      *)
LEMMA GiveUpKeeps ==
    ASSUME Trust!TrustBounds, TrustInv, Trust!GiveUp, signIn = "no", live' \in {live, Trust!Nothing}
    PROVE  TrustInv'
<1> USE DEF Trust!TrustBounds, TrustInv, Trust!GiveUp, Trust!Nothing, Trust!NoTask,
   Trust!NoGrant
<1>1. revocation' \in Trust!Tasks /\ revocation'.grant = trustGrant.id /\ revocation'.session = online
  BY DEF Trust!Tasks, Trust!TrustTypeOK, TrustNumbers
<1>2. Trust!TrustTypeOK'
  <2>1. credential' \in [kind : {"none", "device", "pin"}, failed : 0..MaxTries - 1]
    BY DEF Trust!NoTrust
  <2>2. trustGrant' \in [id : 0..grants', pending : BOOLEAN]
    BY DEF TrustNumbers
  <2>3. live' # Trust!Nothing => ~trustEndpoint'.revoked
    BY DEF Trust!TrustTypeOK
  <2>4. {online, live}' \subseteq 0..signIns'
    BY DEF Trust!TrustTypeOK, TrustNumbers
  <2> QED
    BY <1>1, <2>1, <2>2, <2>3, <2>4 DEF Trust!TrustTypeOK
<1>3. TrustNumbers'
  BY DEF TrustNumbers
<1>4. GrantsKnown'
  BY DEF GrantsKnown, Trust!GrantsCountedOnWereAccepted
<1>5. WaitingRevocation'
  BY <1>1 DEF WaitingRevocation, GrantsKnown
<1>6. TasksArePast'
  <2> SUFFICES ASSUME NEW task \in sent \cup answered \cup {revocation'}
               PROVE  task.grant \in 0..grants /\ task.session \in 0..signIns
    BY DEF TasksArePast
  <2> QED
    BY <1>1 DEF TasksArePast, Trust!TrustTypeOK
<1>7. AnsweredHaveEnded'
  <2> SUFFICES ASSUME revocation' # Trust!NoTask, revocation' \in answered PROVE FALSE
    BY DEF AnsweredHaveEnded
  <2>1. trustGrant.id = Trust!Nothing
    BY <1>1 DEF TasksArePast
  <2>2. online = Trust!Nothing
    BY <2>1 DEF GrantsKnown
  <2> QED
    BY <2>1, <2>2
<1> QED
  BY <1>2, <1>3, <1>4, <1>5, <1>6, <1>7

(* The steps of a session. *)
LEMMA SessionKeeps == ASSUME Trust!TrustBounds, TrustInv, Trust!Session \/ Trust!WrongPin PROVE TrustInv'
<1>1. CASE Trust!Resume
  BY <1>1, ResumeKeeps
<1>2. CASE Trust!Logout
  BY <1>2, GiveUpKeeps DEF Trust!Logout
<1>3. CASE Trust!WrongPin /\ credential.failed + 1 >= MaxTries
  BY <1>3, GiveUpKeeps DEF Trust!WrongPin
<1> USE DEF Trust!TrustBounds, TrustInv, Trust!TrustTypeOK, TrustNumbers, GrantsKnown,
   Trust!GrantsCountedOnWereAccepted
<1> USE DEF WaitingRevocation, TasksArePast, AnsweredHaveEnded
<1> USE DEF Trust!Nothing, Trust!NoTrust, Trust!NoGrant, Trust!NoTask, Trust!NoEdit,
   Trust!Tasks, TrustRows
<1> USE DEF Trust!Ended, Trust!Resumable, Trust!Trusted, Trust!updates, Trust!server,
   Trust!local
<1>4. CASE Trust!WrongPin /\ credential.failed + 1 < MaxTries
  BY <1>4 DEF Trust!WrongPin
<1>5. CASE Trust!LoseSession
  BY <1>5 DEF Trust!LoseSession
<1>6. CASE Trust!Refused
  BY <1>6 DEF Trust!Refused
<1>7. CASE Trust!RemoteRevoke
  BY <1>7 DEF Trust!RemoteRevoke
<1> QED
  BY <1>1, <1>2, <1>3, <1>4, <1>5, <1>6, <1>7 DEF Trust!Session

(* Counters stay numbers. *)
LEMMA CountUp == ASSUME NEW n \in Nat PROVE n + 1 \in Nat
OBVIOUS

LEMMA Unfailed == Trust!TrustBounds => 0 \in 0..MaxTries - 1
BY DEF Trust!TrustBounds

(* The updates of the credential touch neither grants nor revocations. *)
LEMMA EditKeeps ==
    ASSUME Trust!TrustBounds, TrustInv, NEW e \in Editors, NEW op \in EditOps,
           Trust!EndEdit(e) \/ Trust!BeginEdit(e, op)
    PROVE  TrustInv'
<1> USE DEF TrustInv, Trust!Nothing, Trust!NoTrust, Trust!NoEdit, TrustRows, EditOps
<1> USE DEF Trust!Trusted, Trust!updates, Trust!server, Trust!local
<1>1. credential' \in TrustRows /\ edit' \in [Editors -> [op : EditOps, seen : TrustRows]]
  <2>0. 0 \in 0..MaxTries - 1
    BY Unfailed
  <2>1. Trust!NoEdit \in [op : EditOps, seen : TrustRows]
    BY <2>0
  <2>2. edit[e].seen \in TrustRows
    BY DEF TrustNumbers
  <2>3. [edit[e].seen EXCEPT !.failed = 0] \in TrustRows
    BY <2>0, <2>2
  <2>4. CASE Trust!EndEdit(e)
    BY <2>0, <2>1, <2>2, <2>3, <2>4 DEF Trust!EndEdit, TrustNumbers
  <2>5. CASE Trust!BeginEdit(e, op)
    BY <2>5 DEF Trust!BeginEdit, TrustNumbers, Trust!TrustTypeOK
  <2> QED
    BY <2>4, <2>5
<1>2. edits' \in Nat
  BY CountUp DEF Trust!EndEdit, Trust!BeginEdit, TrustNumbers
<1>3. UNCHANGED <<trustGrant, revocation, online, signIn, trustEndpoint, accepted, live, sent, answered, signIns, grants>>
  BY DEF Trust!EndEdit, Trust!BeginEdit
<1>4. Trust!TrustTypeOK' /\ TrustNumbers'
  BY <1>1, <1>2, <1>3 DEF Trust!TrustTypeOK, TrustNumbers
<1>5. GrantsKnown' /\ WaitingRevocation' /\ TasksArePast' /\ AnsweredHaveEnded'
  BY <1>3 DEF GrantsKnown, Trust!GrantsCountedOnWereAccepted, WaitingRevocation, TasksArePast,
     AnsweredHaveEnded, Trust!Ended, Trust!Resumable
<1> QED
  BY <1>4, <1>5

(* What the server carries out has ended, for a task that has a grant or a *)
(* session of the browser.                                                 *)
LEMMA ArriveKeeps == ASSUME Trust!TrustBounds, TrustInv, NEW task \in Trust!Tasks, Trust!Arrive(task) PROVE TrustInv'
<1> USE DEF TrustInv, Trust!Arrive, Trust!RevokeBrowserGrant, Trust!Nothing
<1> USE DEF Trust!updates, Trust!local
<1>1. /\ UNCHANGED <<credential, trustGrant, revocation, online, signIn, edit, chosenPin, edits,
                     accepted, signIns, grants>>
      /\ sent' \subseteq sent /\ answered' \subseteq answered \cup {task} /\ task \in sent
  OBVIOUS
<1>2. /\ trustEndpoint' \in [grant : 0..grants, revoked : BOOLEAN]
      /\ trustEndpoint'.grant \in {trustEndpoint.grant, Trust!Nothing}
      /\ trustEndpoint.revoked => trustEndpoint'.revoked
      /\ live' \in {live, Trust!Nothing}
      /\ live' # Trust!Nothing => ~trustEndpoint'.revoked
  <2>1. /\ trustEndpoint \in [grant : 0..grants, revoked : BOOLEAN] /\ 0 \in 0..grants
        /\ live # Trust!Nothing => ~trustEndpoint.revoked
    BY DEF Trust!TrustTypeOK, TrustNumbers
  <2>2. CASE UNCHANGED <<trustEndpoint, live>>
    BY <2>1, <2>2
  <2>3. CASE trustEndpoint' = [grant |-> Trust!Nothing, revoked |-> TRUE] /\ live' = Trust!Nothing
    BY <2>1, <2>3
  <2>4. CASE trustEndpoint' = [trustEndpoint EXCEPT !.revoked = TRUE] /\ live' = Trust!Nothing
    BY <2>1, <2>4
  <2> QED
    BY <2>2, <2>3, <2>4
<1>3. Trust!TrustTypeOK'
  BY <1>1, <1>2 DEF Trust!TrustTypeOK, TrustNumbers
<1>4. TrustNumbers'
  BY <1>1 DEF TrustNumbers
<1>5. GrantsKnown' /\ WaitingRevocation' /\ TasksArePast'
  BY <1>1, <1>2 DEF GrantsKnown, Trust!GrantsCountedOnWereAccepted, WaitingRevocation,
     TasksArePast
<1>6. AnsweredHaveEnded'
  <2> SUFFICES ASSUME revocation # Trust!NoTask, revocation \in answered' PROVE Trust!Ended(revocation)'
    BY <1>1 DEF AnsweredHaveEnded
  <2>1. CASE revocation \in answered
    BY <1>2, <2>1 DEF AnsweredHaveEnded, Trust!Ended, Trust!Resumable
  <2>2. CASE revocation = task
    <3>1. CASE trustEndpoint.grant # Trust!Nothing /\ trustEndpoint.grant = task.grant
      BY <3>1, <2>2 DEF Trust!Ended, Trust!Resumable
    <3>2. CASE trustEndpoint.grant # Trust!Nothing /\ trustEndpoint.grant # task.grant
      <4>1. task.session = Trust!Nothing
        BY <3>2, <2>2 DEF WaitingRevocation
      <4> QED
        BY <3>2, <2>2, <4>1 DEF Trust!Ended, Trust!Resumable
    <3>3. CASE trustEndpoint.grant = Trust!Nothing
      BY <3>3, <2>2, <1>2 DEF Trust!Ended, Trust!Resumable
    <3> QED
      BY <3>1, <3>2, <3>3
  <2> QED
    BY <1>1, <2>1, <2>2
<1> QED
  BY <1>3, <1>4, <1>5, <1>6

(* The other steps of a revocation on its way. *)
LEMMA RevocationKeeps ==
    ASSUME Trust!TrustBounds, TrustInv, NEW task \in Trust!Tasks,
           Trust!Flush \/ Trust!Arrive(task) \/ Trust!Answer(task) \/ Trust!Lose(task)
    PROVE  TrustInv'
<1>1. CASE Trust!Arrive(task)
  BY <1>1, ArriveKeeps
<1> USE DEF Trust!TrustBounds, TrustInv, Trust!TrustTypeOK, TrustNumbers, GrantsKnown,
   Trust!GrantsCountedOnWereAccepted
<1> USE DEF WaitingRevocation, TasksArePast, AnsweredHaveEnded
<1> USE DEF Trust!Nothing, Trust!NoTrust, Trust!NoGrant, Trust!NoTask, Trust!NoEdit,
   Trust!Tasks, TrustRows
<1> USE DEF Trust!Ended, Trust!Resumable, Trust!Trusted, Trust!updates, Trust!server,
   Trust!local
<1>2. CASE Trust!Flush
  BY <1>2 DEF Trust!Flush
<1>3. CASE Trust!Answer(task)
  BY <1>3 DEF Trust!Answer
<1>4. CASE Trust!Lose(task)
  BY <1>4 DEF Trust!Lose
<1> QED
  BY <1>1, <1>2, <1>3, <1>4

LEMMA TrustIdle == ASSUME TrustInv, UNCHANGED Trust!vars PROVE TrustInv'
BY DEF Trust!vars, Trust!local, Trust!server, Trust!updates, TrustInv, Trust!TrustTypeOK,
   TrustNumbers, GrantsKnown,
   Trust!GrantsCountedOnWereAccepted, WaitingRevocation, TasksArePast, AnsweredHaveEnded, Trust!Ended, Trust!Resumable

LEMMA TrustInductive == Trust!TrustBounds /\ TrustInv /\ [Trust!Next]_Trust!vars => TrustInv'
<1> SUFFICES ASSUME Trust!TrustBounds, TrustInv, [Trust!Next]_Trust!vars PROVE TrustInv'
  OBVIOUS
<1>1. CASE Trust!SignIn
  BY <1>1, SignInKeeps
<1>2. CASE Trust!Session \/ Trust!WrongPin
  BY <1>2, SessionKeeps
<1>3. ASSUME NEW e \in Editors, NEW op \in {"set PIN", "remove PIN", "settings", "unlock"},
             Trust!EndEdit(e) \/ Trust!BeginEdit(e, op)
      PROVE  TrustInv'
  BY <1>3, EditKeeps DEF EditOps
<1>4. CASE Trust!Flush
  <2>1. Trust!NoTask \in Trust!Tasks
    BY DEF Trust!NoTask, Trust!Tasks, Trust!Nothing, Trust!TrustBounds
  <2> QED
    BY <1>4, <2>1, RevocationKeeps
<1>5. ASSUME NEW task \in Trust!Tasks, Trust!Arrive(task) \/ Trust!Answer(task) \/ Trust!Lose(task) PROVE TrustInv'
  BY <1>5, RevocationKeeps
<1>6. CASE UNCHANGED Trust!vars
  BY <1>6, TrustIdle
<1> QED
  BY <1>1, <1>2, <1>3, <1>4, <1>5, <1>6 DEF Trust!Next, Trust!Edit

(* The browser forgets a revocation, other than by a sign-in or by giving  *)
(* up again, only for an answer to it.                                     *)
LEMMA RevocationsHold ==
    ASSUME Trust!TrustBounds, TrustInv, [Trust!Next]_Trust!vars, revocation # Trust!NoTask, revocation' = Trust!NoTask,
           UNCHANGED <<signIn, credential>>
    PROVE  Trust!Ended(revocation)
<1> USE DEF Trust!Nothing, Trust!NoTask
<1>1. ASSUME NEW task \in Trust!Tasks, Trust!Answer(task) PROVE Trust!Ended(revocation)
  BY <1>1 DEF Trust!Answer, TrustInv, AnsweredHaveEnded
<1>2. ASSUME NEW task \in Trust!Tasks, Trust!Arrive(task) \/ Trust!Lose(task) PROVE FALSE
  BY <1>2 DEF Trust!Arrive, Trust!Lose, Trust!local
<1>3. CASE Trust!SignIn
  BY <1>3 DEF Trust!SignIn, Trust!Login, Trust!Remember,
     Trust!ClearPendingEndpointRevocation, Trust!SealGrant, Trust!Enroll, Trust!Confirm,
     Trust!SignInFails
<1>4. CASE Trust!Session
  BY <1>4 DEF Trust!Session, Trust!Resume, Trust!LoseSession, Trust!Refused,
     Trust!RemoteRevoke, Trust!Logout, Trust!GiveUp, Trust!local, Trust!Trusted,
     Trust!NoTrust
<1>5. CASE Trust!WrongPin
  BY <1>5 DEF Trust!WrongPin, Trust!GiveUp, Trust!NoTrust
<1>6. ASSUME NEW e \in Editors, NEW op \in {"set PIN", "remove PIN", "settings", "unlock"},
             Trust!EndEdit(e) \/ Trust!BeginEdit(e, op)
      PROVE  FALSE
  BY <1>6 DEF Trust!EndEdit, Trust!BeginEdit, Trust!local
<1>7. CASE Trust!Flush \/ UNCHANGED Trust!vars
  BY <1>7 DEF Trust!Flush, Trust!local, Trust!vars
<1> QED
  BY <1>1, <1>2, <1>3, <1>4, <1>5, <1>6, <1>7 DEF Trust!Next, Trust!Edit

-----------------------------------------------------------------------------
(***************************************************************************)
(* CredentialChanges: what a submission under way knows of the account.    *)
(***************************************************************************)
PasswordSeals == [by : Credentials!Roots, aad : Credentials!Bindings]
RecoverySeals == [by : Credentials!Salts, aad : Credentials!Bindings]

(* The row of a submission. *)
FlowRows ==
    [kind : Kinds, page : Pages \cup Visitors, pc : Nat, dialog : BOOLEAN,
     typed : Passwords, chosen : Passwords, code : Credentials!Salts, name : Logins, account : Logins,
     binding : Credentials!Bindings \cup {None}, salt : Credentials!Salts \cup {None}, auth : Credentials!Roots \cup {None},
     next : Credentials!Roots \cup {None}, recoveryEnvelope : RecoverySeals \cup {None},
     wrapped : PasswordSeals \cup {None}, recoveryWrapped : RecoverySeals \cup {None}]

CredentialRows ==
    /\ keyed \in
         [name : Logins, password : Credentials!Roots, binding : Credentials!Bindings, recovery : Credentials!Salts,
          passwordEnvelope : PasswordSeals, recoveryEnvelope : RecoverySeals]
    /\ signedIn \subseteq Pages
    /\ pending \in [Pages \cup Visitors -> Credentials!Roots \cup {None}]
    /\ knownName \in [Pages -> Logins]
    /\ flow \in [Flows -> FlowRows \cup {Credentials!NoFlow}]
    /\ shown \subseteq Credentials!Salts /\ closes = 0 /\ lost = 0

(* The dialogs are open, and those of the pages are of their sessions. *)
FlowsInPlace ==
    \A f \in Flows : flow[f] # Credentials!NoFlow =>
      /\ flow[f].pc <= Len(Credentials!Script[flow[f].kind]) + 1 /\ flow[f].dialog
      /\ flow[f].page \in IF flow[f].kind = "recover" THEN Visitors ELSE Pages

OneFlowOfAPage ==
    \A f, g \in Flows : Credentials!Running(f) /\ Credentials!Running(g) /\ flow[f].page = flow[g].page => f = g

(* What a submission that goes on has fetched is what the account (owner)  *)
(* is bound to, while the server would take what it sends: while its page  *)
(* is signed in (open), or the account has the name it recovers.           *)
RowIsBound(r, owner, open) ==
    /\ r.pc >= 2 => r.binding \in Credentials!Bindings /\ r.salt \in Credentials!Salts
    /\ r.pc >= 2 /\ r.kind \in {"password", "recovery"} /\ OwnSession[r.page] \in open =>
         r.binding = owner.binding
    /\ r.pc >= 2 /\ r.kind = "recover" /\ r.account = owner.name => r.binding = owner.binding

(* What it has sealed is sealed with what it sends: key is the pending     *)
(* wrapping key of its page, seen the recovery keys that were displayed.   *)
RowIsSealed(f, r, key, seen) ==
    /\ (r.kind = "username" /\ r.pc \in {4, 5}) \/ (r.kind = "reset" /\ r.pc = 10) =>
         r.auth \in Credentials!Roots /\ key = r.auth
    /\ (r.kind = "username" /\ r.pc = 6) \/ (r.kind = "reset" /\ r.pc = 11) =>
         r.auth \in Credentials!Roots /\ r.wrapped = Credentials!Seal(r.auth, r.binding)
    /\ r.kind = "username" /\ r.pc = 6 => r.recoveryWrapped = Credentials!Seal(r.code, r.binding)
    /\ (r.kind = "password" /\ r.pc = 5) \/ (r.kind = "recover" /\ r.pc = 4) =>
         r.next \in Credentials!Roots /\ r.wrapped = Credentials!Seal(r.next, r.binding)
    /\ (r.kind = "recovery" /\ r.pc = 6) \/ (r.kind = "reset" /\ r.pc \in 6..11) =>
         r.recoveryWrapped = Credentials!Seal(f, r.binding)
    /\ r.kind = "reset" /\ r.pc \in 6..11 => f \in seen

RowIsKnown(f, r, owner, open, key, seen) ==
    r.pc # 0 /\ r.pc <= Len(Credentials!Script[r.kind]) =>
      RowIsBound(r, owner, open) /\ RowIsSealed(f, r, key, seen)

FlowsKnown ==
    \A f \in Flows : flow[f] # Credentials!NoFlow =>
      RowIsKnown(f, flow[f], keyed, signedIn, pending[flow[f].page], shown)

CredentialInv ==
    /\ CredentialRows /\ FlowsInPlace /\ OneFlowOfAPage /\ FlowsKnown
    /\ Credentials!PasswordOpens /\ Credentials!RecoveryOpens /\ Credentials!RecoveryHeld

LEMMA FirstOnes == Credentials!CredentialsAssumption => Credentials!FirstPassword \in Passwords /\ Credentials!FirstName \in Logins
BY DEF Credentials!CredentialsAssumption, Credentials!FirstPassword, Credentials!FirstName

LEMMA Scripts ==
    /\ DOMAIN Credentials!Script = {"username", "reset", "password", "recovery", "verify", "recover"}
    /\ Credentials!Script["username"] = Credentials!UsernameScript /\ Len(Credentials!UsernameScript) = 6
    /\ Credentials!Script["reset"] = Credentials!ResetScript /\ Len(Credentials!ResetScript) = 11
    /\ Credentials!Script["password"] = Credentials!PasswordScript /\ Len(Credentials!PasswordScript) = 5
    /\ Credentials!Script["recovery"] = Credentials!RecoveryScript /\ Len(Credentials!RecoveryScript) = 6
    /\ Credentials!Script["verify"] = Credentials!VerifyScript /\ Len(Credentials!VerifyScript) = 4
    /\ Credentials!Script["recover"] = Credentials!RecoverScript /\ Len(Credentials!RecoverScript) = 4
BY DEF Credentials!Script, Credentials!UsernameScript, Credentials!ResetScript,
   Credentials!PasswordScript, Credentials!RecoveryScript, Credentials!VerifyScript,
   Credentials!RecoverScript

(* At which places of which script each step stands. *)
IsAt(k, i, step) ==
    /\ step = "fetch" => i = 1 \/ (k = "reset" /\ i = 7) \/ (k = "recovery" /\ i = 4)
    /\ step = "derive" => k # "recover" /\ (i = 2 \/ (k = "reset" /\ i = 8))
    /\ step = "derived" => k # "recover" /\ (i = 3 \/ (k = "reset" /\ i = 9))
    /\ step = "rewrap" => k = "username" /\ i = 4
    /\ step = "rewrapped" => k = "username" /\ i = 5
    /\ step = "rename" => (k = "username" /\ i = 6) \/ (k = "reset" /\ i = 11)
    /\ step = "reauth" => k \in {"reset", "verify"} /\ i = 4
    /\ step = "rotate" => k \in {"reset", "recovery"} /\ i = 5
    /\ step = "confirm" => k = "reset" /\ i = 6
    /\ step = "wrap" => k = "reset" /\ i = 10
    /\ step = "rewrapPassword" => (k = "password" /\ i = 4) \/ (k = "recover" /\ i = 3)
    /\ step = "password" => k = "password" /\ i = 5
    /\ step = "recoveryKey" => k = "recovery" /\ i = 6
    /\ step = "unlock" => k = "recover" /\ i = 2
    /\ step = "recover" => k = "recover" /\ i = 4

LEMMA ScriptStep ==
    ASSUME NEW k \in DOMAIN Credentials!Script, NEW i \in Nat, i # 0, i <= Len(Credentials!Script[k])
    PROVE  IsAt(k, i, Credentials!Script[k][i])
<1>1. CASE k = "username"
  <2>1. i = 1 \/ i = 2 \/ i = 3 \/ i = 4 \/ i = 5 \/ i = 6
    BY <1>1, Scripts
  <2> QED
    BY <1>1, <2>1, Scripts DEF Credentials!UsernameScript, IsAt
<1>2. CASE k = "reset"
  <2>1. i = 1 \/ i = 2 \/ i = 3 \/ i = 4 \/ i = 5 \/ i = 6 \/ i = 7 \/ i = 8 \/ i = 9 \/ i = 10 \/ i = 11
    BY <1>2, Scripts
  <2> QED
    BY <1>2, <2>1, Scripts DEF Credentials!ResetScript, IsAt
<1>3. CASE k = "password"
  <2>1. i = 1 \/ i = 2 \/ i = 3 \/ i = 4 \/ i = 5
    BY <1>3, Scripts
  <2> QED
    BY <1>3, <2>1, Scripts DEF Credentials!PasswordScript, IsAt
<1>4. CASE k = "recovery"
  <2>1. i = 1 \/ i = 2 \/ i = 3 \/ i = 4 \/ i = 5 \/ i = 6
    BY <1>4, Scripts
  <2> QED
    BY <1>4, <2>1, Scripts DEF Credentials!RecoveryScript, IsAt
<1>5. CASE k = "verify"
  <2>1. i = 1 \/ i = 2 \/ i = 3 \/ i = 4
    BY <1>5, Scripts
  <2> QED
    BY <1>5, <2>1, Scripts DEF Credentials!VerifyScript, IsAt
<1>6. CASE k = "recover"
  <2>1. i = 1 \/ i = 2 \/ i = 3 \/ i = 4
    BY <1>6, Scripts
  <2> QED
    BY <1>6, <2>1, Scripts DEF Credentials!RecoverScript, IsAt
<1> QED
  BY <1>1, <1>2, <1>3, <1>4, <1>5, <1>6, Scripts

LEMMA ScriptLengths ==
    ASSUME NEW k \in DOMAIN Credentials!Script
    PROVE  /\ Len(Credentials!Script[k]) \in 4..11
           /\ k = "username" => Len(Credentials!Script[k]) = 6
           /\ k = "reset" => Len(Credentials!Script[k]) = 11
           /\ k = "password" => Len(Credentials!Script[k]) = 5
           /\ k = "recovery" => Len(Credentials!Script[k]) = 6
           /\ k \in {"verify", "recover"} => Len(Credentials!Script[k]) = 4
BY Scripts

(* A submission that takes a step. *)
LEMMA RunningRow ==
    ASSUME Credentials!CredentialsAssumption, CredentialInv, NEW f \in Flows, flow[f].kind # None
    PROVE  /\ flow[f] \in FlowRows /\ flow[f] # Credentials!NoFlow
           /\ flow[f].kind \in DOMAIN Credentials!Script /\ flow[f].pc \in Nat
           /\ flow[f].page \in Pages \cup Visitors
           /\ flow[f].pc <= Len(Credentials!Script[flow[f].kind]) + 1 /\ flow[f].dialog
           /\ flow[f].page \in IF flow[f].kind = "recover" THEN Visitors ELSE Pages
           /\ RowIsKnown(f, flow[f], keyed, signedIn, pending[flow[f].page], shown)
<1>1. flow[f] # Credentials!NoFlow
  BY DEF Credentials!NoFlow
<1>2. flow[f] \in FlowRows
  BY <1>1 DEF CredentialInv, CredentialRows
<1>3. flow[f].kind \in Kinds
  BY <1>2 DEF FlowRows
<1>4. flow[f].kind \in DOMAIN Credentials!Script
  BY <1>3, Scripts DEF Credentials!CredentialsAssumption
<1>5. flow[f].pc \in Nat /\ flow[f].page \in Pages \cup Visitors
  BY <1>2 DEF FlowRows
<1>6. /\ flow[f].pc <= Len(Credentials!Script[flow[f].kind]) + 1 /\ flow[f].dialog
      /\ flow[f].page \in IF flow[f].kind = "recover" THEN Visitors ELSE Pages
  BY <1>1 DEF CredentialInv, FlowsInPlace
<1>7. RowIsKnown(f, flow[f], keyed, signedIn, pending[flow[f].page], shown)
  BY <1>1 DEF CredentialInv, FlowsKnown
<1> QED
  BY <1>1, <1>2, <1>4, <1>5, <1>6, <1>7

LEMMA StepRow ==
    ASSUME Credentials!CredentialsAssumption, CredentialInv, NEW f \in Flows, NEW step, Credentials!At(f, step)
    PROVE  /\ Credentials!Running(f) /\ flow[f] \in FlowRows /\ flow[f] # Credentials!NoFlow
           /\ flow[f].kind \in DOMAIN Credentials!Script /\ flow[f].pc \in Nat /\ flow[f].pc # 0
           /\ flow[f].pc <= Len(Credentials!Script[flow[f].kind])
           /\ IsAt(flow[f].kind, flow[f].pc, step)
           /\ RowIsBound(flow[f], keyed, signedIn)
           /\ RowIsSealed(f, flow[f], pending[flow[f].page], shown)
<1>1. /\ Credentials!Running(f) /\ flow[f].kind # None /\ flow[f].pc # 0
      /\ flow[f].pc <= Len(Credentials!Script[flow[f].kind])
      /\ Credentials!Script[flow[f].kind][flow[f].pc] = step
  BY DEF Credentials!At, Credentials!Running
<1>2. /\ flow[f] \in FlowRows /\ flow[f] # Credentials!NoFlow /\ flow[f].kind \in DOMAIN Credentials!Script
      /\ flow[f].pc \in Nat /\ RowIsKnown(f, flow[f], keyed, signedIn, pending[flow[f].page], shown)
  BY <1>1, RunningRow
<1>3. IsAt(flow[f].kind, flow[f].pc, step)
  BY <1>1, <1>2, ScriptStep
<1> QED
  BY <1>1, <1>2, <1>3 DEF RowIsKnown

LEMMA CredentialsInitially == Credentials!CredentialsAssumption /\ Credentials!Init => CredentialInv
<1> SUFFICES ASSUME Credentials!CredentialsAssumption, Credentials!Init PROVE CredentialInv
  OBVIOUS
<1>1. Credentials!FirstPassword \in Passwords /\ Credentials!FirstName \in Logins
  BY FirstOnes
<1> DEFINE binding == [version |-> 1, context |-> Credentials!FirstName]
<1> DEFINE root == [password |-> Credentials!FirstPassword, salt |-> Credentials!Initial]
<1>2. binding \in Credentials!Bindings /\ root \in Credentials!Roots /\ Credentials!Initial \in Credentials!Salts
  BY <1>1 DEF Credentials!Bindings, Credentials!Roots, Credentials!Salts
<1>3. Credentials!Seal(root, binding) \in PasswordSeals /\ Credentials!Seal(Credentials!Initial, binding) \in RecoverySeals
  BY <1>2 DEF Credentials!Seal, PasswordSeals, RecoverySeals
<1>4. keyed = [name |-> Credentials!FirstName, password |-> root, binding |-> binding,
                 recovery |-> Credentials!Initial, passwordEnvelope |-> Credentials!Seal(root, binding),
                 recoveryEnvelope |-> Credentials!Seal(Credentials!Initial, binding)]
  BY DEF Credentials!Init
<1>5. flow = [f \in Flows |-> Credentials!NoFlow]
  BY DEF Credentials!Init
<1> HIDE DEF binding, root
<1>6. CredentialRows
  <2>1. /\ keyed \in
             [name : Logins, password : Credentials!Roots, binding : Credentials!Bindings, recovery : Credentials!Salts,
              passwordEnvelope : PasswordSeals, recoveryEnvelope : RecoverySeals]
    BY <1>1, <1>2, <1>3, <1>4
  <2>2. signedIn \subseteq Pages /\ shown \subseteq Credentials!Salts /\ closes = 0 /\ lost = 0
    BY <1>2 DEF Credentials!Init
  <2>3. /\ pending \in [Pages \cup Visitors -> Credentials!Roots \cup {None}]
        /\ knownName \in [Pages -> Logins]
    BY <1>1 DEF Credentials!Init
  <2> QED
    BY <1>5, <2>1, <2>2, <2>3 DEF CredentialRows
<1>7. \A f \in Flows : flow[f] = Credentials!NoFlow /\ flow[f].kind = None
  BY <1>5 DEF Credentials!NoFlow
<1>8. FlowsInPlace /\ OneFlowOfAPage /\ FlowsKnown
  BY <1>7 DEF FlowsInPlace, OneFlowOfAPage, FlowsKnown, Credentials!Running
<1>9. Credentials!PasswordOpens /\ Credentials!RecoveryOpens /\ Credentials!RecoveryHeld
  <2>1. Credentials!Initial \in shown
    BY DEF Credentials!Init
  <2> QED
    BY <1>4, <2>1 DEF Credentials!PasswordOpens, Credentials!RecoveryOpens,
       Credentials!RecoveryHeld
<1> QED
  BY <1>6, <1>8, <1>9 DEF CredentialInv

-----------------------------------------------------------------------------
(* A step of submission f, its row being r afterwards. *)
RowSteps(f, r) ==
    /\ r \in FlowRows /\ flow' = [flow EXCEPT ![f] = r]
    /\ r.page = flow[f].page /\ r.dialog
    /\ r.pc <= Len(Credentials!Script[r.kind]) + 1
    /\ r.page \in IF r.kind = "recover" THEN Visitors ELSE Pages

(* The submissions after the step, the others still known to be right.     *)
LEMMA RowsAfter ==
    ASSUME Credentials!CredentialsAssumption, CredentialInv, NEW f \in Flows, Credentials!Running(f),
           NEW r, RowSteps(f, r)
    PROVE  /\ flow' \in [Flows -> FlowRows \cup {Credentials!NoFlow}]
           /\ FlowsInPlace' /\ OneFlowOfAPage'
           /\ flow'[f] = r
           /\ \A g \in Flows \ {f} : flow'[g] = flow[g]
           /\ \A g \in Flows \ {f} : flow[g] # Credentials!NoFlow =>
                flow[g].pc = 0 \/ flow[g].page # flow[f].page
<1>1. flow \in [Flows -> FlowRows \cup {Credentials!NoFlow}]
  BY DEF CredentialInv, CredentialRows
<1>2. /\ flow' \in [Flows -> FlowRows \cup {Credentials!NoFlow}] /\ flow'[f] = r
      /\ \A g \in Flows \ {f} : flow'[g] = flow[g]
  BY <1>1 DEF RowSteps
<1>3. ASSUME NEW g \in Flows \ {f}, flow[g] # Credentials!NoFlow
      PROVE  flow[g].pc = 0 \/ flow[g].page # flow[f].page
  <2>1. flow[g] \in FlowRows
    BY <1>1, <1>3
  <2>2. flow[g].kind # None
    BY <2>1 DEF FlowRows, Credentials!CredentialsAssumption
  <2>3. OneFlowOfAPage
    BY DEF CredentialInv
  <2> QED
    BY <2>2, <2>3 DEF OneFlowOfAPage, Credentials!Running
<1>4. FlowsInPlace'
  <2>1. FlowsInPlace
    BY DEF CredentialInv
  <2> QED
    BY <1>2, <2>1 DEF FlowsInPlace, RowSteps
<1>5. OneFlowOfAPage'
  <2> SUFFICES ASSUME NEW g \in Flows, NEW h \in Flows, flow'[g].kind # None, flow'[g].pc # 0,
                      flow'[h].kind # None, flow'[h].pc # 0, flow'[g].page = flow'[h].page
               PROVE  g = h
    BY DEF OneFlowOfAPage, Credentials!Running
  <2>1. flow'[f].page = flow[f].page
    BY <1>2 DEF RowSteps
  <2>2. \A i \in Flows : flow[i].kind # None => flow[i] # Credentials!NoFlow
    BY DEF Credentials!NoFlow
  <2>3. CASE g = f /\ h # f
    BY <1>2, <1>3, <2>1, <2>2, <2>3
  <2>4. CASE h = f /\ g # f
    BY <1>2, <1>3, <2>1, <2>2, <2>4
  <2>5. CASE g # f /\ h # f
    <3>1. OneFlowOfAPage
      BY DEF CredentialInv
    <3> QED
      BY <1>2, <2>5, <3>1 DEF OneFlowOfAPage, Credentials!Running
  <2> QED
    BY <2>3, <2>4, <2>5
<1> QED
  BY <1>2, <1>3, <1>4, <1>5

(* A step on a page: the account stays, the pending key is that page's.    *)
LEMMA PageStep ==
    ASSUME Credentials!CredentialsAssumption, CredentialInv, NEW f \in Flows, Credentials!Running(f),
           NEW r, RowSteps(f, r),
           UNCHANGED <<keyed, signedIn, knownName, closes, lost>>,
           pending' \in [Pages \cup Visitors -> Credentials!Roots \cup {None}],
           \A p \in Pages \cup Visitors : p # flow[f].page => pending'[p] = pending[p],
           shown \subseteq shown', shown' \subseteq Credentials!Salts,
           RowIsKnown(f, r, keyed, signedIn, pending'[flow[f].page], shown')
    PROVE  CredentialInv'
<1>1. /\ flow' \in [Flows -> FlowRows \cup {Credentials!NoFlow}]
      /\ FlowsInPlace' /\ OneFlowOfAPage'
      /\ flow'[f] = r
      /\ \A g \in Flows \ {f} : flow'[g] = flow[g]
      /\ \A g \in Flows \ {f} : flow[g] # Credentials!NoFlow =>
           flow[g].pc = 0 \/ flow[g].page # flow[f].page
  BY RowsAfter
<1>2. CredentialRows'
  <2>1. CredentialRows
    BY DEF CredentialInv
  <2> QED
    BY <1>1, <2>1 DEF CredentialRows
<1>3. FlowsKnown'
  <2> SUFFICES ASSUME NEW g \in Flows, flow'[g] # Credentials!NoFlow
               PROVE  RowIsKnown(g, flow'[g], keyed', signedIn', pending'[flow'[g].page], shown')
    BY DEF FlowsKnown
  <2>1. CASE g = f
    BY <1>1, <2>1 DEF RowSteps
  <2>2. CASE g # f
    <3>1. flow'[g] = flow[g] /\ flow[g] # Credentials!NoFlow
      BY <1>1, <2>2
    <3>2. flow[g] \in FlowRows
      BY <3>1 DEF CredentialInv, CredentialRows
    <3>3. flow[g].page \in Pages \cup Visitors
      BY <3>2 DEF FlowRows
    <3>4. RowIsKnown(g, flow[g], keyed, signedIn, pending[flow[g].page], shown)
      BY <3>1 DEF CredentialInv, FlowsKnown
    <3>5. CASE flow[g].pc = 0
      BY <3>1, <3>5 DEF RowIsKnown
    <3>6. CASE flow[g].page # flow[f].page
      <4>1. pending'[flow[g].page] = pending[flow[g].page]
        BY <3>3, <3>6
      <4> QED
        BY <3>1, <3>4, <4>1 DEF RowIsKnown, RowIsSealed
    <3> QED
      BY <1>1, <2>2, <3>1, <3>5, <3>6
  <2> QED
    BY <2>1, <2>2
<1>4. Credentials!PasswordOpens' /\ Credentials!RecoveryOpens' /\ Credentials!RecoveryHeld'
  BY DEF CredentialInv, Credentials!PasswordOpens, Credentials!RecoveryOpens,
     Credentials!RecoveryHeld
<1> QED
  BY <1>1, <1>2, <1>3, <1>4 DEF CredentialInv

(* A step of the server, after which f is at the end of its script.        *)
LEMMA ServerStep ==
    ASSUME Credentials!CredentialsAssumption, CredentialInv, NEW f \in Flows, Credentials!Running(f),
           NEW r, RowSteps(f, r), r.pc = Len(Credentials!Script[r.kind]) + 1,
           keyed' \in
             [name : Logins, password : Credentials!Roots, binding : Credentials!Bindings, recovery : Credentials!Salts,
              passwordEnvelope : PasswordSeals, recoveryEnvelope : RecoverySeals],
           signedIn' \subseteq Pages, knownName' \in [Pages -> Logins],
           UNCHANGED <<pending, closes, lost>>,
           shown \subseteq shown', shown' \subseteq Credentials!Salts,
           Credentials!PasswordOpens', Credentials!RecoveryOpens', Credentials!RecoveryHeld',
           \A g \in Flows \ {f} :
             /\ flow[g] \in FlowRows /\ flow[g].pc # 0
             /\ flow[g].pc <= Len(Credentials!Script[flow[g].kind]) /\ flow[g].page # flow[f].page
             /\ RowIsBound(flow[g], keyed, signedIn)
             => RowIsBound(flow[g], keyed', signedIn')
    PROVE  CredentialInv'
<1>1. /\ flow' \in [Flows -> FlowRows \cup {Credentials!NoFlow}]
      /\ FlowsInPlace' /\ OneFlowOfAPage'
      /\ flow'[f] = r
      /\ \A g \in Flows \ {f} : flow'[g] = flow[g]
      /\ \A g \in Flows \ {f} : flow[g] # Credentials!NoFlow =>
           flow[g].pc = 0 \/ flow[g].page # flow[f].page
  BY RowsAfter
<1>2. CredentialRows'
  <2>1. CredentialRows
    BY DEF CredentialInv
  <2> QED
    BY <1>1, <2>1 DEF CredentialRows
<1>3. FlowsKnown'
  <2> SUFFICES ASSUME NEW g \in Flows, flow'[g] # Credentials!NoFlow
               PROVE  RowIsKnown(g, flow'[g], keyed', signedIn', pending'[flow'[g].page], shown')
    BY DEF FlowsKnown
  <2>1. CASE g = f
    <3>1. r.kind \in DOMAIN Credentials!Script
      BY Scripts DEF RowSteps, FlowRows, Credentials!CredentialsAssumption
    <3>2. Len(Credentials!Script[r.kind]) \in Nat
      BY <3>1, ScriptLengths
    <3>3. ~ (r.pc <= Len(Credentials!Script[r.kind]))
      BY <3>2
    <3> QED
      BY <1>1, <2>1, <3>3 DEF RowIsKnown
  <2>2. CASE g # f
    <3>1. flow'[g] = flow[g] /\ flow[g] # Credentials!NoFlow
      BY <1>1, <2>2
    <3>2. flow[g] \in FlowRows
      BY <3>1 DEF CredentialInv, CredentialRows
    <3>3. RowIsKnown(g, flow[g], keyed, signedIn, pending[flow[g].page], shown)
      BY <3>1 DEF CredentialInv, FlowsKnown
    <3>4. CASE flow[g].pc = 0
      BY <3>1, <3>4 DEF RowIsKnown
    <3>5. CASE flow[g].pc # 0 /\ flow[g].pc <= Len(Credentials!Script[flow[g].kind])
      <4>1. flow[g].page # flow[f].page
        BY <1>1, <2>2, <3>1, <3>5
      <4>2. /\ RowIsBound(flow[g], keyed, signedIn)
            /\ RowIsSealed(g, flow[g], pending[flow[g].page], shown)
        BY <3>3, <3>5 DEF RowIsKnown
      <4>3. RowIsBound(flow[g], keyed', signedIn')
        BY <2>2, <3>2, <3>5, <4>1, <4>2
      <4>4. RowIsSealed(g, flow[g], pending[flow[g].page], shown')
        BY <4>2 DEF RowIsSealed
      <4> QED
        BY <3>1, <4>3, <4>4 DEF RowIsKnown
    <3> QED
      BY <3>1, <3>4, <3>5 DEF RowIsKnown
  <2> QED
    BY <2>1, <2>2
<1> QED
  BY <1>1, <1>2, <1>3 DEF CredentialInv

-----------------------------------------------------------------------------
(* The steps of a page, one by one.                                        *)
LEMMA RowGoesOn ==
    ASSUME Credentials!CredentialsAssumption, CredentialInv, NEW f \in Flows, NEW step, Credentials!At(f, step),
           NEW r \in FlowRows, flow' = [flow EXCEPT ![f] = r],
           r.kind = flow[f].kind, r.page = flow[f].page, r.dialog = flow[f].dialog,
           r.pc = flow[f].pc + 1
    PROVE  RowSteps(f, r)
<1>1. /\ flow[f].kind \in DOMAIN Credentials!Script /\ flow[f].pc \in Nat
      /\ flow[f].pc <= Len(Credentials!Script[flow[f].kind]) /\ flow[f].kind # None
  BY StepRow DEF Credentials!Running
<1>2. /\ flow[f].dialog
      /\ flow[f].page \in IF flow[f].kind = "recover" THEN Visitors ELSE Pages
  BY <1>1, RunningRow
<1>3. Len(Credentials!Script[flow[f].kind]) \in Nat
  BY <1>1, ScriptLengths
<1>4. flow[f].pc + 1 <= Len(Credentials!Script[flow[f].kind]) + 1
  BY <1>1, <1>3
<1> QED
  BY <1>2, <1>4 DEF RowSteps

LEMMA DoneRow ==
    ASSUME Credentials!CredentialsAssumption, CredentialInv, NEW f \in Flows, Credentials!Running(f), flow' = Credentials!Done(f)
    PROVE  \E r : RowSteps(f, r) /\ r.pc = Len(Credentials!Script[r.kind]) + 1
<1>1. /\ flow[f] \in FlowRows /\ flow[f].kind \in DOMAIN Credentials!Script /\ flow[f].dialog
      /\ flow[f].page \in IF flow[f].kind = "recover" THEN Visitors ELSE Pages
  BY RunningRow DEF Credentials!Running
<1>2. Len(Credentials!Script[flow[f].kind]) \in Nat
  BY <1>1, ScriptLengths
<1> DEFINE end == Len(Credentials!Script[flow[f].kind]) + 1
<1> DEFINE r == [flow[f] EXCEPT !.pc = end]
<1>3. end \in Nat
  BY <1>2
<1>4. flow' = [flow EXCEPT ![f] = r]
  BY DEF Credentials!Done
<1> HIDE DEF end
<1>5. /\ r \in FlowRows /\ r.kind = flow[f].kind /\ r.page = flow[f].page
      /\ r.dialog = flow[f].dialog /\ r.pc = end
  BY <1>1, <1>3 DEF FlowRows
<1> HIDE DEF r
<1>6. r.pc = Len(Credentials!Script[r.kind]) + 1
  BY <1>5 DEF end
<1>7. RowSteps(f, r)
  BY <1>1, <1>3, <1>4, <1>5, <1>6 DEF RowSteps, end
<1> QED
  BY <1>6, <1>7

(* A step that fails ends the submission, and changes nothing else.        *)
LEMMA DoneStep ==
    ASSUME Credentials!CredentialsAssumption, CredentialInv, NEW f \in Flows, Credentials!Running(f), flow' = Credentials!Done(f),
           UNCHANGED <<keyed, signedIn, pending, knownName, shown, closes, lost>>
    PROVE  CredentialInv'
<1>1. PICK r : RowSteps(f, r) /\ r.pc = Len(Credentials!Script[r.kind]) + 1
  BY DoneRow
<1>2. r.kind \in DOMAIN Credentials!Script
  BY <1>1, Scripts DEF RowSteps, FlowRows, Credentials!CredentialsAssumption
<1>3. Len(Credentials!Script[r.kind]) \in Nat
  BY <1>2, ScriptLengths
<1>4. RowIsKnown(f, r, keyed, signedIn, pending'[flow[f].page], shown')
  BY <1>1, <1>3 DEF RowIsKnown
<1>5. pending \in [Pages \cup Visitors -> Credentials!Roots \cup {None}] /\ shown \subseteq Credentials!Salts
  BY DEF CredentialInv, CredentialRows
<1> QED
  BY <1>1, <1>4, <1>5, PageStep

(* The places a row is sealed for, by its kind. *)
LEMMA Sealing ==
    ASSUME NEW f, NEW r, NEW key, NEW seen,
           r.kind = "username" => r.pc \notin {4, 5, 6},
           r.kind = "reset" => r.pc \notin 6..11,
           r.kind = "password" => r.pc # 5,
           r.kind = "recover" => r.pc # 4,
           r.kind = "recovery" => r.pc # 6
    PROVE  RowIsSealed(f, r, key, seen)
BY DEF RowIsSealed

LEMMA FetchStep ==
    ASSUME Credentials!CredentialsAssumption, CredentialInv, NEW f \in Flows, Credentials!Fetch(f)
    PROVE  CredentialInv'
<1>1. Credentials!At(f, "fetch") /\ UNCHANGED <<keyed, signedIn, pending, knownName, shown, closes, lost>>
  BY DEF Credentials!Fetch
<1>2. /\ Credentials!Running(f) /\ flow[f] \in FlowRows /\ flow[f].pc \in Nat /\ flow[f].pc # 0
      /\ IsAt(flow[f].kind, flow[f].pc, "fetch")
      /\ RowIsBound(flow[f], keyed, signedIn)
      /\ RowIsSealed(f, flow[f], pending[flow[f].page], shown)
  BY <1>1, StepRow
<1>3. CASE flow[f].account # keyed.name
  <2>1. flow' = Credentials!Done(f)
    BY <1>3 DEF Credentials!Fetch
  <2> QED
    BY <1>1, <1>2, <2>1, DoneStep
<1>4. CASE flow[f].account = keyed.name
  <2> DEFINE binding ==
        IF flow[f].kind = "reset" /\ flow[f].binding # None THEN flow[f].binding
        ELSE IF flow[f].kind \in {"username", "reset"} /\ keyed.binding.version = 1
               THEN [version |-> 2, context |-> f]
               ELSE keyed.binding
  <2> DEFINE r == [flow[f] EXCEPT !.pc = flow[f].pc + 1, !.salt = keyed.password.salt,
                     !.recoveryEnvelope = keyed.recoveryEnvelope, !.binding = binding]
  <2>1. flow' = [flow EXCEPT ![f] = r]
    BY <1>4 DEF Credentials!Fetch
  <2>2. /\ keyed.binding \in Credentials!Bindings /\ keyed.password \in Credentials!Roots
        /\ keyed.recoveryEnvelope \in RecoverySeals
    BY DEF CredentialInv, CredentialRows
  <2>3. keyed.password.salt \in Credentials!Salts
    BY <2>2 DEF Credentials!Roots
  <2>4. [version |-> 2, context |-> f] \in Credentials!Bindings
    BY DEF Credentials!Bindings
  <2>5. flow[f].binding \in Credentials!Bindings \cup {None}
    BY <1>2 DEF FlowRows
  <2>6. binding \in Credentials!Bindings
    BY <2>2, <2>4, <2>5
  <2>7. /\ flow[f].kind \in {"password", "recovery", "recover"} => binding = keyed.binding
        /\ flow[f].kind = "reset" /\ flow[f].binding \in Credentials!Bindings => binding = flow[f].binding
    <3>1. flow[f].binding \in Credentials!Bindings => flow[f].binding # None
      BY DEF Credentials!CredentialsAssumption
    <3> QED
      BY <3>1
  <2> HIDE DEF binding
  <2>8. /\ r \in FlowRows /\ r.kind = flow[f].kind /\ r.page = flow[f].page
        /\ r.dialog = flow[f].dialog /\ r.pc = flow[f].pc + 1
        /\ r.binding = binding /\ r.salt = keyed.password.salt
        /\ r.recoveryWrapped = flow[f].recoveryWrapped
    <3> DEFINE n == flow[f].pc + 1
    <3> DEFINE salt == keyed.password.salt
    <3> DEFINE sealed == keyed.recoveryEnvelope
    <3>1. /\ n \in Nat /\ salt \in Credentials!Salts \cup {None} /\ sealed \in RecoverySeals \cup {None}
          /\ binding \in Credentials!Bindings \cup {None}
          /\ r = [flow[f] EXCEPT !.pc = n, !.salt = salt, !.recoveryEnvelope = sealed,
                                 !.binding = binding]
      BY <1>2, <2>2, <2>3, <2>6
    <3> HIDE DEF n, salt, sealed, r
    <3>2. r \in FlowRows
      BY <1>2, <3>1 DEF FlowRows
    <3>3. /\ r.kind = flow[f].kind /\ r.page = flow[f].page
          /\ r.dialog = flow[f].dialog /\ r.pc = n
          /\ r.binding = binding /\ r.salt = salt
          /\ r.recoveryWrapped = flow[f].recoveryWrapped
      BY <1>2, <3>1 DEF FlowRows
    <3> QED
      BY <3>2, <3>3 DEF n, salt
  <2> HIDE DEF r
  <2>9. RowSteps(f, r)
    BY <1>1, <2>1, <2>8, RowGoesOn
  <2>10. RowIsBound(r, keyed, signedIn)
    BY <2>3, <2>6, <2>7, <2>8 DEF RowIsBound
  <2>11. RowIsSealed(f, r, pending[flow[f].page], shown)
    <3>1. CASE flow[f].kind = "reset" /\ flow[f].pc = 7
      <4>1. flow[f].binding \in Credentials!Bindings
        BY <1>2, <3>1 DEF RowIsBound
      <4>2. r.binding = flow[f].binding
        BY <2>7, <2>8, <3>1, <4>1
      <4>3. flow[f].recoveryWrapped = Credentials!Seal(f, flow[f].binding) /\ f \in shown
        BY <1>2, <3>1 DEF RowIsSealed
      <4> QED
        BY <2>8, <3>1, <4>2, <4>3 DEF RowIsSealed
    <3>2. CASE ~ (flow[f].kind = "reset" /\ flow[f].pc = 7)
      <4>1. r.pc = 2 \/ (r.kind = "recovery" /\ r.pc = 5)
        BY <1>2, <2>8, <3>2 DEF IsAt
      <4> QED
        BY <4>1, Sealing
    <3> QED
      BY <3>1, <3>2
  <2>12. pending \in [Pages \cup Visitors -> Credentials!Roots \cup {None}] /\ shown \subseteq Credentials!Salts
    BY DEF CredentialInv, CredentialRows
  <2>13. RowIsKnown(f, r, keyed, signedIn, pending'[flow[f].page], shown')
    BY <1>1, <2>10, <2>11 DEF RowIsKnown
  <2> QED
    BY <1>1, <1>2, <2>9, <2>12, <2>13, PageStep
<1> QED
  BY <1>3, <1>4

(* The key that is pending on a page. *)
LEMMA PendingOn ==
    ASSUME CredentialInv, NEW p \in Pages \cup Visitors, NEW k \in Credentials!Roots \cup {None},
           pending' = [pending EXCEPT ![p] = k]
    PROVE  /\ pending' \in [Pages \cup Visitors -> Credentials!Roots \cup {None}] /\ pending'[p] = k
           /\ \A q \in Pages \cup Visitors : q # p => pending'[q] = pending[q]
BY DEF CredentialInv, CredentialRows

LEMMA DeriveStep ==
    ASSUME Credentials!CredentialsAssumption, CredentialInv, NEW f \in Flows, Credentials!Derive(f)
    PROVE  CredentialInv'
<1>1. /\ Credentials!At(f, "derive") /\ pending' = [pending EXCEPT ![flow[f].page] = None]
      /\ UNCHANGED <<keyed, signedIn, knownName, shown, closes, lost>>
  BY DEF Credentials!Derive, Credentials!On
<1>2. /\ Credentials!Running(f) /\ flow[f] \in FlowRows /\ flow[f].pc \in Nat
      /\ IsAt(flow[f].kind, flow[f].pc, "derive")
      /\ RowIsBound(flow[f], keyed, signedIn)
      /\ RowIsSealed(f, flow[f], pending[flow[f].page], shown)
  BY <1>1, StepRow
<1> DEFINE r == [flow[f] EXCEPT !.pc = flow[f].pc + 1]
<1>3. flow' = [flow EXCEPT ![f] = r]
  BY DEF Credentials!Derive, Credentials!Onward
<1>4. /\ r \in FlowRows /\ r.kind = flow[f].kind /\ r.page = flow[f].page
      /\ r.dialog = flow[f].dialog /\ r.pc = flow[f].pc + 1
      /\ r.binding = flow[f].binding /\ r.salt = flow[f].salt /\ r.account = flow[f].account
      /\ r.recoveryWrapped = flow[f].recoveryWrapped
  BY <1>2 DEF FlowRows
<1> HIDE DEF r
<1>5. RowSteps(f, r)
  BY <1>1, <1>3, <1>4, RowGoesOn
<1>6. flow[f].page \in Pages \cup Visitors
  BY <1>2 DEF FlowRows
<1>7. /\ pending' \in [Pages \cup Visitors -> Credentials!Roots \cup {None}]
      /\ \A q \in Pages \cup Visitors : q # flow[f].page => pending'[q] = pending[q]
  BY <1>1, <1>6, PendingOn
<1>8. /\ flow[f].kind # "recover"
      /\ (flow[f].pc = 2 \/ (flow[f].kind = "reset" /\ flow[f].pc = 8))
  BY <1>2 DEF IsAt
<1>9. RowIsBound(r, keyed, signedIn)
  BY <1>2, <1>4, <1>8 DEF RowIsBound
<1>10. ASSUME NEW key PROVE RowIsSealed(f, r, key, shown)
  BY <1>2, <1>4, <1>8 DEF RowIsSealed
<1>11. RowIsKnown(f, r, keyed, signedIn, pending'[flow[f].page], shown')
  BY <1>1, <1>9, <1>10 DEF RowIsKnown
<1>12. shown \subseteq Credentials!Salts
  BY DEF CredentialInv, CredentialRows
<1> QED
  BY <1>1, <1>2, <1>5, <1>7, <1>11, <1>12, PageStep

LEMMA DerivedStep ==
    ASSUME Credentials!CredentialsAssumption, CredentialInv, NEW f \in Flows, Credentials!Derived(f)
    PROVE  CredentialInv'
<1> DEFINE root == [password |-> flow[f].typed, salt |-> flow[f].salt]
<1> DEFINE r == [flow[f] EXCEPT !.pc = flow[f].pc + 1, !.auth = root]
<1>1. /\ Credentials!At(f, "derived") /\ pending' = [pending EXCEPT ![flow[f].page] = root]
      /\ flow' = [flow EXCEPT ![f] = r]
      /\ UNCHANGED <<keyed, signedIn, knownName, shown, closes, lost>>
  BY DEF Credentials!Derived, Credentials!On
<1>2. /\ Credentials!Running(f) /\ flow[f] \in FlowRows /\ flow[f].pc \in Nat
      /\ IsAt(flow[f].kind, flow[f].pc, "derived")
      /\ RowIsBound(flow[f], keyed, signedIn)
      /\ RowIsSealed(f, flow[f], pending[flow[f].page], shown)
  BY <1>1, StepRow
<1>3. /\ flow[f].kind # "recover"
      /\ (flow[f].pc = 3 \/ (flow[f].kind = "reset" /\ flow[f].pc = 9))
  BY <1>2 DEF IsAt
<1>4. root \in Credentials!Roots
  <2>1. flow[f].salt \in Credentials!Salts
    BY <1>2, <1>3 DEF RowIsBound
  <2>2. flow[f].typed \in Passwords
    BY <1>2 DEF FlowRows
  <2> QED
    BY <2>1, <2>2 DEF Credentials!Roots
<1> HIDE DEF root
<1>5. /\ r \in FlowRows /\ r.kind = flow[f].kind /\ r.page = flow[f].page
      /\ r.dialog = flow[f].dialog /\ r.pc = flow[f].pc + 1 /\ r.auth = root
      /\ r.binding = flow[f].binding /\ r.salt = flow[f].salt /\ r.account = flow[f].account
      /\ r.recoveryWrapped = flow[f].recoveryWrapped
  <2>1. root \in Credentials!Roots \cup {None} /\ flow[f].pc + 1 \in Nat
    BY <1>2, <1>4
  <2> DEFINE n == flow[f].pc + 1
  <2>2. n \in Nat /\ r = [flow[f] EXCEPT !.pc = n, !.auth = root]
    BY <2>1
  <2> HIDE DEF n, r
  <2>3. r \in FlowRows
    BY <1>2, <2>1, <2>2 DEF FlowRows
  <2>4. /\ r.kind = flow[f].kind /\ r.page = flow[f].page
        /\ r.dialog = flow[f].dialog /\ r.pc = n /\ r.auth = root
        /\ r.binding = flow[f].binding /\ r.salt = flow[f].salt /\ r.account = flow[f].account
        /\ r.recoveryWrapped = flow[f].recoveryWrapped
    BY <1>2, <2>2 DEF FlowRows
  <2> QED
    BY <2>3, <2>4 DEF n
<1> HIDE DEF r
<1>6. RowSteps(f, r)
  BY <1>1, <1>5, RowGoesOn
<1>7. flow[f].page \in Pages \cup Visitors
  BY <1>2 DEF FlowRows
<1>8. /\ pending' \in [Pages \cup Visitors -> Credentials!Roots \cup {None}] /\ pending'[flow[f].page] = root
      /\ \A q \in Pages \cup Visitors : q # flow[f].page => pending'[q] = pending[q]
  BY <1>1, <1>4, <1>7, PendingOn
<1>9. RowIsBound(r, keyed, signedIn)
  BY <1>2, <1>3, <1>5 DEF RowIsBound
<1>10. RowIsSealed(f, r, root, shown)
  BY <1>2, <1>3, <1>4, <1>5 DEF RowIsSealed
<1>11. RowIsKnown(f, r, keyed, signedIn, pending'[flow[f].page], shown')
  BY <1>1, <1>8, <1>9, <1>10 DEF RowIsKnown
<1>12. shown \subseteq Credentials!Salts
  BY DEF CredentialInv, CredentialRows
<1> QED
  BY <1>1, <1>2, <1>6, <1>8, <1>11, <1>12, PageStep

(* A row that only moves on. *)
LEMMA OnwardRow ==
    ASSUME Credentials!CredentialsAssumption, CredentialInv, NEW f \in Flows, NEW step, Credentials!At(f, step),
           flow' = Credentials!Onward(f)
    PROVE  \E r \in FlowRows :
             /\ RowSteps(f, r) /\ r.kind = flow[f].kind /\ r.pc = flow[f].pc + 1
             /\ r.page = flow[f].page /\ r.account = flow[f].account
             /\ r.auth = flow[f].auth /\ r.salt = flow[f].salt /\ r.binding = flow[f].binding
             /\ r.code = flow[f].code /\ r.recoveryWrapped = flow[f].recoveryWrapped
<1>1. flow[f] \in FlowRows /\ flow[f].pc \in Nat
  BY StepRow
<1> DEFINE r == [flow[f] EXCEPT !.pc = flow[f].pc + 1]
<1>2. flow' = [flow EXCEPT ![f] = r]
  BY DEF Credentials!Onward
<1>3. /\ r \in FlowRows /\ r.kind = flow[f].kind /\ r.pc = flow[f].pc + 1
      /\ r.page = flow[f].page /\ r.account = flow[f].account /\ r.dialog = flow[f].dialog
      /\ r.auth = flow[f].auth /\ r.salt = flow[f].salt /\ r.binding = flow[f].binding
      /\ r.code = flow[f].code /\ r.recoveryWrapped = flow[f].recoveryWrapped
  BY <1>1 DEF FlowRows
<1> HIDE DEF r
<1>4. RowSteps(f, r)
  BY <1>2, <1>3, RowGoesOn
<1> QED
  BY <1>3, <1>4

(* Steps that only move on, at places where nothing new must be sealed.    *)
LEMMA OnwardStep ==
    ASSUME Credentials!CredentialsAssumption, CredentialInv, NEW f \in Flows, NEW step, Credentials!At(f, step),
           step \in {"rewrap", "confirm", "unlock", "reauth"}, flow' = Credentials!Onward(f),
           UNCHANGED <<keyed, signedIn, pending, knownName, shown, closes, lost>>
    PROVE  CredentialInv'
<1>1. /\ Credentials!Running(f) /\ flow[f] \in FlowRows /\ flow[f].pc \in Nat
      /\ IsAt(flow[f].kind, flow[f].pc, step)
      /\ RowIsBound(flow[f], keyed, signedIn)
      /\ RowIsSealed(f, flow[f], pending[flow[f].page], shown)
  BY StepRow
<1>2. PICK r \in FlowRows :
        /\ RowSteps(f, r) /\ r.kind = flow[f].kind /\ r.pc = flow[f].pc + 1
        /\ r.page = flow[f].page /\ r.account = flow[f].account
        /\ r.auth = flow[f].auth /\ r.salt = flow[f].salt /\ r.binding = flow[f].binding
        /\ r.code = flow[f].code /\ r.recoveryWrapped = flow[f].recoveryWrapped
  BY OnwardRow
<1>3. \/ flow[f].kind = "username" /\ flow[f].pc = 4
      \/ flow[f].kind = "reset" /\ flow[f].pc = 6
      \/ flow[f].kind = "recover" /\ flow[f].pc = 2
      \/ flow[f].kind \in {"reset", "verify"} /\ flow[f].pc = 4
  BY <1>1 DEF IsAt
<1>4. RowIsBound(r, keyed, signedIn)
  BY <1>1, <1>2, <1>3 DEF RowIsBound
<1>5. RowIsSealed(f, r, pending[flow[f].page], shown)
  BY <1>1, <1>2, <1>3 DEF RowIsSealed
<1>6. RowIsKnown(f, r, keyed, signedIn, pending'[flow[f].page], shown')
  BY <1>4, <1>5 DEF RowIsKnown
<1>7. pending \in [Pages \cup Visitors -> Credentials!Roots \cup {None}] /\ shown \subseteq Credentials!Salts
  BY DEF CredentialInv, CredentialRows
<1> QED
  BY <1>1, <1>2, <1>6, <1>7, PageStep

LEMMA RewrapStep ==
    ASSUME Credentials!CredentialsAssumption, CredentialInv, NEW f \in Flows, Credentials!Rewrap(f)
    PROVE  CredentialInv'
<1>1. Credentials!Running(f)
  BY StepRow DEF Credentials!Rewrap
<1> QED
  BY <1>1, DoneStep, OnwardStep DEF Credentials!Rewrap

LEMMA ConfirmStep ==
    ASSUME Credentials!CredentialsAssumption, CredentialInv, NEW f \in Flows, Credentials!Confirm(f)
    PROVE  CredentialInv'
  BY OnwardStep DEF Credentials!Confirm

LEMMA UnlockStep ==
    ASSUME Credentials!CredentialsAssumption, CredentialInv, NEW f \in Flows, Credentials!Unlock(f)
    PROVE  CredentialInv'
<1>1. Credentials!Running(f)
  BY StepRow DEF Credentials!Unlock
<1> QED
  BY <1>1, DoneStep, OnwardStep DEF Credentials!Unlock

LEMMA ReauthStep ==
    ASSUME Credentials!CredentialsAssumption, CredentialInv, NEW f \in Flows, Credentials!Reauth(f)
    PROVE  CredentialInv'
<1>1. Credentials!Running(f)
  BY StepRow DEF Credentials!Reauth
<1> QED
  BY <1>1, DoneStep, OnwardStep DEF Credentials!Reauth

(* The password envelope is sealed with the pending key, and the other     *)
(* one with the recovery key that was typed.                               *)
LEMMA RewrappedStep ==
    ASSUME Credentials!CredentialsAssumption, CredentialInv, NEW f \in Flows, Credentials!Rewrapped(f)
    PROVE  CredentialInv'
<1>1. /\ Credentials!At(f, "rewrapped")
      /\ UNCHANGED <<keyed, signedIn, pending, knownName, shown, closes, lost>>
  BY DEF Credentials!Rewrapped
<1>2. /\ Credentials!Running(f) /\ flow[f] \in FlowRows /\ flow[f].pc \in Nat
      /\ IsAt(flow[f].kind, flow[f].pc, "rewrapped")
      /\ RowIsBound(flow[f], keyed, signedIn)
      /\ RowIsSealed(f, flow[f], pending[flow[f].page], shown)
  BY <1>1, StepRow
<1>3. flow[f].kind = "username" /\ flow[f].pc = 5
  BY <1>2 DEF IsAt
<1>4. /\ flow[f].auth \in Credentials!Roots /\ pending[flow[f].page] = flow[f].auth
      /\ flow[f].binding \in Credentials!Bindings
  BY <1>2, <1>3 DEF RowIsSealed, RowIsBound
<1>5. CASE pending[flow[f].page] = None
  <2>1. flow' = Credentials!Done(f)
    BY <1>5 DEF Credentials!Rewrapped, Credentials!On
  <2> QED
    BY <1>1, <1>2, <2>1, DoneStep
<1>6. CASE pending[flow[f].page] # None
  <2> DEFINE n == flow[f].pc + 1
  <2> DEFINE sealed == Credentials!Seal(pending[flow[f].page], flow[f].binding)
  <2> DEFINE opened == Credentials!Seal(flow[f].code, flow[f].binding)
  <2> DEFINE r == [flow[f] EXCEPT !.pc = n, !.wrapped = sealed, !.recoveryWrapped = opened]
  <2>1. flow' = [flow EXCEPT ![f] = r]
    BY <1>6 DEF Credentials!Rewrapped, Credentials!On
  <2>2. flow[f].code \in Credentials!Salts
    BY <1>2 DEF FlowRows
  <2>3. /\ n \in Nat /\ sealed \in PasswordSeals \cup {None} /\ opened \in RecoverySeals \cup {None}
    BY <1>2, <1>4, <2>2 DEF Credentials!Seal, PasswordSeals, RecoverySeals
  <2> HIDE DEF n, sealed, opened
  <2>4. r \in FlowRows
    BY <1>2, <2>3 DEF FlowRows
  <2>5. /\ r.kind = flow[f].kind /\ r.page = flow[f].page /\ r.dialog = flow[f].dialog
        /\ r.pc = n /\ r.wrapped = sealed /\ r.recoveryWrapped = opened
        /\ r.auth = flow[f].auth /\ r.binding = flow[f].binding /\ r.salt = flow[f].salt
        /\ r.code = flow[f].code
    BY <1>2 DEF FlowRows
  <2> HIDE DEF r
  <2>6. RowSteps(f, r)
    BY <1>1, <2>1, <2>4, <2>5, RowGoesOn DEF n
  <2>7. r.kind = "username" /\ r.pc = 6
    BY <1>3, <2>5 DEF n
  <2>8. RowIsBound(r, keyed, signedIn)
    BY <1>2, <1>3, <2>5, <2>7 DEF RowIsBound
  <2>9. r.wrapped = Credentials!Seal(r.auth, r.binding) /\ r.recoveryWrapped = Credentials!Seal(r.code, r.binding)
    BY <1>4, <2>5 DEF sealed, opened
  <2>10. RowIsSealed(f, r, pending[flow[f].page], shown)
    BY <1>4, <2>5, <2>7, <2>9 DEF RowIsSealed
  <2>11. RowIsKnown(f, r, keyed, signedIn, pending'[flow[f].page], shown')
    BY <1>1, <2>8, <2>10 DEF RowIsKnown
  <2>12. pending \in [Pages \cup Visitors -> Credentials!Roots \cup {None}] /\ shown \subseteq Credentials!Salts
    BY DEF CredentialInv, CredentialRows
  <2> QED
    BY <1>1, <1>2, <2>6, <2>11, <2>12, PageStep
<1> QED
  BY <1>5, <1>6

LEMMA WrapStep ==
    ASSUME Credentials!CredentialsAssumption, CredentialInv, NEW f \in Flows, Credentials!Wrap(f)
    PROVE  CredentialInv'
<1>1. /\ Credentials!At(f, "wrap")
      /\ UNCHANGED <<keyed, signedIn, pending, knownName, shown, closes, lost>>
  BY DEF Credentials!Wrap
<1>2. /\ Credentials!Running(f) /\ flow[f] \in FlowRows /\ flow[f].pc \in Nat
      /\ IsAt(flow[f].kind, flow[f].pc, "wrap")
      /\ RowIsBound(flow[f], keyed, signedIn)
      /\ RowIsSealed(f, flow[f], pending[flow[f].page], shown)
  BY <1>1, StepRow
<1>3. flow[f].kind = "reset" /\ flow[f].pc = 10
  BY <1>2 DEF IsAt
<1>4. /\ flow[f].auth \in Credentials!Roots /\ pending[flow[f].page] = flow[f].auth
      /\ flow[f].binding \in Credentials!Bindings
      /\ flow[f].recoveryWrapped = Credentials!Seal(f, flow[f].binding) /\ f \in shown
  BY <1>2, <1>3 DEF RowIsSealed, RowIsBound
<1>5. CASE pending[flow[f].page] = None
  <2>1. flow' = Credentials!Done(f)
    BY <1>5 DEF Credentials!Wrap, Credentials!On
  <2> QED
    BY <1>1, <1>2, <2>1, DoneStep
<1>6. CASE pending[flow[f].page] # None
  <2> DEFINE n == flow[f].pc + 1
  <2> DEFINE sealed == Credentials!Seal(pending[flow[f].page], flow[f].binding)
  <2> DEFINE r == [flow[f] EXCEPT !.pc = n, !.wrapped = sealed]
  <2>1. flow' = [flow EXCEPT ![f] = r]
    BY <1>6 DEF Credentials!Wrap, Credentials!On
  <2>2. /\ n \in Nat /\ sealed \in PasswordSeals \cup {None}
    BY <1>2, <1>4 DEF Credentials!Seal, PasswordSeals
  <2> HIDE DEF n, sealed
  <2>3. r \in FlowRows
    BY <1>2, <2>2 DEF FlowRows
  <2>4. /\ r.kind = flow[f].kind /\ r.page = flow[f].page /\ r.dialog = flow[f].dialog
        /\ r.pc = n /\ r.wrapped = sealed /\ r.recoveryWrapped = flow[f].recoveryWrapped
        /\ r.auth = flow[f].auth /\ r.binding = flow[f].binding /\ r.salt = flow[f].salt
    BY <1>2 DEF FlowRows
  <2> HIDE DEF r
  <2>5. RowSteps(f, r)
    BY <1>1, <2>1, <2>3, <2>4, RowGoesOn DEF n
  <2>6. r.kind = "reset" /\ r.pc = 11
    BY <1>3, <2>4 DEF n
  <2>7. RowIsBound(r, keyed, signedIn)
    BY <1>2, <1>3, <2>4, <2>6 DEF RowIsBound
  <2>8. r.wrapped = Credentials!Seal(r.auth, r.binding) /\ r.recoveryWrapped = Credentials!Seal(f, r.binding)
    BY <1>4, <2>4 DEF sealed
  <2>9. RowIsSealed(f, r, pending[flow[f].page], shown)
    BY <1>4, <2>4, <2>6, <2>8 DEF RowIsSealed
  <2>10. RowIsKnown(f, r, keyed, signedIn, pending'[flow[f].page], shown')
    BY <1>1, <2>7, <2>9 DEF RowIsKnown
  <2>11. pending \in [Pages \cup Visitors -> Credentials!Roots \cup {None}] /\ shown \subseteq Credentials!Salts
    BY DEF CredentialInv, CredentialRows
  <2> QED
    BY <1>1, <1>2, <2>5, <2>10, <2>11, PageStep
<1> QED
  BY <1>5, <1>6

(* The next password is sealed under a salt of the submission's own.       *)
LEMMA RewrapPasswordStep ==
    ASSUME Credentials!CredentialsAssumption, CredentialInv, NEW f \in Flows, Credentials!RewrapPassword(f)
    PROVE  CredentialInv'
<1> DEFINE root == [password |-> flow[f].chosen, salt |-> f]
<1> DEFINE sealed == Credentials!Seal(root, flow[f].binding)
<1> DEFINE n == flow[f].pc + 1
<1> DEFINE r == [flow[f] EXCEPT !.pc = n, !.next = root, !.wrapped = sealed]
<1>1. /\ Credentials!At(f, "rewrapPassword") /\ pending' = [pending EXCEPT ![flow[f].page] = None]
      /\ flow' = [flow EXCEPT ![f] = r]
      /\ UNCHANGED <<keyed, signedIn, knownName, shown, closes, lost>>
  BY DEF Credentials!RewrapPassword, Credentials!On
<1>2. /\ Credentials!Running(f) /\ flow[f] \in FlowRows /\ flow[f].pc \in Nat
      /\ IsAt(flow[f].kind, flow[f].pc, "rewrapPassword")
      /\ RowIsBound(flow[f], keyed, signedIn)
  BY <1>1, StepRow
<1>3. (flow[f].kind = "password" /\ flow[f].pc = 4) \/ (flow[f].kind = "recover" /\ flow[f].pc = 3)
  BY <1>2 DEF IsAt
<1>4. flow[f].binding \in Credentials!Bindings
  BY <1>2, <1>3 DEF RowIsBound
<1>5. root \in Credentials!Roots
  BY <1>2 DEF FlowRows, Credentials!Roots, Credentials!Salts
<1> HIDE DEF root
<1>6. n \in Nat /\ root \in Credentials!Roots \cup {None} /\ sealed \in PasswordSeals \cup {None}
  BY <1>2, <1>4, <1>5 DEF Credentials!Seal, PasswordSeals
<1> HIDE DEF n, sealed
<1>7. r \in FlowRows
  BY <1>2, <1>6 DEF FlowRows
<1>8. /\ r.kind = flow[f].kind /\ r.page = flow[f].page /\ r.dialog = flow[f].dialog
      /\ r.pc = n /\ r.wrapped = sealed /\ r.next = root
      /\ r.binding = flow[f].binding /\ r.salt = flow[f].salt /\ r.account = flow[f].account
  BY <1>2 DEF FlowRows
<1> HIDE DEF r
<1>9. RowSteps(f, r)
  BY <1>1, <1>7, <1>8, RowGoesOn DEF n
<1>10. (r.kind = "password" /\ r.pc = 5) \/ (r.kind = "recover" /\ r.pc = 4)
  BY <1>3, <1>8 DEF n
<1>11. RowIsBound(r, keyed, signedIn)
  BY <1>2, <1>3, <1>8, <1>10 DEF RowIsBound
<1>12. r.next \in Credentials!Roots /\ r.wrapped = Credentials!Seal(r.next, r.binding)
  BY <1>5, <1>8 DEF sealed
<1>13. ASSUME NEW key PROVE RowIsSealed(f, r, key, shown)
  BY <1>10, <1>12 DEF RowIsSealed
<1>14. RowIsKnown(f, r, keyed, signedIn, pending'[flow[f].page], shown')
  BY <1>1, <1>11, <1>13 DEF RowIsKnown
<1>15. flow[f].page \in Pages \cup Visitors
  BY <1>2 DEF FlowRows
<1>16. /\ pending' \in [Pages \cup Visitors -> Credentials!Roots \cup {None}]
       /\ \A q \in Pages \cup Visitors : q # flow[f].page => pending'[q] = pending[q]
  BY <1>1, <1>15, PendingOn
<1>17. shown \subseteq Credentials!Salts
  BY DEF CredentialInv, CredentialRows
<1> QED
  BY <1>1, <1>2, <1>9, <1>14, <1>16, <1>17, PageStep

(* The new recovery key is sealed, and shown at once if it is part of a    *)
(* change of the username.                                                 *)
LEMMA RotateStep ==
    ASSUME Credentials!CredentialsAssumption, CredentialInv, NEW f \in Flows, Credentials!Rotate(f)
    PROVE  CredentialInv'
<1> DEFINE sealed == Credentials!Seal(f, flow[f].binding)
<1> DEFINE n == flow[f].pc + 1
<1> DEFINE r == [flow[f] EXCEPT !.pc = n, !.recoveryWrapped = sealed]
<1>1. /\ Credentials!At(f, "rotate")
      /\ flow' = [flow EXCEPT ![f] = r]
      /\ shown' = IF flow[f].kind = "reset" THEN shown \cup {f} ELSE shown
      /\ pending' = IF flow[f].kind = "reset" THEN [pending EXCEPT ![flow[f].page] = None] ELSE pending
      /\ UNCHANGED <<keyed, signedIn, knownName, closes, lost>>
  BY DEF Credentials!Rotate, Credentials!On
<1>2. /\ Credentials!Running(f) /\ flow[f] \in FlowRows /\ flow[f].pc \in Nat
      /\ IsAt(flow[f].kind, flow[f].pc, "rotate")
      /\ RowIsBound(flow[f], keyed, signedIn)
  BY <1>1, StepRow
<1>3. flow[f].kind \in {"reset", "recovery"} /\ flow[f].pc = 5
  BY <1>2 DEF IsAt
<1>4. flow[f].binding \in Credentials!Bindings
  BY <1>2, <1>3 DEF RowIsBound
<1>5. n \in Nat /\ sealed \in RecoverySeals \cup {None} /\ f \in Credentials!Salts
  BY <1>2, <1>4 DEF Credentials!Seal, RecoverySeals, Credentials!Salts
<1> HIDE DEF n, sealed
<1>6. r \in FlowRows
  BY <1>2, <1>5 DEF FlowRows
<1>7. /\ r.kind = flow[f].kind /\ r.page = flow[f].page /\ r.dialog = flow[f].dialog
      /\ r.pc = n /\ r.recoveryWrapped = sealed
      /\ r.binding = flow[f].binding /\ r.salt = flow[f].salt
  BY <1>2 DEF FlowRows
<1> HIDE DEF r
<1>8. RowSteps(f, r)
  BY <1>1, <1>6, <1>7, RowGoesOn DEF n
<1>9. r.kind \in {"reset", "recovery"} /\ r.pc = 6
  BY <1>3, <1>7 DEF n
<1>10. RowIsBound(r, keyed, signedIn)
  BY <1>2, <1>3, <1>7, <1>9 DEF RowIsBound
<1>11. r.recoveryWrapped = Credentials!Seal(f, r.binding) /\ (r.kind = "reset" => f \in shown')
  BY <1>1, <1>7 DEF sealed
<1>12. RowIsSealed(f, r, pending'[flow[f].page], shown')
  BY <1>9, <1>11 DEF RowIsSealed
<1>13. RowIsKnown(f, r, keyed, signedIn, pending'[flow[f].page], shown')
  BY <1>10, <1>12 DEF RowIsKnown
<1>14. flow[f].page \in Pages \cup Visitors
  BY <1>2 DEF FlowRows
<1>15. pending \in [Pages \cup Visitors -> Credentials!Roots \cup {None}] /\ shown \subseteq Credentials!Salts
  BY DEF CredentialInv, CredentialRows
<1>16. /\ pending' \in [Pages \cup Visitors -> Credentials!Roots \cup {None}]
       /\ \A q \in Pages \cup Visitors : q # flow[f].page => pending'[q] = pending[q]
  BY <1>1, <1>14, <1>15, PendingOn
<1>17. shown \subseteq shown' /\ shown' \subseteq Credentials!Salts
  BY <1>1, <1>5, <1>15
<1> QED
  BY <1>1, <1>2, <1>8, <1>13, <1>16, <1>17, PageStep

LEMMA FinishStep ==
    ASSUME Credentials!CredentialsAssumption, CredentialInv, NEW f \in Flows, Credentials!Finish(f)
    PROVE  CredentialInv'
<1> DEFINE r == [flow[f] EXCEPT !.pc = 0]
<1>1. /\ Credentials!Running(f) /\ pending' = [pending EXCEPT ![flow[f].page] = None]
      /\ flow' = [flow EXCEPT ![f] = r]
      /\ UNCHANGED <<keyed, signedIn, knownName, shown, closes, lost>>
  BY DEF Credentials!Finish, Credentials!On
<1>2. /\ flow[f] \in FlowRows /\ flow[f].kind \in DOMAIN Credentials!Script
      /\ flow[f].page \in Pages \cup Visitors /\ flow[f].dialog
      /\ flow[f].page \in IF flow[f].kind = "recover" THEN Visitors ELSE Pages
  BY <1>1, RunningRow DEF Credentials!Running
<1>3. /\ r \in FlowRows /\ r.kind = flow[f].kind /\ r.page = flow[f].page
      /\ r.dialog = flow[f].dialog /\ r.pc = 0
  BY <1>2 DEF FlowRows
<1> HIDE DEF r
<1>4. Len(Credentials!Script[flow[f].kind]) \in Nat
  BY <1>2, ScriptLengths
<1>5. RowSteps(f, r)
  BY <1>1, <1>2, <1>3, <1>4 DEF RowSteps
<1>6. RowIsKnown(f, r, keyed, signedIn, pending'[flow[f].page], shown')
  BY <1>3 DEF RowIsKnown
<1>7. /\ pending' \in [Pages \cup Visitors -> Credentials!Roots \cup {None}]
      /\ \A q \in Pages \cup Visitors : q # flow[f].page => pending'[q] = pending[q]
  BY <1>1, <1>2, PendingOn
<1>8. shown \subseteq Credentials!Salts
  BY DEF CredentialInv, CredentialRows
<1> QED
  BY <1>1, <1>5, <1>6, <1>7, <1>8, PageStep

(* A submission begins on a page where none is running. *)
LEMMA SubmitStep ==
    ASSUME Credentials!CredentialsAssumption, CredentialInv, NEW f \in Flows, Credentials!Submit(f)
    PROVE  CredentialInv'
<1>1. /\ flow[f].kind = None
      /\ UNCHANGED <<keyed, signedIn, pending, knownName, shown, closes, lost>>
  BY DEF Credentials!Submit
<1>2. PICK kind \in Kinds, typed \in Passwords, chosen \in Passwords, code \in shown,
           name \in Logins :
       \E page \in IF kind = "recover" THEN Visitors ELSE Pages :
         /\ \A g \in Flows : ~ (Credentials!Running(g) /\ flow[g].page = page /\ flow[g].dialog)
         /\ (kind \in {"username", "reset"}) => (name # knownName[page])
         /\ (kind \notin {"username", "reset"}) => (name = Credentials!FirstName)
         /\ (kind \notin {"password", "recover"}) => (chosen = Credentials!FirstPassword)
         /\ (kind \notin {"username", "recover"}) => (code = Credentials!Initial)
         /\ (kind = "recover") => (typed = Credentials!FirstPassword)
         /\ flow' = [flow EXCEPT ![f] =
              [kind |-> kind, page |-> page, pc |-> 1, dialog |-> TRUE,
               typed |-> typed, chosen |-> chosen, code |-> code, name |-> name,
               account |-> IF kind = "recover" THEN keyed.name ELSE knownName[page],
               binding |-> None, salt |-> None, auth |-> None,
               next |-> None, recoveryEnvelope |-> None,
               wrapped |-> None, recoveryWrapped |-> None]]
  BY DEF Credentials!Submit
<1>3. PICK page \in IF kind = "recover" THEN Visitors ELSE Pages :
        /\ \A g \in Flows : ~ (Credentials!Running(g) /\ flow[g].page = page /\ flow[g].dialog)
        /\ flow' = [flow EXCEPT ![f] =
             [kind |-> kind, page |-> page, pc |-> 1, dialog |-> TRUE,
              typed |-> typed, chosen |-> chosen, code |-> code, name |-> name,
              account |-> IF kind = "recover" THEN keyed.name ELSE knownName[page],
              binding |-> None, salt |-> None, auth |-> None,
              next |-> None, recoveryEnvelope |-> None,
              wrapped |-> None, recoveryWrapped |-> None]]
  BY <1>2
<1> DEFINE owner == IF kind = "recover" THEN keyed.name ELSE knownName[page]
<1> DEFINE r == [kind |-> kind, page |-> page, pc |-> 1, dialog |-> TRUE,
                 typed |-> typed, chosen |-> chosen, code |-> code, name |-> name,
                 account |-> owner,
                 binding |-> None, salt |-> None, auth |-> None,
                 next |-> None, recoveryEnvelope |-> None,
                 wrapped |-> None, recoveryWrapped |-> None]
<1>4. CredentialRows
  BY DEF CredentialInv
<1>5. flow' = [flow EXCEPT ![f] = r]
  BY <1>3
<1>6. owner \in Logins /\ code \in Credentials!Salts
  BY <1>4 DEF CredentialRows
<1>7. page \in Pages \cup Visitors
  OBVIOUS
<1> HIDE DEF owner
<1>8. r \in FlowRows
  BY <1>6, <1>7 DEF FlowRows
<1>9. r.kind = kind /\ r.page = page /\ r.pc = 1 /\ r.dialog = TRUE
  OBVIOUS
<1> HIDE DEF r
<1>10. /\ flow' \in [Flows -> FlowRows \cup {Credentials!NoFlow}] /\ flow'[f] = r
       /\ \A g \in Flows \ {f} : flow'[g] = flow[g]
  BY <1>4, <1>5, <1>8 DEF CredentialRows
<1>11. CredentialRows'
  BY <1>1, <1>4, <1>10 DEF CredentialRows
<1>12. kind \in DOMAIN Credentials!Script
  BY Scripts DEF Credentials!CredentialsAssumption
<1>13. FlowsInPlace'
  <2>1. Len(Credentials!Script[kind]) \in Nat
    BY <1>12, ScriptLengths
  <2>2. 1 <= Len(Credentials!Script[kind]) + 1
    BY <2>1
  <2>3. FlowsInPlace
    BY DEF CredentialInv
  <2> SUFFICES ASSUME NEW g \in Flows, flow'[g] # Credentials!NoFlow
               PROVE  /\ flow'[g].pc <= Len(Credentials!Script[flow'[g].kind]) + 1 /\ flow'[g].dialog
                      /\ flow'[g].page \in IF flow'[g].kind = "recover" THEN Visitors ELSE Pages
    BY DEF FlowsInPlace
  <2>4. CASE g = f
    BY <1>9, <1>10, <2>2, <2>4
  <2>5. CASE g # f
    BY <1>10, <2>3, <2>5 DEF FlowsInPlace
  <2> QED
    BY <2>4, <2>5
<1>14. \A g \in Flows : Credentials!Running(g) => flow[g].page # page
  <2>1. \A g \in Flows : flow[g].kind # None => flow[g].dialog
    BY RunningRow
  <2> QED
    BY <1>3, <2>1 DEF Credentials!Running
<1>15. OneFlowOfAPage'
  <2> SUFFICES ASSUME NEW g \in Flows, NEW h \in Flows, flow'[g].kind # None, flow'[g].pc # 0,
                      flow'[h].kind # None, flow'[h].pc # 0, flow'[g].page = flow'[h].page
               PROVE  g = h
    BY DEF OneFlowOfAPage, Credentials!Running
  <2>1. CASE g = f /\ h # f
    BY <1>9, <1>10, <1>14, <2>1 DEF Credentials!Running
  <2>2. CASE h = f /\ g # f
    BY <1>9, <1>10, <1>14, <2>2 DEF Credentials!Running
  <2>3. CASE g # f /\ h # f
    <3>1. OneFlowOfAPage
      BY DEF CredentialInv
    <3> QED
      BY <1>10, <2>3, <3>1 DEF OneFlowOfAPage, Credentials!Running
  <2> QED
    BY <2>1, <2>2, <2>3
<1>16. FlowsKnown'
  <2> SUFFICES ASSUME NEW g \in Flows, flow'[g] # Credentials!NoFlow
               PROVE  RowIsKnown(g, flow'[g], keyed', signedIn', pending'[flow'[g].page], shown')
    BY DEF FlowsKnown
  <2>1. CASE g = f
    <3>1. RowIsSealed(f, r, pending[page], shown)
      BY <1>9, Sealing
    <3>2. RowIsBound(r, keyed, signedIn)
      BY <1>9 DEF RowIsBound
    <3> QED
      BY <1>1, <1>9, <1>10, <2>1, <3>1, <3>2 DEF RowIsKnown
  <2>2. CASE g # f
    <3>1. flow'[g] = flow[g] /\ flow[g] # Credentials!NoFlow
      BY <1>10, <2>2
    <3>2. RowIsKnown(g, flow[g], keyed, signedIn, pending[flow[g].page], shown)
      BY <3>1 DEF CredentialInv, FlowsKnown
    <3> QED
      BY <1>1, <3>1, <3>2
  <2> QED
    BY <2>1, <2>2
<1>17. Credentials!PasswordOpens' /\ Credentials!RecoveryOpens' /\ Credentials!RecoveryHeld'
  BY <1>1 DEF CredentialInv, Credentials!PasswordOpens, Credentials!RecoveryOpens,
     Credentials!RecoveryHeld
<1> QED
  BY <1>11, <1>13, <1>15, <1>16, <1>17 DEF CredentialInv

-----------------------------------------------------------------------------
(* The steps of the server.                                                *)
LEMMA AccountFields ==
    ASSUME CredentialInv
    PROVE  /\ keyed.name \in Logins /\ keyed.password \in Credentials!Roots
           /\ keyed.binding \in Credentials!Bindings /\ keyed.recovery \in Credentials!Salts
           /\ keyed.passwordEnvelope = Credentials!Seal(keyed.password, keyed.binding)
           /\ keyed.recoveryEnvelope = Credentials!Seal(keyed.recovery, keyed.binding)
           /\ keyed.recovery \in shown /\ shown \subseteq Credentials!Salts
           /\ signedIn \subseteq Pages /\ knownName \in [Pages -> Logins]
           /\ closes = 0 /\ lost = 0
  BY DEF CredentialInv, CredentialRows, Credentials!PasswordOpens, Credentials!RecoveryOpens,
     Credentials!RecoveryHeld

(* A change of the credentials, the binding and the name staying.          *)
LEMMA SameBinding ==
    ASSUME NEW r, NEW owner, NEW new, new.name = owner.name, new.binding = owner.binding,
           NEW open, NEW fewer, fewer \subseteq open, RowIsBound(r, owner, open)
    PROVE  RowIsBound(r, new, fewer)
  BY DEF RowIsBound

LEMMA ChangePasswordStep ==
    ASSUME Credentials!CredentialsAssumption, CredentialInv, NEW f \in Flows, Credentials!ChangePassword(f)
    PROVE  CredentialInv'
<1>1. /\ Credentials!At(f, "password") /\ flow' = Credentials!Done(f)
      /\ UNCHANGED <<pending, knownName, shown, closes, lost>>
  BY DEF Credentials!ChangePassword
<1>2. /\ Credentials!Running(f) /\ flow[f] \in FlowRows /\ flow[f].pc \in Nat
      /\ IsAt(flow[f].kind, flow[f].pc, "password")
      /\ RowIsBound(flow[f], keyed, signedIn)
      /\ RowIsSealed(f, flow[f], pending[flow[f].page], shown)
  BY <1>1, StepRow
<1>3. flow[f].kind = "password" /\ flow[f].pc = 5
  BY <1>2 DEF IsAt
<1>4. CASE ~ (Credentials!SignedIn(f) /\ Credentials!Proved(f))
  BY <1>1, <1>2, <1>4, DoneStep DEF Credentials!ChangePassword
<1>5. CASE Credentials!SignedIn(f) /\ Credentials!Proved(f)
  <2>1. /\ keyed' = [keyed EXCEPT !.password = flow[f].next,
                                      !.passwordEnvelope = flow[f].wrapped]
        /\ signedIn' = signedIn \cap {OwnSession[flow[f].page]}
    BY <1>5 DEF Credentials!ChangePassword, Credentials!On
  <2>2. /\ flow[f].next \in Credentials!Roots /\ flow[f].wrapped = Credentials!Seal(flow[f].next, flow[f].binding)
        /\ flow[f].binding = keyed.binding
    BY <1>2, <1>3, <1>5 DEF RowIsSealed, RowIsBound, Credentials!SignedIn, Credentials!On
  <2>3. flow[f].wrapped \in PasswordSeals
    BY <2>2, AccountFields DEF Credentials!Seal, PasswordSeals
  <2>4. keyed' \in
             [name : Logins, password : Credentials!Roots, binding : Credentials!Bindings, recovery : Credentials!Salts,
              passwordEnvelope : PasswordSeals, recoveryEnvelope : RecoverySeals]
    BY <2>1, <2>2, <2>3 DEF CredentialInv, CredentialRows
  <2>5. /\ keyed'.name = keyed.name /\ keyed'.binding = keyed.binding
        /\ keyed'.password = flow[f].next /\ keyed'.passwordEnvelope = flow[f].wrapped
        /\ keyed'.recovery = keyed.recovery
        /\ keyed'.recoveryEnvelope = keyed.recoveryEnvelope
    BY <2>1 DEF CredentialInv, CredentialRows
  <2>6. Credentials!PasswordOpens' /\ Credentials!RecoveryOpens' /\ Credentials!RecoveryHeld'
    BY <1>1, <2>2, <2>5, AccountFields DEF Credentials!PasswordOpens,
       Credentials!RecoveryOpens, Credentials!RecoveryHeld
  <2>7. PICK r : RowSteps(f, r) /\ r.pc = Len(Credentials!Script[r.kind]) + 1
    BY <1>1, <1>2, DoneRow
  <2>8. signedIn' \subseteq Pages /\ signedIn' \subseteq signedIn
    BY <2>1, AccountFields
  <2>9. ASSUME NEW g \in Flows, RowIsBound(flow[g], keyed, signedIn)
        PROVE  RowIsBound(flow[g], keyed', signedIn')
    BY <2>5, <2>8, <2>9, SameBinding
  <2> QED
    BY <1>1, <1>2, <2>4, <2>6, <2>7, <2>8, <2>9, AccountFields, ServerStep
<1> QED
  BY <1>4, <1>5

LEMMA RecoverStep ==
    ASSUME Credentials!CredentialsAssumption, CredentialInv, NEW f \in Flows, Credentials!Recover(f)
    PROVE  CredentialInv'
<1>1. /\ Credentials!At(f, "recover") /\ flow' = Credentials!Done(f)
      /\ UNCHANGED <<pending, knownName, shown, closes, lost>>
  BY DEF Credentials!Recover
<1>2. /\ Credentials!Running(f) /\ flow[f] \in FlowRows /\ flow[f].pc \in Nat
      /\ IsAt(flow[f].kind, flow[f].pc, "recover")
      /\ RowIsBound(flow[f], keyed, signedIn)
      /\ RowIsSealed(f, flow[f], pending[flow[f].page], shown)
  BY <1>1, StepRow
<1>3. flow[f].kind = "recover" /\ flow[f].pc = 4
  BY <1>2 DEF IsAt
<1>4. CASE ~ (flow[f].account = keyed.name /\ flow[f].code = keyed.recovery)
  BY <1>1, <1>2, <1>4, DoneStep DEF Credentials!Recover
<1>5. CASE flow[f].account = keyed.name /\ flow[f].code = keyed.recovery
  <2>1. /\ keyed' = [keyed EXCEPT !.password = flow[f].next,
                                      !.passwordEnvelope = flow[f].wrapped]
        /\ signedIn' = {}
    BY <1>5 DEF Credentials!Recover
  <2>2. /\ flow[f].next \in Credentials!Roots /\ flow[f].wrapped = Credentials!Seal(flow[f].next, flow[f].binding)
        /\ flow[f].binding = keyed.binding
    BY <1>2, <1>3, <1>5 DEF RowIsSealed, RowIsBound
  <2>3. flow[f].wrapped \in PasswordSeals
    BY <2>2, AccountFields DEF Credentials!Seal, PasswordSeals
  <2>4. keyed' \in
             [name : Logins, password : Credentials!Roots, binding : Credentials!Bindings, recovery : Credentials!Salts,
              passwordEnvelope : PasswordSeals, recoveryEnvelope : RecoverySeals]
    BY <2>1, <2>2, <2>3 DEF CredentialInv, CredentialRows
  <2>5. /\ keyed'.name = keyed.name /\ keyed'.binding = keyed.binding
        /\ keyed'.password = flow[f].next /\ keyed'.passwordEnvelope = flow[f].wrapped
        /\ keyed'.recovery = keyed.recovery
        /\ keyed'.recoveryEnvelope = keyed.recoveryEnvelope
    BY <2>1 DEF CredentialInv, CredentialRows
  <2>6. Credentials!PasswordOpens' /\ Credentials!RecoveryOpens' /\ Credentials!RecoveryHeld'
    BY <1>1, <2>2, <2>5, AccountFields DEF Credentials!PasswordOpens,
       Credentials!RecoveryOpens, Credentials!RecoveryHeld
  <2>7. PICK r : RowSteps(f, r) /\ r.pc = Len(Credentials!Script[r.kind]) + 1
    BY <1>1, <1>2, DoneRow
  <2>8. signedIn' \subseteq Pages /\ signedIn' \subseteq signedIn
    BY <2>1
  <2>9. ASSUME NEW g \in Flows, RowIsBound(flow[g], keyed, signedIn)
        PROVE  RowIsBound(flow[g], keyed', signedIn')
    BY <2>5, <2>8, <2>9, SameBinding
  <2> QED
    BY <1>1, <1>2, <2>4, <2>6, <2>7, <2>8, <2>9, AccountFields, ServerStep
<1> QED
  BY <1>4, <1>5

LEMMA ReplaceRecoveryStep ==
    ASSUME Credentials!CredentialsAssumption, CredentialInv, NEW f \in Flows, Credentials!ReplaceRecovery(f)
    PROVE  CredentialInv'
<1>1. /\ Credentials!At(f, "recoveryKey") /\ flow' = Credentials!Done(f)
      /\ UNCHANGED <<signedIn, pending, knownName, closes>>
  BY DEF Credentials!ReplaceRecovery
<1>2. /\ Credentials!Running(f) /\ flow[f] \in FlowRows /\ flow[f].pc \in Nat
      /\ IsAt(flow[f].kind, flow[f].pc, "recoveryKey")
      /\ RowIsBound(flow[f], keyed, signedIn)
      /\ RowIsSealed(f, flow[f], pending[flow[f].page], shown)
  BY <1>1, StepRow
<1>3. flow[f].kind = "recovery" /\ flow[f].pc = 6
  BY <1>2 DEF IsAt
<1>4. CASE ~ (Credentials!SignedIn(f) /\ Credentials!Proved(f))
  BY <1>1, <1>2, <1>4, DoneStep DEF Credentials!ReplaceRecovery
<1>5. CASE Credentials!SignedIn(f) /\ Credentials!Proved(f)
  <2>1. /\ keyed' = [keyed EXCEPT !.recovery = f,
                                      !.recoveryEnvelope = flow[f].recoveryWrapped]
        /\ shown' = shown \cup {f} /\ lost' = lost
    <3>1. lost = 0
      BY AccountFields
    <3> QED
      BY <1>5, <3>1 DEF Credentials!ReplaceRecovery
  <2>2. /\ flow[f].recoveryWrapped = Credentials!Seal(f, flow[f].binding)
        /\ flow[f].binding = keyed.binding
    BY <1>2, <1>3, <1>5 DEF RowIsSealed, RowIsBound, Credentials!SignedIn, Credentials!On
  <2>3. f \in Credentials!Salts
    BY DEF Credentials!Salts
  <2>4. flow[f].recoveryWrapped \in RecoverySeals
    BY <2>2, <2>3, AccountFields DEF Credentials!Seal, RecoverySeals
  <2>5. keyed' \in
             [name : Logins, password : Credentials!Roots, binding : Credentials!Bindings, recovery : Credentials!Salts,
              passwordEnvelope : PasswordSeals, recoveryEnvelope : RecoverySeals]
    BY <2>1, <2>3, <2>4 DEF CredentialInv, CredentialRows
  <2>6. /\ keyed'.name = keyed.name /\ keyed'.binding = keyed.binding
        /\ keyed'.password = keyed.password
        /\ keyed'.passwordEnvelope = keyed.passwordEnvelope
        /\ keyed'.recovery = f /\ keyed'.recoveryEnvelope = flow[f].recoveryWrapped
    BY <2>1 DEF CredentialInv, CredentialRows
  <2>7. Credentials!PasswordOpens' /\ Credentials!RecoveryOpens' /\ Credentials!RecoveryHeld'
    BY <2>1, <2>2, <2>6, AccountFields DEF Credentials!PasswordOpens,
       Credentials!RecoveryOpens, Credentials!RecoveryHeld
  <2>8. PICK r : RowSteps(f, r) /\ r.pc = Len(Credentials!Script[r.kind]) + 1
    BY <1>1, <1>2, DoneRow
  <2>9. /\ signedIn' \subseteq Pages /\ signedIn' \subseteq signedIn
        /\ shown \subseteq shown' /\ shown' \subseteq Credentials!Salts /\ knownName' \in [Pages -> Logins]
    BY <1>1, <2>1, <2>3, AccountFields
  <2>10. ASSUME NEW g \in Flows, RowIsBound(flow[g], keyed, signedIn)
         PROVE  RowIsBound(flow[g], keyed', signedIn')
    BY <2>6, <2>9, <2>10, SameBinding
  <2> QED
    BY <1>1, <1>2, <2>1, <2>5, <2>7, <2>8, <2>9, <2>10, ServerStep
<1> QED
  BY <1>4, <1>5

(* The other sessions end, and what they would seal is refused.            *)
LEMMA RenameStep ==
    ASSUME Credentials!CredentialsAssumption, CredentialInv, NEW f \in Flows, Credentials!Rename(f), NoNameComesBack
    PROVE  CredentialInv'
<1>1. /\ Credentials!At(f, "rename") /\ flow' = Credentials!Done(f) /\ UNCHANGED <<pending, shown, closes>>
  BY DEF Credentials!Rename
<1>2. /\ Credentials!Running(f) /\ flow[f] \in FlowRows /\ flow[f].pc \in Nat
      /\ IsAt(flow[f].kind, flow[f].pc, "rename")
      /\ RowIsBound(flow[f], keyed, signedIn)
      /\ RowIsSealed(f, flow[f], pending[flow[f].page], shown)
  BY <1>1, StepRow
<1>3. (flow[f].kind = "username" /\ flow[f].pc = 6) \/ (flow[f].kind = "reset" /\ flow[f].pc = 11)
  BY <1>2 DEF IsAt
<1>4. CASE ~ Credentials!CanRename(f)
  BY <1>1, <1>2, <1>4, DoneStep DEF Credentials!Rename
<1>5. CASE Credentials!CanRename(f)
  <2> DEFINE recovery == IF flow[f].kind = "reset" THEN f ELSE keyed.recovery
  <2>1. /\ keyed' = [keyed EXCEPT
             !.name = flow[f].name, !.binding = flow[f].binding,
             !.recovery = recovery,
             !.passwordEnvelope = flow[f].wrapped,
             !.recoveryEnvelope = flow[f].recoveryWrapped]
        /\ signedIn' = signedIn \cap {OwnSession[flow[f].page]}
        /\ knownName' = [knownName EXCEPT ![flow[f].page] = flow[f].name]
        /\ lost' = lost
    <3>1. lost = 0
      BY AccountFields
    <3> QED
      BY <1>5, <3>1 DEF Credentials!Rename, Credentials!On
  <2>2. /\ flow[f].auth = keyed.password /\ flow[f].name # keyed.name
        /\ flow[f].kind = "username" => flow[f].code = keyed.recovery
    BY <1>5 DEF Credentials!CanRename, Credentials!Proved
  <2>3. /\ flow[f].auth \in Credentials!Roots /\ flow[f].wrapped = Credentials!Seal(flow[f].auth, flow[f].binding)
        /\ flow[f].kind = "username" => flow[f].recoveryWrapped = Credentials!Seal(flow[f].code, flow[f].binding)
        /\ flow[f].kind = "reset" =>
             flow[f].recoveryWrapped = Credentials!Seal(f, flow[f].binding) /\ f \in shown
        /\ flow[f].binding \in Credentials!Bindings
    BY <1>2, <1>3 DEF RowIsSealed, RowIsBound
  <2>4. flow[f].name \in Logins
    BY <1>2 DEF FlowRows
  <2>5. recovery \in shown /\ flow[f].recoveryWrapped = Credentials!Seal(recovery, flow[f].binding)
    BY <1>3, <2>2, <2>3, AccountFields
  <2>6. /\ flow[f].wrapped \in PasswordSeals /\ flow[f].recoveryWrapped \in RecoverySeals
        /\ recovery \in Credentials!Salts
    BY <2>3, <2>5, AccountFields DEF Credentials!Seal, PasswordSeals, RecoverySeals
  <2> HIDE DEF recovery
  <2>7. keyed' \in
             [name : Logins, password : Credentials!Roots, binding : Credentials!Bindings, recovery : Credentials!Salts,
              passwordEnvelope : PasswordSeals, recoveryEnvelope : RecoverySeals]
    BY <2>1, <2>3, <2>4, <2>6 DEF CredentialInv, CredentialRows
  <2>8. /\ keyed'.name = flow[f].name /\ keyed'.binding = flow[f].binding
        /\ keyed'.password = keyed.password
        /\ keyed'.passwordEnvelope = flow[f].wrapped
        /\ keyed'.recovery = recovery /\ keyed'.recoveryEnvelope = flow[f].recoveryWrapped
    BY <2>1 DEF CredentialInv, CredentialRows
  <2>9. Credentials!PasswordOpens' /\ Credentials!RecoveryOpens' /\ Credentials!RecoveryHeld'
    BY <1>1, <2>2, <2>3, <2>5, <2>8 DEF Credentials!PasswordOpens, Credentials!RecoveryOpens,
       Credentials!RecoveryHeld
  <2>10. PICK r : RowSteps(f, r) /\ r.pc = Len(Credentials!Script[r.kind]) + 1
    BY <1>1, <1>2, DoneRow
  <2>11. flow[f].page \in Pages
    BY <1>2, <1>3, RunningRow DEF Credentials!Running
  <2>12. /\ signedIn' \subseteq Pages /\ knownName' \in [Pages -> Logins]
    BY <2>1, <2>4, AccountFields
  <2>13. ASSUME NEW g \in Flows \ {f}, flow[g] \in FlowRows, flow[g].pc # 0,
                flow[g].page # flow[f].page, RowIsBound(flow[g], keyed, signedIn)
         PROVE  RowIsBound(flow[g], keyed', signedIn')
    <3>1. flow[g].kind # None
      BY <2>13 DEF FlowRows, Credentials!CredentialsAssumption
    <3>2. flow[g].page \in IF flow[g].kind = "recover" THEN Visitors ELSE Pages
      BY <3>1, RunningRow
    <3>3. flow[g].kind # "recover" => OwnSession[flow[g].page] \notin signedIn'
      BY <2>1, <2>11, <2>13, <3>2 DEF OwnSession
    <3>4. flow[g].kind = "recover" => flow[g].account # keyed'.name
      BY <2>2, <2>8, <2>13, <3>1 DEF NoNameComesBack, Credentials!Running
    <3> QED
      BY <2>13, <3>3, <3>4 DEF RowIsBound
  <2> QED
    BY <1>1, <1>2, <2>1, <2>7, <2>9, <2>10, <2>12, <2>13, AccountFields, ServerStep
<1> QED
  BY <1>4, <1>5

-----------------------------------------------------------------------------
LEMMA CredentialStep ==
    ASSUME Credentials!CredentialsAssumption, CredentialInv, Credentials!Next, NoNameComesBack
    PROVE  CredentialInv'
<1> SUFFICES ASSUME NEW f \in Flows,
      \/ Credentials!Submit(f)          \/ Credentials!Fetch(f)          \/ Credentials!Derive(f)
      \/ Credentials!Derived(f)         \/ Credentials!Rewrap(f)         \/ Credentials!Rewrapped(f)
      \/ Credentials!Wrap(f)            \/ Credentials!RewrapPassword(f) \/ Credentials!Rotate(f)
      \/ Credentials!Confirm(f)         \/ Credentials!Unlock(f)         \/ Credentials!Reauth(f)
      \/ Credentials!Rename(f)          \/ Credentials!ChangePassword(f) \/ Credentials!ReplaceRecovery(f)
      \/ Credentials!Recover(f)         \/ Credentials!Finish(f)         \/ Credentials!Close(f)
    PROVE  CredentialInv'
  BY DEF Credentials!Next
<1>1. CASE Credentials!Close(f)
  <2>1. closes < 0 /\ closes = 0
    BY <1>1, AccountFields DEF Credentials!Close
  <2> QED
    BY <2>1
<1> QED
  BY <1>1, SubmitStep, FetchStep, DeriveStep, DerivedStep, RewrapStep, RewrappedStep,
     WrapStep, RewrapPasswordStep, RotateStep, ConfirmStep, UnlockStep, ReauthStep,
     RenameStep, ChangePasswordStep, ReplaceRecoveryStep, RecoverStep, FinishStep

LEMMA CredentialInductive ==
    ASSUME Credentials!CredentialsAssumption, CredentialInv, [Credentials!Next]_Credentials!vars, NoNameComesBack
    PROVE  CredentialInv'
<1>1. CASE UNCHANGED Credentials!vars
  BY <1>1 DEF Credentials!vars, CredentialInv, CredentialRows, FlowsInPlace, OneFlowOfAPage,
     Credentials!Running,
     FlowsKnown, Credentials!PasswordOpens, Credentials!RecoveryOpens, Credentials!RecoveryHeld
<1> QED
  BY <1>1, CredentialStep

LEMMA CredentialInvIsSafe == Credentials!CredentialsAssumption /\ CredentialInv => Credentials!CredentialsOpen
<1> SUFFICES ASSUME Credentials!CredentialsAssumption, CredentialInv PROVE Credentials!TypeOK
  BY DEF CredentialInv, Credentials!CredentialsOpen
<1>1. CredentialRows
  BY DEF CredentialInv
<1>2. ASSUME NEW f \in Flows, flow[f].kind \in Kinds
      PROVE  flow[f].pc \in 1..(Len(Credentials!Script[flow[f].kind]) + 1) \cup {0}
  <2>1. flow[f].kind # None
    BY <1>2 DEF Credentials!CredentialsAssumption
  <2>2. /\ flow[f].pc \in Nat /\ flow[f].pc <= Len(Credentials!Script[flow[f].kind]) + 1
        /\ flow[f].kind \in DOMAIN Credentials!Script
    BY <2>1, RunningRow
  <2>3. Len(Credentials!Script[flow[f].kind]) \in Nat
    BY <2>2, ScriptLengths
  <2> QED
    BY <2>2, <2>3
<1> QED
  BY <1>1, <1>2 DEF CredentialRows, Credentials!TypeOK, PasswordSeals, RecoverySeals
-----------------------------------------------------------------------------
(***************************************************************************)
(* What the run of MCAccounts checks, of every instance.  Each component   *)
(* takes steps of its own specification or none.                           *)
(***************************************************************************)
LEMMA ServerPart == [RootNext]_everything => [Server!Next]_Server!vars
<1> SUFFICES ASSUME [RootNext]_everything PROVE Server!Next \/ UNCHANGED Server!vars
  OBVIOUS
<1>1. CASE AccountsStep
  BY <1>1 DEF AccountsStep
<1>2. CASE UNCHANGED accountsVars
  BY <1>2 DEF accountsVars, Server!vars
<1>3. CASE SessionsStep \/ BrowserStep \/ TrustStep \/ CredentialsStep
  BY <1>2, <1>3 DEF SessionsStep, BrowserStep, TrustStep, CredentialsStep, Only
<1> QED
  BY <1>1, <1>2, <1>3 DEF RootNext, everything

LEMMA BrowserPart == [RootNext]_everything => [Browser!Next]_Browser!vars
<1> SUFFICES ASSUME [RootNext]_everything PROVE Browser!Next \/ UNCHANGED Browser!vars
  OBVIOUS
<1>1. CASE BrowserStep
  BY <1>1 DEF BrowserStep
<1>2. CASE UNCHANGED browserVars
  BY <1>2 DEF browserVars, Browser!vars
<1>3. CASE SessionsStep \/ AccountsStep \/ TrustStep \/ CredentialsStep
  BY <1>2, <1>3 DEF SessionsStep, AccountsStep, TrustStep, CredentialsStep, Only
<1> QED
  BY <1>1, <1>2, <1>3 DEF RootNext, everything

LEMMA TrustPart == [RootNext]_everything => [Trust!Next]_Trust!vars
<1> SUFFICES ASSUME [RootNext]_everything PROVE Trust!Next \/ UNCHANGED Trust!vars
  OBVIOUS
<1>1. CASE TrustStep
  BY <1>1 DEF TrustStep
<1>2. CASE UNCHANGED trustVars
  BY <1>2 DEF trustVars, Trust!vars, Trust!local, Trust!server, Trust!updates
<1>3. CASE SessionsStep \/ AccountsStep \/ BrowserStep \/ CredentialsStep
  BY <1>2, <1>3 DEF SessionsStep, AccountsStep, BrowserStep, CredentialsStep, Only
<1> QED
  BY <1>1, <1>2, <1>3 DEF RootNext, everything

LEMMA CredentialsPart == [RootNext]_everything => [Credentials!Next]_Credentials!vars
<1> SUFFICES ASSUME [RootNext]_everything PROVE Credentials!Next \/ UNCHANGED Credentials!vars
  OBVIOUS
<1>1. CASE CredentialsStep
  BY <1>1 DEF CredentialsStep
<1>2. CASE UNCHANGED credentialsVars
  BY <1>2 DEF credentialsVars, Credentials!vars
<1>3. CASE SessionsStep \/ AccountsStep \/ BrowserStep \/ TrustStep
  BY <1>2, <1>3 DEF SessionsStep, AccountsStep, BrowserStep, TrustStep, Only
<1> QED
  BY <1>1, <1>2, <1>3 DEF RootNext, everything

LEMMA ServerInvariant == RootSpec => []AccountsInv
<1>1. RootInit => AccountsInv
  BY PartsAssumption, AccountsInitially DEF RootInit
<1>2. AccountsInv /\ [RootNext]_everything => AccountsInv'
  BY PartsAssumption, ServerPart, AccountsInductive
<1> QED
  BY <1>1, <1>2, PTL DEF RootSpec

LEMMA BrowserInvariant == RootSpec => []BrowserInv
<1>1. RootInit => BrowserInv
  BY PartsAssumption, BrowserInitially DEF RootInit
<1>2. BrowserInv /\ [RootNext]_everything => BrowserInv'
  BY PartsAssumption, BrowserPart, BrowserInductive
<1> QED
  BY <1>1, <1>2, PTL DEF RootSpec

LEMMA TrustInvariant == RootSpec => []TrustInv
<1>1. RootInit => TrustInv
  BY PartsAssumption, TrustInitially DEF RootInit
<1>2. TrustInv /\ [RootNext]_everything => TrustInv'
  BY PartsAssumption, TrustPart, TrustInductive
<1> QED
  BY <1>1, <1>2, PTL DEF RootSpec

LEMMA CredentialsInvariant == RootSpec /\ [][NoNameComesBack]_everything => []CredentialInv
<1>1. RootInit => CredentialInv
  BY PartsAssumption, CredentialsInitially DEF RootInit
<1>2. ASSUME CredentialInv, [RootNext]_everything, [NoNameComesBack]_everything
      PROVE  CredentialInv'
  <2>1. CASE NoNameComesBack
    BY <1>2, <2>1, PartsAssumption, CredentialsPart, CredentialInductive
  <2>2. CASE UNCHANGED everything
    <3>1. UNCHANGED credentialsVars
      BY <2>2 DEF everything
    <3>2. NoNameComesBack
      BY <3>1 DEF credentialsVars, NoNameComesBack
    <3> QED
      BY <1>2, <3>2, PartsAssumption, CredentialsPart, CredentialInductive
  <2> QED
    BY <1>2, <2>1, <2>2
<1> QED
  BY <1>1, <1>2, PTL DEF RootSpec

(* However tabs, reloads and failures fall together, one account is open   *)
(* in a browser, signing out leaves nothing of it, and a grant the browser *)
(* counts on is one the server accepted (useSessionController.ts,          *)
(* deviceUnlock.ts).                                                       *)
THEOREM BrowsersAreSafe == RootSpec => []BrowserSafe
<1>1. BrowserInv /\ TrustInv => BrowserSafe
  BY BrowserInvIsSafe DEF BrowserSafe, TrustInv, GrantsKnown, Trust!TrustSafe
<1> QED
  BY <1>1, BrowserInvariant, TrustInvariant, PTL

(* Names differ and there is one administrator, an application connection  *)
(* that works was made with the present credential of an account that is   *)
(* enabled, and the password and the recovery key that are accepted open   *)
(* the envelopes that are kept, while no name is given back under a        *)
(* recovery (server/routes.ts, server/applications, crypto.worker.ts).     *)
THEOREM AccountsAreSafe == RootSpec /\ [][NoNameComesBack]_everything => []AccountsSafe
<1>1. AccountsInv /\ CredentialInv => AccountsSafe
  BY PartsAssumption, AccountsInvIsSafe, CredentialInvIsSafe DEF AccountsSafe
<1> QED
  BY <1>1, ServerInvariant, CredentialsInvariant, PTL

(* A revocation the browser stops repeating was carried out, a revoked     *)
(* connection never works again, and work that was not saved is discarded  *)
(* only by the user (deviceUnlock.ts, server/applications/routes.ts,       *)
(* useSessionController.ts).                                               *)
THEOREM EndingsAreKept == RootSpec => EndingsHold
<1>1. TrustInv /\ [RootNext]_everything =>
        [revocation # Trust!NoTask /\ revocation' = Trust!NoTask /\ UNCHANGED <<signIn, credential>>
           => Trust!Ended(revocation)]_Trust!vars
  BY PartsAssumption, TrustPart, RevocationsHold
<1>2. AccountsInv /\ [RootNext]_everything =>
        [\A a \in Apps : (\E p \in posted : p[2] = a) /\ (~app[a].row \/ app[a].revoked)
           => ~Server!Active(a)']_Server!vars
  BY PartsAssumption, ServerPart, RevokedStays
<1>3. BrowserInv /\ [RootNext]_everything =>
        [\A t \in Tabs : tab[t].dirty /\ ~tab'[t].dirty =>
           \/ ~tab'[t].alive
           \/ <<tab[t].user, t>> \in stored'
           \/ tab[t].leaving = "discard" /\ action.kind = "logout"
                /\ action.user = tab[t].user]_Browser!vars
  BY PartsAssumption, BrowserPart, UnsavedKept
<1>4. TrustInv /\ AccountsInv /\ BrowserInv /\ [RootNext]_everything =>
        /\ [revocation # Trust!NoTask /\ revocation' = Trust!NoTask /\ UNCHANGED <<signIn, credential>>
             => Trust!Ended(revocation)]_Trust!vars
        /\ [\A a \in Apps : (\E p \in posted : p[2] = a) /\ (~app[a].row \/ app[a].revoked)
             => ~Server!Active(a)']_Server!vars
        /\ [\A t \in Tabs : tab[t].dirty /\ ~tab'[t].dirty =>
             \/ ~tab'[t].alive
             \/ <<tab[t].user, t>> \in stored'
             \/ tab[t].leaving = "discard" /\ action.kind = "logout"
                  /\ action.user = tab[t].user]_Browser!vars
  BY <1>1, <1>2, <1>3
<1>5. RootSpec => Trust!ConfirmedRevocationsHold /\ Server!RevokedNeverWorks
                  /\ Browser!UnsavedWorkIsKept
  BY <1>4, TrustInvariant, ServerInvariant, BrowserInvariant, PTL
  DEF RootSpec, Trust!ConfirmedRevocationsHold, Server!RevokedNeverWorks,
     Browser!UnsavedWorkIsKept
<1> QED
  BY <1>5 DEF EndingsHold
===============================================================================

--------------------------- MODULE ClientsProofs ---------------------------
(***************************************************************************)
(* Proofs about Clients, for any sets of clients, subscriptions, browsers, *)
(* passwords and concurrent requests.                                      *)
(*                                                                         *)
(* IndInv is inductive.  Its parts are proved one by one: the types, the   *)
(* session, the secrets, and the requests of clients.                      *)
(***************************************************************************)
EXTENDS Clients, TLAPS

USE ClientsAssumption

LEMMA InitInv == Init => IndInv
  BY DEF Init, IndInv, TypeOK, RequestsOK, SetupPasswordWorks, SecretIsHeld,
         OnlyLiveRequestsAct, StaleRequestsFail, Idle, RequestState, Step

-----------------------------------------------------------------------------
(* Type correctness: the requests first, then the rest.                    *)

\* The ways in which a step of a request changes it.
LEMMA RequestEnds ==
    ASSUME RequestsOK, NEW r \in Request, Ends(r), secrets \in 0..MaxSecrets,
           UNCHANGED secrets
    PROVE  RequestsOK'
<1>1. Idle \in RequestState
  BY DEF Idle, RequestState, Step
<1> QED
  BY <1>1 DEF RequestsOK, Ends, Idle

LEMMA RequestToPage ==
    ASSUME RequestsOK, NEW r \in Request, secrets \in 0..MaxSecrets,
           secrets' \in 0..MaxSecrets, secrets <= secrets',
           NEW s \in 0..secrets', ToPage(r, s)
    PROVE  RequestsOK'
<1> DEFINE q == [Idle EXCEPT !.step = "show", !.secret = s]
<1>1. /\ q \in RequestState
      /\ q.secret = s /\ q.step = "show" /\ q.client = None
      /\ q.by = None /\ q.password = None
  <2>1. s \in 0..MaxSecrets
    OBVIOUS
  <2> QED
    BY <2>1 DEF Idle, RequestState, Step
<1>2. \A x \in Request : req[x].secret \in 0..MaxSecrets
  BY DEF RequestsOK, RequestState
<1> HIDE DEF q
<1>3. req' = [req EXCEPT ![r] = q]
  BY DEF ToPage, q
<1> QED
  BY <1>1, <1>2, <1>3 DEF RequestsOK

LEMMA RequestSetsOut ==
    ASSUME RequestsOK, NEW r \in Request, secrets \in 0..MaxSecrets,
           UNCHANGED secrets,
           \/ \E b \in Browser, p \in Password : StartSetup(r, b, p)
           \/ \E b \in Browser : AdminArrives(r, b)
           \/ \E c \in Client : ClientArrives(r, c)
    PROVE  RequestsOK'
<1> USE DEF RequestsOK
<1>1. ASSUME NEW b \in Browser, NEW p \in Password, StartSetup(r, b, p)
      PROVE  RequestsOK'
  <2>1. /\ req' = [req EXCEPT ![r] = [Idle EXCEPT !.step = "setup", !.by = b,
                                                 !.password = p]]
        /\ [Idle EXCEPT !.step = "setup", !.by = b, !.password = p]
             \in RequestState
    BY <1>1 DEF StartSetup, Idle, RequestState, Step
  <2> QED
    BY <2>1 DEF Idle
<1>2. ASSUME NEW b \in Browser, AdminArrives(r, b) PROVE RequestsOK'
  <2>1. /\ req' = [req EXCEPT ![r] = [Idle EXCEPT !.step = "admin"]]
        /\ [Idle EXCEPT !.step = "admin"] \in RequestState
    BY <1>2 DEF AdminArrives, Idle, RequestState, Step
  <2> QED
    BY <2>1 DEF Idle
<1>3. ASSUME NEW c \in Client, ClientArrives(r, c) PROVE RequestsOK'
  <2> DEFINE q == [step |-> "authenticate", client |-> c,
                   live |-> status[c] = "active",
                   by |-> None, password |-> None, secret |-> 0]
  <2>1. q \in RequestState
    BY DEF RequestState, Step
  <2>2. /\ req' = [req EXCEPT ![r] = q]
        /\ q.step = "authenticate" /\ q.client = c /\ q.secret = 0
        /\ q.by = None /\ q.password = None
    BY <1>3 DEF ClientArrives, Idle
  <2> HIDE DEF q
  <2> QED
    BY <2>1, <2>2
<1> QED
  BY <1>1, <1>2, <1>3

LEMMA RequestAuthenticates ==
    ASSUME RequestsOK, NEW r \in Request, secrets \in 0..MaxSecrets,
           Authenticate(r)
    PROVE  RequestsOK'
<1>1. CASE Ends(r)
  BY <1>1, RequestEnds DEF Authenticate
<1>2. CASE req' = [req EXCEPT ![r].step = "client"]
  BY <1>2 DEF Authenticate, RequestsOK, RequestState, Step
<1> QED
  BY <1>1, <1>2 DEF Authenticate

LEMMA TypesOfAdmin ==
    ASSUME TypeOK, NEW r \in Request, AdminAction(r)
    PROVE  TypeOK'
<1> USE DEF TypeOK, admin, client, subscription, history
<1>1. ASSUME NEW b \in Browser, AdminArrives(r, b) PROVE TypeOK'
  BY <1>1, RequestSetsOut DEF AdminArrives
<1>2. ASSUME NEW b \in Browser, NEW p \in Password, StartSetup(r, b, p)
      PROVE  TypeOK'
  BY <1>2, RequestSetsOut DEF StartSetup
<1>3. CASE InsertAdmin(r)
  <2>1. req[r].password \in Password
    BY <1>3 DEF InsertAdmin, RequestsOK, RequestState
  <2>2. RequestsOK'
    BY <1>3, RequestEnds DEF InsertAdmin
  <2>3. CASE admins = <<>>
    <3>1. <<req[r].password>> \in Seq(Password)
      BY <2>1
    <3>2. admins' \in Seq(Password)
      BY <1>3, <2>3, <3>1 DEF InsertAdmin
    <3>3. sessions' \in [Browser -> Password \cup {None}]
      BY <1>3, <2>1, <2>3 DEF InsertAdmin
    <3> QED
      BY <1>3, <2>2, <3>2, <3>3 DEF InsertAdmin
  <2>4. CASE admins # <<>>
    BY <1>3, <2>2, <2>4 DEF InsertAdmin
  <2> QED
    BY <2>3, <2>4
<1>4. ASSUME NEW c \in Client, AddClient(r, c) PROVE TypeOK'
  <2>1. RequestsOK'
    BY <1>4, RequestToPage DEF AddClient
  <2> QED
    BY <1>4, <2>1 DEF AddClient
<1>5. ASSUME NEW c \in Client, DeleteClient(r, c) PROVE TypeOK'
  BY <1>5, RequestEnds DEF DeleteClient
<1>6. ASSUME NEW c \in Client, RevokeClient(r, c) PROVE TypeOK'
  BY <1>6, RequestEnds DEF RevokeClient
<1>7. ASSUME NEW c \in Client, ReissueClient(r, c) PROVE TypeOK'
  <2>1. RequestsOK'
    BY <1>7, RequestToPage DEF ReissueClient
  <2> QED
    BY <1>7, <2>1 DEF ReissueClient
<1>8. CASE ShowPage(r)
  <2>1. req[r].secret \in 0..secrets
    BY DEF RequestsOK, RequestState
  <2>2. RequestsOK'
    BY <1>8, RequestEnds DEF ShowPage
  <2>3. {req[r].secret} \ {0} \subseteq 1..secrets
    BY <2>1
  <2> QED
    BY <1>8, <2>2, <2>3 DEF ShowPage
<1>9. ASSUME NEW s \in Sub, AdminCancelSubscription(r, s) PROVE TypeOK'
  BY <1>9, RequestEnds DEF AdminCancelSubscription
<1> QED
  BY <1>1, <1>2, <1>3, <1>4, <1>5, <1>6, <1>7, <1>8, <1>9 DEF AdminAction

LEMMA TypesOfClient ==
    ASSUME TypeOK, NEW r \in Request, ClientAction(r)
    PROVE  TypeOK'
<1> USE DEF TypeOK, admin, client, subscription, history
<1>1. ASSUME NEW c \in Client, ClientArrives(r, c) PROVE TypeOK'
  BY <1>1, RequestSetsOut DEF ClientArrives
<1>2. CASE Authenticate(r)
  BY <1>2, RequestAuthenticates DEF Authenticate
<1>3. ASSUME NEW s \in Sub, CreateSubscription(r, s) PROVE TypeOK'
  <2>1. req[r].client \in Client \cup {None}
    BY DEF RequestsOK, RequestState
  <2> QED
    BY <1>3, <2>1, RequestEnds DEF CreateSubscription
<1>4. ASSUME NEW s \in Sub, DeleteSubscription(r, s) PROVE TypeOK'
  BY <1>4, RequestEnds DEF DeleteSubscription
<1> QED
  BY <1>1, <1>2, <1>3, <1>4 DEF ClientAction

LEMMA TypesOfNext == TypeOK /\ [Next]_vars => TypeOK'
<1> SUFFICES ASSUME TypeOK, [Next]_vars PROVE TypeOK'
  OBVIOUS
<1> USE DEF TypeOK, admin, client, subscription, history
<1>1. ASSUME NEW r \in Request, RequestFails(r) PROVE TypeOK'
  <2>1. req[r].secret \in 0..secrets
    BY DEF RequestsOK, RequestState
  <2>2. RequestsOK'
    BY <1>1, RequestEnds DEF RequestFails
  <2>3. {req[r].secret} \ {0} \subseteq 1..secrets
    BY <2>1
  <2>4. lost' \subseteq 1..secrets
    BY <1>1, <2>3 DEF RequestFails
  <2>5. faults' \in 0..MaxFaults
    BY <1>1 DEF RequestFails
  <2> QED
    BY <1>1, <2>2, <2>4, <2>5 DEF RequestFails
<1>2. ASSUME NEW b \in Browser, SessionEnds(b) PROVE TypeOK'
  BY <1>2 DEF SessionEnds, RequestsOK
<1>3. ASSUME NEW b \in Browser, NEW p \in Password, Login(b, p) PROVE TypeOK'
  BY <1>3 DEF Login, RequestsOK
<1>4. ASSUME NEW c \in Client, IssueToken(c) PROVE TypeOK'
  BY <1>4 DEF IssueToken, RequestsOK
<1>5. ASSUME NEW c \in Client, TokenExpires(c) PROVE TypeOK'
  BY <1>5 DEF TokenExpires, RequestsOK
<1>6. ASSUME NEW s \in Sub, DispatcherDrops(s) PROVE TypeOK'
  BY <1>6 DEF DispatcherDrops, RequestsOK
<1>7. CASE UNCHANGED vars
  BY <1>7 DEF vars, RequestsOK
<1> QED
  BY <1>1, <1>2, <1>3, <1>4, <1>5, <1>6, <1>7, TypesOfAdmin, TypesOfClient
  DEF Next

-----------------------------------------------------------------------------
(* The admin's session: only a setup that finds no admin document writes   *)
(* one, so the first document never changes.                               *)

LEMMA SessionStep ==
    TypeOK /\ SetupPasswordWorks /\ [Next]_vars => SetupPasswordWorks'
<1> SUFFICES ASSUME TypeOK, SetupPasswordWorks, [Next]_vars
             PROVE  SetupPasswordWorks'
  OBVIOUS
<1> USE DEF SetupPasswordWorks
<1>1. CASE UNCHANGED admin
  BY <1>1 DEF admin
<1>2. ASSUME NEW r \in Request, InsertAdmin(r) PROVE SetupPasswordWorks'
  BY <1>2 DEF InsertAdmin, TypeOK, admin, RequestsOK, RequestState
<1>3. ASSUME NEW b \in Browser, SessionEnds(b) PROVE SetupPasswordWorks'
  BY <1>3 DEF SessionEnds, TypeOK
<1>4. ASSUME NEW b \in Browser, NEW p \in Password, Login(b, p)
      PROVE  SetupPasswordWorks'
  BY <1>4 DEF Login, TypeOK
<1> QED
  BY <1>1, <1>2, <1>3, <1>4
  DEF Next, vars, AdminAction, ClientAction, AdminArrives, StartSetup,
      AddClient, DeleteClient, RevokeClient, ReissueClient, ShowPage,
      AdminCancelSubscription, ClientArrives, Authenticate,
      CreateSubscription, DeleteSubscription, RequestFails, IssueToken,
      TokenExpires, DispatcherDrops

-----------------------------------------------------------------------------
(* Secrets.                                                                *)

\* Where a secret can be: what a step must not lose sight of.
Carries(r, s) == req[r].step = "show" /\ req[r].secret = s

Held(s) == s \in shown \cup lost \/ \E r \in Request : Carries(r, s)

\* A secret that is held stays held: it leaves the request that carries it
\* only for the page or for the record of what was lost.
LEMMA HeldStays ==
    ASSUME TypeOK, [Next]_vars, NEW s \in 1..secrets, Held(s)
    PROVE  Held(s)'
<1> USE DEF Held, Carries
<1>1. CASE UNCHANGED <<req, shown, lost>>
  BY <1>1
<1>2. ASSUME NEW r \in Request, ShowPage(r) PROVE Held(s)'
  BY <1>2 DEF ShowPage, Ends, TypeOK, RequestsOK
<1>3. ASSUME NEW r \in Request, RequestFails(r) PROVE Held(s)'
  BY <1>3 DEF RequestFails, Ends, TypeOK, RequestsOK
<1>4. ASSUME NEW r \in Request, req[r].step # "show",
             \A x \in Request \ {r} : req'[x] = req[x],
             UNCHANGED <<shown, lost>>
      PROVE  Held(s)'
  BY <1>4
<1>5. ASSUME NEW r \in Request, AdminAction(r) PROVE Held(s)'
  <2> USE DEF TypeOK, RequestsOK, history, Idle, Ends, ToPage
  <2>1. ASSUME NEW b \in Browser, AdminArrives(r, b) PROVE Held(s)'
    BY <2>1, <1>4 DEF AdminArrives
  <2>2. ASSUME NEW b \in Browser, NEW p \in Password, StartSetup(r, b, p)
        PROVE  Held(s)'
    BY <2>2, <1>4 DEF StartSetup
  <2>3. CASE InsertAdmin(r)
    BY <2>3, <1>4 DEF InsertAdmin
  <2>4. ASSUME NEW c \in Client,
               \/ AddClient(r, c)
               \/ DeleteClient(r, c)
               \/ RevokeClient(r, c)
               \/ ReissueClient(r, c)
        PROVE  Held(s)'
    BY <2>4, <1>4 DEF AddClient, DeleteClient, RevokeClient, ReissueClient
  <2>5. ASSUME NEW x \in Sub, AdminCancelSubscription(r, x) PROVE Held(s)'
    BY <2>5, <1>4 DEF AdminCancelSubscription
  <2> QED
    BY <1>5, <1>2, <2>1, <2>2, <2>3, <2>4, <2>5 DEF AdminAction
<1>6. ASSUME NEW r \in Request, ClientAction(r) PROVE Held(s)'
  <2> USE DEF TypeOK, RequestsOK, history, Idle, Ends
  <2>1. ASSUME NEW c \in Client, ClientArrives(r, c) PROVE Held(s)'
    BY <2>1, <1>4 DEF ClientArrives
  <2>2. CASE Authenticate(r)
    BY <2>2, <1>4 DEF Authenticate
  <2>3. ASSUME NEW x \in Sub,
               CreateSubscription(r, x) \/ DeleteSubscription(r, x)
        PROVE  Held(s)'
    BY <2>3, <1>4 DEF CreateSubscription, DeleteSubscription
  <2> QED
    BY <1>6, <2>1, <2>2, <2>3 DEF ClientAction
<1> QED
  BY <1>1, <1>3, <1>5, <1>6
  DEF Next, vars, history, SessionEnds, Login, IssueToken, TokenExpires,
      DispatcherDrops

\* A client that is active after a step was active before it with the same
\* secret, or the step gave it a secret that its request carries.
LEMMA ActiveStep ==
    ASSUME TypeOK, [Next]_vars, NEW c \in Client, status'[c] = "active"
    PROVE  \/ status[c] = "active" /\ secret_hash'[c] = secret_hash[c]
           \/ Held(secret_hash[c])'
<1> USE DEF TypeOK, RequestsOK, Held, Carries
<1>1. CASE UNCHANGED <<status, secret_hash>>
  BY <1>1
<1>2. ASSUME NEW r \in Request, NEW x \in Client, AddClient(r, x)
      PROVE  \/ status[c] = "active" /\ secret_hash'[c] = secret_hash[c]
             \/ Held(secret_hash[c])'
  BY <1>2 DEF AddClient, ToPage, Idle
<1>3. ASSUME NEW r \in Request, NEW x \in Client, ReissueClient(r, x)
      PROVE  \/ status[c] = "active" /\ secret_hash'[c] = secret_hash[c]
             \/ Held(secret_hash[c])'
  <2>1. CASE x = c /\ status[c] = "active"
    <3>1. /\ secret_hash' = [secret_hash EXCEPT ![c] = secrets']
          /\ ToPage(r, secrets')
      BY <1>3, <2>1 DEF ReissueClient
    <3>2. secret_hash'[c] = secrets'
      BY <3>1
    <3>3. req'[r].step = "show" /\ req'[r].secret = secrets'
      BY <3>1 DEF ToPage, Idle
    <3> QED
      BY <3>2, <3>3
  <2>2. CASE ~(x = c /\ status[c] = "active")
    BY <1>3, <2>2 DEF ReissueClient
  <2> QED
    BY <2>1, <2>2
<1>4. ASSUME NEW r \in Request, NEW x \in Client,
             DeleteClient(r, x) \/ RevokeClient(r, x)
      PROVE  status[c] = "active" /\ secret_hash'[c] = secret_hash[c]
  BY <1>4 DEF DeleteClient, RevokeClient
<1> QED
  BY <1>1, <1>2, <1>3, <1>4
  DEF Next, vars, client, AdminAction, ClientAction, AdminArrives, StartSetup,
      InsertAdmin, ShowPage, AdminCancelSubscription, ClientArrives,
      Authenticate, CreateSubscription, DeleteSubscription, RequestFails,
      SessionEnds, Login, IssueToken, TokenExpires, DispatcherDrops

LEMMA SecretStep == TypeOK /\ SecretIsHeld /\ [Next]_vars => SecretIsHeld'
<1> SUFFICES ASSUME TypeOK, SecretIsHeld, [Next]_vars,
                    NEW c \in Client, status'[c] = "active"
             PROVE  Held(secret_hash[c])'
  BY DEF SecretIsHeld, Held, Carries
<1>1. CASE status[c] = "active" /\ secret_hash'[c] = secret_hash[c]
  <2>1. Held(secret_hash[c])
    BY <1>1 DEF SecretIsHeld, Held, Carries
  <2>2. secret_hash[c] \in 1..secrets
    BY <1>1 DEF TypeOK
  <2> QED
    <3>1. \A s \in 1..secrets : Held(s) => Held(s)'
      BY HeldStays
    <3> QED
      BY <1>1, <2>1, <2>2, <3>1 DEF Held, Carries
<1> QED
  BY <1>1, ActiveStep

-----------------------------------------------------------------------------
(* Requests of clients.                                                    *)

\* No step makes a client active that was revoked or deleted, or gives it
\* another secret.
LEMMA RevokedStep ==
    ASSUME TypeOK, [Next]_vars, NEW c \in Client,
           status[c] \in {"revoked", "deleted"}
    PROVE  /\ status'[c] \in {status[c], "deleted"}
           /\ secret_hash'[c] = secret_hash[c]
<1> USE DEF TypeOK
<1>1. CASE UNCHANGED <<status, secret_hash>>
  BY <1>1
<1>2. ASSUME NEW r \in Request, NEW x \in Client,
             \/ AddClient(r, x)
             \/ DeleteClient(r, x)
             \/ RevokeClient(r, x)
             \/ ReissueClient(r, x)
      PROVE  /\ status'[c] \in {status[c], "deleted"}
             /\ secret_hash'[c] = secret_hash[c]
  BY <1>2 DEF AddClient, DeleteClient, RevokeClient, ReissueClient
<1> QED
  BY <1>1, <1>2
  DEF Next, vars, client, AdminAction, ClientAction, AdminArrives, StartSetup,
      InsertAdmin, ShowPage, AdminCancelSubscription, ClientArrives,
      Authenticate, CreateSubscription, DeleteSubscription, RequestFails,
      SessionEnds, Login, IssueToken, TokenExpires, DispatcherDrops

\* A step that brings a request to "authenticate" is its arrival, with a token
\* that only a client that once was active has.
LEMMA Arrival ==
    ASSUME TypeOK, [Next]_vars, NEW x \in Request,
           req'[x].step \in {"authenticate", "client"}
    PROVE  \/ req'[x] = req[x]
           \/ \E c \in Client : ClientArrives(x, c)
           \/ /\ Authenticate(x)
              /\ status[req[x].client] = "active"
              /\ req' = [req EXCEPT ![x].step = "client"]
<1> DEFINE Other(r) == /\ \A y \in Request \ {r} : req'[y] = req[y]
                       /\ req'[r].step \notin {"authenticate", "client"}
<1> USE DEF TypeOK, RequestsOK
<1>1. ASSUME NEW r \in Request, AdminAction(r) PROVE Other(r)
  <2> USE DEF Ends, ToPage, Idle
  <2>1. ASSUME NEW b \in Browser, AdminArrives(r, b) PROVE Other(r)
    BY <2>1 DEF AdminArrives
  <2>2. ASSUME NEW b \in Browser, NEW p \in Password, StartSetup(r, b, p)
        PROVE  Other(r)
    BY <2>2 DEF StartSetup
  <2>3. CASE InsertAdmin(r) \/ ShowPage(r)
    BY <2>3 DEF InsertAdmin, ShowPage
  <2>4. ASSUME NEW c \in Client, DeleteClient(r, c) \/ RevokeClient(r, c)
        PROVE  Other(r)
    BY <2>4 DEF DeleteClient, RevokeClient
  <2>5. ASSUME NEW c \in Client, AddClient(r, c) PROVE Other(r)
    BY <2>5 DEF AddClient
  <2>6. ASSUME NEW c \in Client, ReissueClient(r, c) PROVE Other(r)
    <3>1. ToPage(r, secrets') \/ ToPage(r, 0)
      BY <2>6 DEF ReissueClient
    <3>2. ASSUME NEW n, ToPage(r, n) PROVE Other(r)
      BY <3>2
    <3> QED
      BY <3>1, <3>2
  <2>7. ASSUME NEW s \in Sub, AdminCancelSubscription(r, s) PROVE Other(r)
    BY <2>7 DEF AdminCancelSubscription
  <2> QED
    BY <1>1, <2>1, <2>2, <2>3, <2>4, <2>5, <2>6, <2>7 DEF AdminAction
<1>2. ASSUME NEW r \in Request, NEW s \in Sub,
             CreateSubscription(r, s) \/ DeleteSubscription(r, s)
      PROVE  Other(r)
  BY <1>2 DEF CreateSubscription, DeleteSubscription, Ends, Idle
<1>3. ASSUME NEW r \in Request, RequestFails(r) PROVE Other(r)
  BY <1>3 DEF RequestFails, Ends, Idle
<1>4. ASSUME NEW r \in Request, NEW c \in Client, ClientArrives(r, c),
             r # x
      PROVE  req'[x] = req[x]
  BY <1>4 DEF ClientArrives
<1>5. ASSUME NEW r \in Request, Authenticate(r)
      PROVE  \/ req'[x] = req[x]
             \/ /\ r = x
                /\ status[req[x].client] = "active"
                /\ req' = [req EXCEPT ![x].step = "client"]
  BY <1>5 DEF Authenticate, Authenticated, Ends, Idle
<1>6. CASE UNCHANGED req
  BY <1>6
<1> HIDE DEF Other
<1>7. ASSUME NEW r \in Request, Other(r) PROVE req'[x] = req[x]
  BY <1>7 DEF Other
<1>8. ASSUME NEW r \in Request, ClientAction(r)
      PROVE  \/ req'[x] = req[x]
             \/ \E c \in Client : ClientArrives(x, c)
             \/ /\ Authenticate(x)
                /\ status[req[x].client] = "active"
                /\ req' = [req EXCEPT ![x].step = "client"]
  BY <1>8, <1>2, <1>4, <1>5, <1>7 DEF ClientAction
<1> QED
  BY <1>1, <1>3, <1>6, <1>7, <1>8
  DEF Next, vars, SessionEnds, Login, IssueToken, TokenExpires,
      DispatcherDrops

LEMMA RequestStep ==
    TypeOK /\ OnlyLiveRequestsAct /\ StaleRequestsFail /\ [Next]_vars
        => OnlyLiveRequestsAct' /\ StaleRequestsFail'
<1> SUFFICES ASSUME TypeOK, OnlyLiveRequestsAct, StaleRequestsFail,
                    [Next]_vars, NEW x \in Request
             PROVE  /\ req'[x].step = "client" => req'[x].live
                    /\ (req'[x].step = "authenticate" /\ ~req'[x].live) =>
                          status'[req'[x].client] \in {"revoked", "deleted"}
  BY DEF OnlyLiveRequestsAct, StaleRequestsFail
<1>1. CASE req'[x] = req[x]
  <2>1. req[x].step = "authenticate" => req[x].client \in Client
    BY DEF TypeOK, RequestsOK, RequestState
  <2>2. \A c \in Client : status[c] \in {"revoked", "deleted"} =>
                            status'[c] \in {"revoked", "deleted"}
    BY RevokedStep
  <2> QED
    BY <1>1, <2>1, <2>2 DEF OnlyLiveRequestsAct, StaleRequestsFail
<1>2. ASSUME NEW c \in Client, ClientArrives(x, c)
      PROVE  /\ req'[x].step = "authenticate" /\ req'[x].client = c
             /\ req'[x].live <=> status[c] = "active"
             /\ status' = status /\ status[c] # "unborn"
  BY <1>2 DEF ClientArrives, TypeOK, RequestsOK, client
<1>3. ASSUME NEW c \in Client, ClientArrives(x, c)
      PROVE  ~req'[x].live =>
                status'[req'[x].client] \in {"revoked", "deleted"}
  BY <1>2, <1>3 DEF TypeOK
<1>4. CASE /\ Authenticate(x)
           /\ status[req[x].client] = "active"
           /\ req' = [req EXCEPT ![x].step = "client"]
  <2>1. req'[x].step = "client" /\ req'[x].live = req[x].live
    BY <1>4 DEF TypeOK, RequestsOK, RequestState
  <2>2. req[x].live
    BY <1>4 DEF StaleRequestsFail, Authenticate
  <2> QED
    BY <2>1, <2>2
<1> QED
  BY <1>1, <1>2, <1>3, <1>4, Arrival

-----------------------------------------------------------------------------
(* The theorems.                                                           *)

THEOREM Inductive == Spec => []IndInv
<1>1. IndInv /\ [Next]_vars => IndInv'
  BY TypesOfNext, SessionStep, SecretStep, RequestStep DEF IndInv
<1> QED
  BY InitInv, <1>1, PTL DEF Spec

\* Every document, session and request has its type.
THEOREM TypeCorrect == Spec => []TypeOK
<1>1. IndInv => TypeOK
  BY DEF IndInv
<1> QED
  BY Inductive, <1>1, PTL

\* Of two setups that race, one succeeds: every session was earned with the
\* password that login asks for.
THEOREM SessionsKnowThePassword == Spec => []SetupPasswordWorks
<1>1. IndInv => SetupPasswordWorks
  BY DEF IndInv
<1> QED
  BY Inductive, <1>1, PTL

\* No interleaving of reissues and revocations leaves an active client with a
\* secret nobody has been shown or will be, but for a failed request.
THEOREM SecretsAreHeld == Spec => []SecretIsHeld
<1>1. IndInv => SecretIsHeld
  BY DEF IndInv
<1> QED
  BY Inductive, <1>1, PTL

\* A request that arrives after its client was revoked or deleted is refused.
THEOREM LateRequestsAreRefused == Spec => []OnlyLiveRequestsAct
<1>1. IndInv => OnlyLiveRequestsAct
  BY DEF IndInv
<1> QED
  BY Inductive, <1>1, PTL

\* A request that was already late when it came to authentication still finds
\* its client inactive: nothing that is under way can bring the client back.
THEOREM LateRequestsFail == Spec => []StaleRequestsFail
<1>1. IndInv => StaleRequestsFail
  BY DEF IndInv
<1> QED
  BY Inductive, <1>1, PTL

\* A revoked or deleted client stays so, with the secret it had.
THEOREM RevocationIsFinal == Spec => RevokedIsFinal
<1>1. IndInv /\ [Next]_vars =>
        \A c \in Client :
            status[c] \in {"revoked", "deleted"} =>
                /\ status'[c] \in {status[c], "deleted"}
                /\ secret_hash'[c] = secret_hash[c]
  BY RevokedStep DEF IndInv
<1> QED
  BY Inductive, <1>1, PTL DEF Spec, RevokedIsFinal

=============================================================================

------------------------------ MODULE Clients ------------------------------
(***************************************************************************)
(* API clients and their requests, in the API process.                     *)
(*                                                                         *)
(* An admin creates clients, gives them new secrets, revokes and deletes   *)
(* them; a client exchanges its secret for a token and calls the           *)
(* subscriptions API with it.  Every request is a coroutine: what it       *)
(* checked may have changed when it writes.                                *)
(*                                                                         *)
(* A secret is a number, fresh when it is generated, and stands for its    *)
(* hash.  A token is left out but for whether a client holds one that has  *)
(* not expired.  The webhook row that create_subscription makes first      *)
(* belongs to Dispatcher.  Pages and listings change nothing.              *)
(* Source: app/auth.py, app/security.py, app/admin.py,                     *)
(* app/subscriptions.py.                                                   *)
(***************************************************************************)
EXTENDS Naturals, Sequences

CONSTANTS
    Client,      \* client ids; random, so each one is created once
    Sub,         \* subscription ids; uuid4, so each one is created once
    Browser,     \* holders of an admin session cookie
    Password,    \* passwords that pass the complexity rules
    Request,     \* places for requests that run at the same time
    None,        \* Python's None
    MaxSecrets,  \* bound: how many secrets are generated
    MaxFaults    \* bound: how many requests fail half-way

ASSUME ClientsAssumption ==
    /\ None \notin Client \cup Browser \cup Password
    /\ MaxSecrets \in Nat
    /\ MaxFaults \in Nat

VARIABLES
    admins,       \* passwords of the admin documents, in insertion order
    sessions,     \* password with which a browser got its session, or None
    status,       \* status of a client's document, or why there is none
    secret_hash,  \* the secret its secret_hash was made from
    tokens,       \* clients that hold a token that has not expired
    subs,         \* owner of a stored subscription, or None
    unused,       \* subscription ids not generated yet
    req,          \* the running requests
    secrets,      \* number of secrets generated so far
    \* History:
    shown,        \* secrets an admin has been shown
    lost,         \* secrets whose request failed before it showed them
    faults        \* number of requests that failed half-way

admin == <<admins, sessions>>
client == <<status, secret_hash, tokens>>
subscription == <<subs, unused>>
history == <<shown, lost, faults>>
vars == <<admin, client, subscription, req, secrets, history>>

Step == {"idle",          \* no request
         "authenticate",  \* token decoded, client not yet looked up
         "client",        \* authenticated, nothing written yet
         "setup",         \* no admin found, none inserted yet
         "admin",         \* session checked, nothing written yet
         "show"}          \* written, page with the secret not yet sent

\* Whose a request is and what it holds; "live" is history: whether its client
\* was active when the request arrived.
RequestState ==
    [step : Step, client : Client \cup {None}, live : BOOLEAN,
     by : Browser \cup {None}, password : Password \cup {None},
     secret : 0..MaxSecrets]

Idle == [step |-> "idle", client |-> None, live |-> FALSE,
         by |-> None, password |-> None, secret |-> 0]

\* A request holds what its step needs, and nothing else.
RequestsOK ==
    /\ req \in [Request -> RequestState]
    /\ \A r \in Request :
          /\ req[r].secret <= secrets
          /\ req[r].step \in {"authenticate", "client"}
                 <=> req[r].client # None
          /\ req[r].step = "setup" <=> req[r].by # None
          /\ req[r].step = "setup" <=> req[r].password # None

TypeOK ==
    /\ admins \in Seq(Password)
    /\ sessions \in [Browser -> Password \cup {None}]
    /\ status \in [Client -> {"unborn", "active", "revoked", "deleted"}]
    /\ secret_hash \in [Client -> 0..secrets]
    /\ \A c \in Client : status[c] # "unborn" => secret_hash[c] # 0
    /\ tokens \subseteq {c \in Client : status[c] # "unborn"}
    /\ subs \in [Sub -> Client \cup {None}]
    /\ unused \subseteq {s \in Sub : subs[s] = None}
    /\ RequestsOK
    /\ secrets \in 0..MaxSecrets
    /\ shown \subseteq 1..secrets
    /\ lost \subseteq 1..secrets
    /\ faults \in 0..MaxFaults

Init ==
    /\ admins = <<>>
    /\ sessions = [b \in Browser |-> None]
    /\ status = [c \in Client |-> "unborn"]
    /\ secret_hash = [c \in Client |-> 0]
    /\ tokens = {}
    /\ subs = [s \in Sub |-> None]
    /\ unused = Sub
    /\ req = [r \in Request |-> Idle]
    /\ secrets = 0
    /\ shown = {}
    /\ lost = {}
    /\ faults = 0

\* The request is answered.
Ends(r) == req' = [req EXCEPT ![r] = Idle]

-----------------------------------------------------------------------------
(* The admin's account and session.                                        *)

\* _admin_exists finds nobody; with an admin there is only a redirect.
StartSetup(r, b, p) ==
    /\ req[r] = Idle
    /\ admins = <<>>
    /\ req' = [req EXCEPT ![r] = [Idle EXCEPT !.step = "setup", !.by = b,
                                              !.password = p]]
    /\ UNCHANGED <<admin, client, subscription, secrets, history>>

\* Mutated form of InsertAdmin: the index on username is not unique.
InsertAdmin_NoIndex(r) ==
    /\ req[r].step = "setup"
    /\ admins' = Append(admins, req[r].password)
    /\ sessions' = [sessions EXCEPT ![req[r].by] = req[r].password]
    /\ Ends(r)
    /\ UNCHANGED <<client, subscription, secrets, history>>

\* insert_one.  If another setup was faster, the unique index on username
\* makes it raise and the request ends without a session.
InsertAdmin(r) ==
    /\ req[r].step = "setup"
    /\ IF admins = <<>>
       THEN /\ admins' = <<req[r].password>>
            /\ sessions' = [sessions EXCEPT ![req[r].by] = req[r].password]
       ELSE UNCHANGED admin
    /\ Ends(r)
    /\ UNCHANGED <<client, subscription, secrets, history>>

\* find_one takes the first document; any other password is refused.
Login(b, p) ==
    /\ admins # <<>>
    /\ p = admins[1]
    /\ sessions' = [sessions EXCEPT ![b] = p]
    /\ UNCHANGED <<admins, client, subscription, req, secrets, history>>

\* Logout, or the end of admin_session_max_age.
SessionEnds(b) ==
    /\ sessions[b] # None
    /\ sessions' = [sessions EXCEPT ![b] = None]
    /\ UNCHANGED <<admins, client, subscription, req, secrets, history>>

-----------------------------------------------------------------------------
(* What an admin does to clients and subscriptions.                        *)

\* _is_logged_in.  There is no call that removes the admin document.
AdminArrives(r, b) ==
    /\ req[r] = Idle
    /\ sessions[b] # None
    /\ admins # <<>>
    /\ req' = [req EXCEPT ![r] = [Idle EXCEPT !.step = "admin"]]
    /\ UNCHANGED <<admin, client, subscription, secrets, history>>

\* The page with the list of clients comes after one more find.
ToPage(r, s) ==
    req' = [req EXCEPT ![r] = [Idle EXCEPT !.step = "show", !.secret = s]]

AddClient(r, c) ==
    /\ req[r].step = "admin"
    /\ status[c] = "unborn"
    /\ secrets < MaxSecrets
    /\ secrets' = secrets + 1
    /\ status' = [status EXCEPT ![c] = "active"]
    /\ secret_hash' = [secret_hash EXCEPT ![c] = secrets']
    /\ ToPage(r, secrets')
    /\ UNCHANGED <<admin, tokens, subscription, history>>

\* delete_one.  Tokens and subscriptions of the client stay.
DeleteClient(r, c) ==
    /\ req[r].step = "admin"
    /\ status' = [status EXCEPT ![c] =
                    IF @ = "unborn" THEN @ ELSE "deleted"]
    /\ Ends(r)
    /\ UNCHANGED <<admin, secret_hash, tokens, subscription, secrets, history>>

RevokeClient(r, c) ==
    /\ req[r].step = "admin"
    /\ status' = [status EXCEPT ![c] = IF @ = "active" THEN "revoked" ELSE @]
    /\ Ends(r)
    /\ UNCHANGED <<admin, secret_hash, tokens, subscription, secrets, history>>

\* Mutated form of ReissueClient: the update is by client_id alone and sets
\* the status as well.
ReissueClient_AnyStatus(r, c) ==
    /\ req[r].step = "admin"
    /\ secrets < MaxSecrets
    /\ secrets' = secrets + 1
    /\ IF status[c] \in {"active", "revoked"}
       THEN /\ status' = [status EXCEPT ![c] = "active"]
            /\ secret_hash' = [secret_hash EXCEPT ![c] = secrets']
            /\ ToPage(r, secrets')
       ELSE UNCHANGED <<status, secret_hash>> /\ ToPage(r, 0)
    /\ UNCHANGED <<admin, tokens, subscription, history>>

\* Mutated form of ReissueClient: the page shows the secret only if nothing
\* was modified.
ReissueClient_ShowsIfNot(r, c) ==
    /\ req[r].step = "admin"
    /\ secrets < MaxSecrets
    /\ secrets' = secrets + 1
    /\ IF status[c] = "active"
       THEN /\ secret_hash' = [secret_hash EXCEPT ![c] = secrets']
            /\ ToPage(r, 0)
       ELSE UNCHANGED secret_hash /\ ToPage(r, secrets')
    /\ UNCHANGED <<admin, status, tokens, subscription, history>>

\* The update asks for status active; the page shows the secret only if a
\* document was modified.
ReissueClient(r, c) ==
    /\ req[r].step = "admin"
    /\ secrets < MaxSecrets
    /\ secrets' = secrets + 1
    /\ IF status[c] = "active"
       THEN /\ secret_hash' = [secret_hash EXCEPT ![c] = secrets']
            /\ ToPage(r, secrets')
       ELSE UNCHANGED secret_hash /\ ToPage(r, 0)
    /\ UNCHANGED <<admin, status, tokens, subscription, history>>

\* find, then the page: new_secret is shown this once.
ShowPage(r) ==
    /\ req[r].step = "show"
    /\ shown' = shown \cup ({req[r].secret} \ {0})
    /\ Ends(r)
    /\ UNCHANGED <<admin, client, subscription, secrets, lost, faults>>

AdminCancelSubscription(r, s) ==
    /\ req[r].step = "admin"
    /\ subs' = [subs EXCEPT ![s] = None]
    /\ Ends(r)
    /\ UNCHANGED <<admin, client, unused, secrets, history>>

-----------------------------------------------------------------------------
(* Clients: tokens and the subscriptions API.                              *)

\* authenticate_client_credentials, create_token.  A client knows a secret
\* when an admin was shown it; a superseded one no longer matches the hash.
IssueToken(c) ==
    /\ status[c] = "active"
    /\ secret_hash[c] \in shown
    /\ tokens' = tokens \cup {c}
    /\ UNCHANGED <<admin, status, secret_hash, subscription, req, secrets,
                   history>>

\* jwt_expiry_hours later decode_token refuses the token.
TokenExpires(c) ==
    /\ c \in tokens
    /\ tokens' = tokens \ {c}
    /\ UNCHANGED <<admin, status, secret_hash, subscription, req, secrets,
                   history>>

\* get_current_client up to its find: the token is decoded.
ClientArrives(r, c) ==
    /\ req[r] = Idle
    /\ c \in tokens
    /\ req' = [req EXCEPT ![r] =
                 [step |-> "authenticate", client |-> c,
                  live |-> status[c] = "active",
                  by |-> None, password |-> None, secret |-> 0]]
    /\ UNCHANGED <<admin, client, subscription, secrets, history>>

\* Mutated form of Authenticated: the find does not ask for the status.
Authenticated_AnyStatus(c) == status[c] \in {"active", "revoked"}

\* find_one({"client_id": ..., "status": "active"}) finds the client.
Authenticated(c) == status[c] = "active"

\* Otherwise the answer is 401.
Authenticate(r) ==
    /\ req[r].step = "authenticate"
    /\ IF Authenticated(req[r].client)
       THEN req' = [req EXCEPT ![r].step = "client"]
       ELSE Ends(r)
    /\ UNCHANGED <<admin, client, subscription, secrets, history>>

CreateSubscription(r, s) ==
    /\ req[r].step = "client"
    /\ s \in unused
    /\ subs' = [subs EXCEPT ![s] = req[r].client]
    /\ unused' = unused \ {s}
    /\ Ends(r)
    /\ UNCHANGED <<admin, client, secrets, history>>

\* delete_one asks for the client_id too; otherwise the answer is 404.
DeleteSubscription(r, s) ==
    /\ req[r].step = "client"
    /\ subs' = [subs EXCEPT ![s] = IF @ = req[r].client THEN None ELSE @]
    /\ Ends(r)
    /\ UNCHANGED <<admin, client, unused, secrets, history>>

-----------------------------------------------------------------------------
(* The rest of the system.                                                 *)

\* The dispatcher process removes a subscription.
DispatcherDrops(s) ==
    /\ subs[s] # None
    /\ subs' = [subs EXCEPT ![s] = None]
    /\ UNCHANGED <<admin, client, unused, req, secrets, history>>

\* A call of a request raises, or the process stops: what was written stays,
\* and a secret that was not yet shown is known to nobody.
RequestFails(r) ==
    /\ req[r] # Idle
    /\ faults < MaxFaults
    /\ faults' = faults + 1
    /\ lost' = lost \cup ({req[r].secret} \ {0})
    /\ Ends(r)
    /\ UNCHANGED <<admin, client, subscription, secrets, shown>>

AdminAction(r) ==
    \/ \E b \in Browser : \/ AdminArrives(r, b)
                          \/ \E p \in Password : StartSetup(r, b, p)
    \/ InsertAdmin(r)
    \/ \E c \in Client : \/ AddClient(r, c)
                         \/ DeleteClient(r, c)
                         \/ RevokeClient(r, c)
                         \/ ReissueClient(r, c)
    \/ ShowPage(r)
    \/ \E s \in Sub : AdminCancelSubscription(r, s)

ClientAction(r) ==
    \/ \E c \in Client : ClientArrives(r, c)
    \/ Authenticate(r)
    \/ \E s \in Sub : CreateSubscription(r, s) \/ DeleteSubscription(r, s)

Next ==
    \/ \E r \in Request : AdminAction(r) \/ ClientAction(r) \/ RequestFails(r)
    \/ \E b \in Browser : \/ SessionEnds(b)
                          \/ \E p \in Password : Login(b, p)
    \/ \E c \in Client : IssueToken(c) \/ TokenExpires(c)
    \/ \E s \in Sub : DispatcherDrops(s)

Spec == Init /\ [][Next]_vars

-----------------------------------------------------------------------------
(* Properties.                                                             *)

\* Whoever holds an admin session got it with the password that login asks
\* for: two setups that run at the same time (admin.py:86-122) do not both
\* succeed, and the one that fails leaves no session.
SetupPasswordWorks ==
    \A b \in Browser :
        sessions[b] # None => admins # <<>> /\ sessions[b] = admins[1]

\* The secret behind the hash of an active client has been shown to an admin
\* or is about to be, unless its request failed: two admins who reissue at the
\* same time, or reissue while another revokes (admin.py:267-293), never leave
\* a client with a secret nobody has.
SecretIsHeld ==
    \A c \in Client :
        status[c] = "active" =>
            \/ secret_hash[c] \in shown \cup lost
            \/ \E r \in Request : /\ req[r].step = "show"
                                  /\ req[r].secret = secret_hash[c]

\* A request that is past authentication (auth.py:78) arrived when its client
\* was active: a revocation or deletion stops every request that arrives after
\* it, and only those that were running go on.
OnlyLiveRequestsAct ==
    \A r \in Request : req[r].step = "client" => req[r].live

\* Revocation is final: no reissue that was under way (admin.py:274) makes a
\* revoked or deleted client active again or gives it another secret.
RevokedIsFinal ==
    [][\A c \in Client :
        status[c] \in {"revoked", "deleted"} =>
            /\ status'[c] \in {status[c], "deleted"}
            /\ secret_hash'[c] = secret_hash[c]]_vars

\* Strengthening: a request on its way whose client was not active when it
\* arrived finds no active client, since no client becomes active again.
StaleRequestsFail ==
    \A r \in Request :
        (req[r].step = "authenticate" /\ ~req[r].live) =>
            status[req[r].client] \in {"revoked", "deleted"}

IndInv ==
    /\ TypeOK
    /\ SetupPasswordWorks
    /\ SecretIsHeld
    /\ OnlyLiveRequestsAct
    /\ StaleRequestsFail

=============================================================================

---------------------------- MODULE AuthManager -----------------------------
(***************************************************************************)
(* The API key, the authentication of WebSocket connections and the rate   *)
(* limit of failed attempts: AuthManager and the authentication gate of    *)
(* WebSocketServer::onMessage.  All of it runs on the WebSocket thread, so *)
(* a message is handled in one step; time passes between messages.         *)
(*                                                                         *)
(* A rate limit entry is kept under the string that websocketpp gives for  *)
(* the remote endpoint of the connection: address and port.  Open          *)
(* connections never share one, a later connection may have it again, and  *)
(* whoever reconnects has another port.  So the limit is one of each       *)
(* connection, not of each address.  Instead of absolute times the model   *)
(* keeps ages in seconds; no code distinguishes ages beyond Cleanup.       *)
(* lockoutUntil is Lockout after the last attempt whenever failedAttempts  *)
(* has reached MaxFailed.                                                  *)
(***************************************************************************)
EXTENDS Integers

CONSTANTS
    Conns,      \* connection handles
    Endpoints,  \* remote endpoints, address and port
    Keys,       \* the keys clients present or set
    NoKey,      \* the empty hash: open mode
    NoConn,     \* no connection
    MaxFailed,  \* MAX_FAILED_ATTEMPTS
    Lockout,    \* LOCKOUT_SECONDS
    Cleanup     \* RATE_LIMIT_CLEANUP_SECONDS

ASSUME AuthAssumption ==
    /\ NoKey \notin Keys
    /\ NoConn \notin Conns
    /\ MaxFailed \in Nat \ {0}
    /\ Lockout \in Nat \ {0}
    /\ Cleanup \in Nat
    /\ Lockout <= Cleanup

VARIABLES
    keyHash,  \* m_keyHash
    conns,    \* m_connections: handle -> [open, at, authenticated]
    limits,   \* m_rateLimits: endpoint -> [failed, age of lastAttempt]
    recent,   \* history: ages of the last MaxFailed failures of an endpoint
    setter    \* history: the connection that set the key in force

vars == <<keyHash, conns, limits, recent, setter>>

Ranks == 1..MaxFailed
Ages == 0..(Cleanup + 1)

Closed(c) == [conns EXCEPT ![c].open = FALSE, ![c].authenticated = FALSE]
NoLimit == [failed |-> 0, age |-> 0]
NoFailures == [i \in Ranks |-> Lockout]

Init ==
    /\ keyHash \in Keys \cup {NoKey}
    /\ conns \in [Conns -> [open : {FALSE}, at : Endpoints, authenticated : {FALSE}]]
    /\ limits = [e \in Endpoints |-> NoLimit]
    /\ recent = [e \in Endpoints |-> NoFailures]
    /\ setter = NoConn

OpenMode == keyHash = NoKey
Authenticated(c) == conns[c].open /\ conns[c].authenticated

\* The gate: what a connection must be to have its command executed.
Admitted(c) == conns[c].open /\ (OpenMode \/ conns[c].authenticated)
-----------------------------------------------------------------------------
OnOpen(c, e) ==
    /\ ~conns[c].open
    /\ \A d \in Conns : conns[d].open => conns[d].at # e
    /\ conns' = [conns EXCEPT ![c] = [open |-> TRUE, at |-> e, authenticated |-> FALSE]]
    /\ UNCHANGED <<keyHash, limits, recent, setter>>

OnClose(c) ==
    /\ conns[c].open
    /\ conns' = Closed(c)
    /\ setter' = IF setter = c THEN NoConn ELSE setter
    /\ UNCHANGED <<keyHash, limits, recent>>

\* isRateLimited drops the entry of an endpoint that was quiet for long.
Entry(e) == IF limits[e].age > Cleanup THEN NoLimit ELSE limits[e]

\* Mutant: one attempt too many.
LimitedOffByOne(e) == Entry(e).failed > MaxFailed /\ Entry(e).age < Lockout

Limited(e) == Entry(e).failed >= MaxFailed /\ Entry(e).age < Lockout

\* tryAuthenticate with the right key.
Accept(c) ==
    LET e == conns[c].at IN
    /\ conns' = [conns EXCEPT ![c].authenticated = TRUE]
    /\ limits' = [limits EXCEPT ![e] = NoLimit]
    /\ recent' = [recent EXCEPT ![e] = NoFailures]

\* The newest failure comes first.
Struck(ages) == [i \in Ranks |-> IF i = 1 THEN 0 ELSE ages[i - 1]]

\* Mutant: a failure is counted where it is checked and where it is recorded.
RejectTwice(c) ==
    LET e == conns[c].at IN
    /\ limits' = [limits EXCEPT ![e] =
           [failed |-> IF Entry(e).failed < MaxFailed THEN Entry(e).failed + 2 ELSE MaxFailed,
            age |-> 0]]
    /\ recent' = [recent EXCEPT ![e] = Struck(@)]
    /\ UNCHANGED conns

\* tryAuthenticate with a wrong key.  The counter only ever meets MaxFailed,
\* and stays there in the model.
Reject(c) ==
    LET e == conns[c].at IN
    /\ limits' = [limits EXCEPT ![e] =
           [failed |-> IF Entry(e).failed < MaxFailed THEN Entry(e).failed + 1 ELSE MaxFailed,
            age |-> 0]]
    /\ recent' = [recent EXCEPT ![e] = Struck(@)]
    /\ UNCHANGED conns

\* Mutant: an attempt during the lockout counts as a failure.
AuthenticateExtends(c, k) ==
    /\ conns[c].open /\ ~OpenMode
    /\ IF k = keyHash /\ ~Limited(conns[c].at) THEN Accept(c) ELSE Reject(c)
    /\ UNCHANGED <<keyHash, setter>>

\* authenticate; in open mode it is no command.
Authenticate(c, k) ==
    /\ conns[c].open /\ ~OpenMode
    /\ IF Limited(conns[c].at)
       THEN UNCHANGED <<conns, limits, recent>>
       ELSE IF k = keyHash THEN Accept(c) ELSE Reject(c)
    /\ UNCHANGED <<keyHash, setter>>

\* Mutant: wasOpenMode is read after the key was set.
SetAuthKeyLateCheck(c, k) ==
    /\ Admitted(c)
    /\ keyHash' = k
    /\ conns' = [conns EXCEPT ![c].authenticated = @ \/ keyHash' = NoKey]
    /\ setter' = c
    /\ UNCHANGED <<limits, recent>>

\* set_auth_key with a key that is long enough.
SetAuthKey(c, k) ==
    /\ Admitted(c)
    /\ keyHash' = k
    /\ conns' = IF OpenMode THEN [conns EXCEPT ![c].authenticated = TRUE] ELSE conns
    /\ setter' = c
    /\ UNCHANGED <<limits, recent>>

ClearAuthKey(c) ==
    /\ Admitted(c)
    /\ keyHash' = NoKey
    /\ setter' = NoConn
    /\ UNCHANGED <<conns, limits, recent>>

\* A second passes.
Older(age, last) == IF age < last THEN age + 1 ELSE last

Tick ==
    /\ limits' = [e \in Endpoints |->
           IF limits[e].failed = 0 THEN NoLimit
           ELSE [limits[e] EXCEPT !.age = Older(@, Cleanup + 1)]]
    /\ recent' = [e \in Endpoints |-> [i \in Ranks |-> Older(recent[e][i], Lockout)]]
    /\ UNCHANGED <<keyHash, conns, setter>>

Next ==
    \/ \E c \in Conns, e \in Endpoints : OnOpen(c, e)
    \/ \E c \in Conns : OnClose(c)
    \/ \E c \in Conns, k \in Keys : Authenticate(c, k)
    \/ \E c \in Conns, k \in Keys : SetAuthKey(c, k)
    \/ \E c \in Conns : ClearAuthKey(c)
    \/ Tick

Spec == Init /\ [][Next]_vars

\* Time passes whatever the clients do.
FairSpec == Spec /\ WF_vars(Tick)
-----------------------------------------------------------------------------
TypeOK ==
    /\ keyHash \in Keys \cup {NoKey}
    /\ conns \in [Conns -> [open : BOOLEAN, at : Endpoints, authenticated : BOOLEAN]]
    /\ limits \in [Endpoints -> [failed : 0..MaxFailed, age : Ages]]
    /\ recent \in [Endpoints -> [Ranks -> 0..Lockout]]
    /\ setter \in Conns \cup {NoConn}

\* Five consecutive failures lock an endpoint for 60 seconds: an attempt is
\* examined only if, since the last success of its endpoint, fewer than
\* MaxFailed of its attempts failed within the last Lockout seconds.  This is
\* the limit the code keeps, one of each connection; the one of each address
\* that WEBSOCKET-API.md:151 promises it does not keep.
FailuresPerLockout == \A e \in Endpoints : ~Limited(e) => recent[e][MaxFailed] = Lockout

\* Whoever set the key in force is not locked out by it, even when the device
\* was in open mode and the connection had never authenticated.
SetterKeepsAccess == setter # NoConn => Authenticated(setter)

\* Once authenticated, commands are accepted for the duration of the
\* connection, whatever the other connections do to the key.
AuthenticationLasts ==
    [][\A c \in Conns : Authenticated(c) /\ conns'[c].open => conns'[c].authenticated]_conns

\* A lockout ends although the client keeps sending attempts during it.
LockoutEnds == \A e \in Endpoints : Limited(e) ~> ~Limited(e)
=============================================================================

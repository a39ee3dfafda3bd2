------------------------------ MODULE StartHost -----------------------------
(***************************************************************************)
(* A head from its launch to a running agent: configuration (HeadConfig),  *)
(* identity, connect options, and the NATS connection with its             *)
(* authentication (NatsAuth).  start_host and AgentHost::start in the      *)
(* Windows head, main and AgentHost::start in the console head, and the    *)
(* device-code sign-in of identity.rs.                                     *)
(*                                                                         *)
(* Time matters to the sign-in alone: "left" is what remains until its     *)
(* deadline, in seconds, 0 from then on.                                   *)
(***************************************************************************)
EXTENDS HeadConfig, NatsAuth

CONSTANTS Launches,    \* environment, settings file and account to start with
          Intervals,   \* what the device-code endpoint may ask for as interval
          Lifetimes,   \* ... and as expires_in
          Delays,      \* how long a poll may take to be answered
          MaxInterval  \* bound: where saturating_add saturates, u64::MAX in the code

ASSUME UsernamesAssumption ==
    \A launch \in Launches :
        launch.head = "windows" => launch.username \in Seq(Alphabet)

ASSUME TimesAssumption ==
    /\ Intervals \subseteq 0..MaxInterval
    /\ Lifetimes \subseteq Nat
    /\ Delays \subseteq Nat
    /\ MaxInterval \in Nat \ {0}

VARIABLES
    phase,           \* where the start is
    config,          \* what the head hands to AgentHost::start
    user_id,         \* the identity's user id, once there is one
    left,            \* time until the deadline of the sign-in
    poll_interval

startVars == <<phase, config, user_id, left, poll_interval>>
vars == <<startVars, authVars>>

Init ==
    /\ phase = "launched"
    /\ config = None
    /\ user_id = None
    /\ left = 0
    /\ poll_interval = 1
    /\ AuthInit

Cfg == CHOOSE c \in config : TRUE

Goto(p) ==
    /\ phase' = p
    /\ UNCHANGED <<config, user_id, left, poll_interval, authVars>>

-----------------------------------------------------------------------------
(* Everything up to the identity.                                          *)
Configure(launch) ==
    /\ phase = "launched"
    /\ config' = Some(Config(launch))
    /\ phase' = IF Config(launch).valid THEN "identity" ELSE "failed"
    /\ UNCHANGED <<user_id, left, poll_interval, authVars>>

(* WindowsUsernameIdentity and EnvIdentity.                                *)
UserId ==
    IF Cfg.identity = "env"
    THEN {user_id_from_env(v) : v \in Cfg.user}
    ELSE {user_id_from_username(raw) : raw \in {u \in Cfg.user : normalized(u) # <<>>}}

ResolveUser ==
    /\ phase = "identity"
    /\ Cfg.identity # "device-code"
    /\ user_id' = UserId
    /\ phase' = IF UserId = None THEN "failed" ELSE "options"
    /\ UNCHANGED <<config, left, poll_interval, authVars>>

(* The device-id file, the auth provider's client, GetUserNameW, or the    *)
(* device-code endpoint, also by a lifetime no Instant can hold, which     *)
(* panics where the deadline is computed.                                  *)
IdentityFails ==
    /\ phase = "identity"
    /\ Cfg.identity # "env"
    /\ Goto("failed")

-----------------------------------------------------------------------------
(* DeviceCodeIdentity::identity *)

Minus(a, b) == IF a > b THEN a - b ELSE 0

\* Mutated form of RequestDeviceCode: the interval is taken as it comes.
RequestDeviceCodeAnyInterval(interval, expires_in) ==
    /\ phase = "identity"
    /\ Cfg.identity = "device-code"
    /\ phase' = "polling"
    /\ left' = expires_in
    /\ poll_interval' = interval
    /\ UNCHANGED <<config, user_id, authVars>>

(* The code is shown in a toast, best effort, and the deadline is set.     *)
RequestDeviceCode(interval, expires_in) ==
    /\ phase = "identity"
    /\ Cfg.identity = "device-code"
    /\ phase' = "polling"
    /\ left' = expires_in
    /\ poll_interval' = Max({interval, 1})
    /\ UNCHANGED <<config, user_id, authVars>>

\* Mutated form of DeadlineReached: polling goes on.
DeadlineIgnored == FALSE

(* The deadline is looked at between polls only.                           *)
DeadlineReached == left = 0

SignInTimesOut ==
    /\ phase = "polling"
    /\ DeadlineReached
    /\ Goto("failed")

(* sleep, then the poll is sent.  Its client has no timeout.               *)
Poll ==
    /\ phase = "polling"
    /\ ~DeadlineReached
    /\ phase' = "polled"
    /\ left' = Minus(left, poll_interval)
    /\ UNCHANGED <<config, user_id, poll_interval, authVars>>

PollPending(delay) ==
    /\ phase = "polled"
    /\ phase' = "polling"
    /\ left' = Minus(left, delay)
    /\ UNCHANGED <<config, user_id, poll_interval, authVars>>

PollSlowDown(delay) ==
    /\ phase = "polled"
    /\ phase' = "polling"
    /\ left' = Minus(left, delay)
    /\ poll_interval' = Min({poll_interval + 5, MaxInterval})
    /\ UNCHANGED <<config, user_id, authVars>>

(* An id token with an oid, with or without a refresh token, which the     *)
(* console head has no use for.                                            *)
PollSucceeds(has_refresh_token) ==
    /\ phase = "polled"
    /\ phase' = "options"
    /\ user_id' = Some(user_id_from_oid)
    /\ left' = 0
    /\ poll_interval' = 1
    /\ IF has_refresh_token /\ Cfg.sink
       THEN KeepFirstToken
       ELSE UNCHANGED <<refresh_token, issued>>
    /\ UNCHANGED <<config, retires, lost, attempt, callback, tasks, link>>

(* Declined, expired, no oid, not readable, or no connection: one of these *)
(* ends the sign-in.                                                       *)
PollFails ==
    /\ phase = "polled"
    /\ Goto("failed")

-----------------------------------------------------------------------------
(* AgentHost::start, after the identity *)

(* connect_options: a creds file is read, the others only prepare.         *)
ConnectOptions ==
    /\ phase = "options"
    /\ Goto("connecting")

ConnectOptionsFail ==
    /\ phase = "options"
    /\ Cfg.auth = "creds"
    /\ Goto("failed")

(* Without the auth callback the connection is up to the NATS client.      *)
Connect ==
    /\ phase = "connecting"
    /\ Cfg.auth # "external"
    /\ link' = "up"
    /\ phase' = "subscribing"
    /\ UNCHANGED <<config, user_id, left, poll_interval, refresh_token, issued, retires,
                   lost, attempt, callback, tasks>>

ConnectFails ==
    /\ phase = "connecting"
    /\ Cfg.auth # "external"
    /\ Goto("failed")

(* connect() returns.                                                      *)
Connected ==
    /\ phase = "connecting"
    /\ link = "up"
    /\ Goto("subscribing")

ConnectGivesUp ==
    /\ phase = "connecting"
    /\ link = "failed"
    /\ Goto("failed")

(* client.subscribe: from here on the agent is AgentHost's.                *)
Subscribe ==
    /\ phase = "subscribing"
    /\ Goto("running")

(* start_host returns, and the runtime is dropped with all that runs on it. *)
SubscribeFails ==
    /\ phase = "subscribing"
    /\ phase' = "failed"
    /\ callback' = "none"
    /\ UNCHANGED <<config, user_id, left, poll_interval, refresh_token, issued, retires,
                   lost, attempt, tasks, link>>

(* The NATS client at work, during the start and ever after.  A start that *)
(* failed takes the runtime and its tasks with it.                         *)
Authenticating ==
    phase \in {"connecting", "subscribing", "running"} /\ Cfg.auth = "external"

AuthStep(A) == Authenticating /\ A /\ UNCHANGED startVars

-----------------------------------------------------------------------------
SignIn ==
    \/ \E i \in Intervals, e \in Lifetimes : RequestDeviceCode(i, e)
    \/ SignInTimesOut
    \/ Poll
    \/ \E d \in Delays : PollPending(d) \/ PollSlowDown(d)
    \/ \E has \in BOOLEAN : PollSucceeds(has)
    \/ PollFails

start_host ==
    \/ \E launch \in Launches : Configure(launch)
    \/ ResolveUser \/ IdentityFails
    \/ ConnectOptions \/ ConnectOptionsFail
    \/ Connect \/ ConnectFails \/ Connected \/ ConnectGivesUp
    \/ Subscribe \/ SubscribeFails

Next ==
    \/ start_host
    \/ SignIn
    \/ AuthStep(AuthNext)

Spec == Init /\ [][Next]_vars

(* The runtime runs what is ready and ends what has a timeout.  Nobody has *)
(* to answer: not the endpoints, nor the user, nor NATS.                   *)
FairSpec ==
    /\ Spec
    /\ WF_vars(SignInTimesOut \/ Poll)
    /\ WF_vars(AuthStep(TokenAcquired \/ TokenFailed \/ JwtFails))
    /\ \A a \in Attempts : WF_vars(AuthStep(ReadToken(a) \/ RequestFails(a)))

-----------------------------------------------------------------------------
(* Properties *)

(* Types; there is a configuration from the first step on, and a user id   *)
(* before the connection.                                                  *)
TypeOK ==
    /\ AuthTypeOK
    /\ phase \in {"launched", "identity", "polling", "polled", "options", "connecting",
                  "subscribing", "running", "failed"}
    /\ (config = None) <=> (phase = "launched")
    /\ phase \in {"options", "connecting", "subscribing", "running"} => user_id # None
    /\ left \in Nat
    /\ poll_interval \in 1..MaxInterval

(* An agent that authenticates through the auth service was given all it   *)
(* takes, from whichever layer and however the texts were padded: an AAD   *)
(* client, an https URL for its bearer token, and a scope, which the user  *)
(* was asked for in the one sign-in there is.  So the expect calls of      *)
(* start_host cannot fail.                                                 *)
ExternalAuthIsComplete ==
    phase \notin {"launched", "failed"} /\ Cfg.auth = "external" =>
       /\ Cfg.identity = "device-code"
       /\ NonBlank(Cfg.client_id) # None
       /\ NonBlank(Cfg.auth_scope) # None
       /\ Cfg.extra_scopes = Cfg.auth_scope
       /\ \A u \in Cfg.auth_url : u.text \in HttpsUrls
       /\ Cfg.sink

(* The account a raw name stands for, read off the name and not computed   *)
(* the way the code does: the characters i..j, which begin and end with    *)
(* something else than a space, have no separator among them, and have     *)
(* only spaces after them and only a domain and spaces before them.  In    *)
(* lower case, since Windows does not tell accounts apart by case.         *)
AccountAt(raw, i, j) ==
    /\ raw[i] # Space /\ raw[j] # Space
    /\ \A k \in i..j : raw[k] # Backslash
    /\ \A k \in (j + 1)..Len(raw) : raw[k] = Space
    /\ \A k \in 1..(i - 1) : raw[k] = Space \/ \E m \in k..(i - 1) : raw[m] = Backslash

Account(raw) ==
    {to_lowercase(SubSeq(raw, at[1], at[2])) :
       at \in {p \in (1..Len(raw)) \X (1..Len(raw)) :
                 p[1] <= p[2] /\ AccountAt(raw, p[1], p[2])}}

Usernames == {l.username : l \in {k \in Launches : k.head = "windows"}}
AccountOf == [name \in Usernames |-> Account(name)]

(* A start from a Windows username is one for an account, and its user id  *)
(* is a single token of a NATS subject that goes with the account: the     *)
(* same at every start, in whatever case and with whatever domain and      *)
(* padding the system spells the name, and another one than that of every  *)
(* account whose digest is another, although replaced characters make      *)
(* different names alike (user_id_from_username).  The domain is no part   *)
(* of it, so one name in two domains has one id, and so may two accounts   *)
(* whose 32-bit digests collide.                                           *)
UserIdFollowsAccount ==
    user_id # None /\ Cfg.identity = "windows-username" =>
       LET id == CHOOSE i \in user_id : TRUE
           me == CHOOSE u \in Cfg.user : TRUE
       IN  /\ \A c \in DOMAIN id.prefix : id.prefix[c] \notin {".", Space, Backslash}
           /\ AccountOf[me] # {}
           /\ \A name \in Usernames :
                 \A mine \in AccountOf[me], other \in AccountOf[name] :
                    /\ mine = other => id = user_id_from_username(name)
                    /\ Digest(mine) # Digest(other) => id # user_id_from_username(name)

(* The sign-in does not poll for ever: it ends, or it waits for one poll   *)
(* nobody answers (DeviceCodeIdentity::identity).                          *)
SignInEnds ==
    <>[](phase \notin {"polling", "polled"}) \/ <>[](phase = "polled")
=============================================================================

------------------------------ MODULE NatsAuth ------------------------------
(***************************************************************************)
(* Authentication of the NATS connection through an external auth service: *)
(* the auth callback of nats_auth.rs and AadTokenProvider of identity.rs.  *)
(*                                                                         *)
(* The NATS client calls the callback once per connection attempt.  The    *)
(* callback spawns a task that exchanges the refresh token for an access   *)
(* token, and keeps the refresh token the server may send along; it then   *)
(* asks the auth service for a JWT and signs the server's nonce.  Attempts *)
(* come one after the other, but the task of an attempt the client has     *)
(* given up runs on.                                                       *)
(*                                                                         *)
(* Refresh tokens are numbered in the order the server issues them; 0 is   *)
(* no token.  The NATS client, the token endpoint and the auth service are *)
(* external: they answer, refuse, or never answer.                         *)
(***************************************************************************)
EXTENDS Naturals

CONSTANT MaxAttempts   \* bound: connection attempts in one behaviour

ASSUME MaxAttemptsAssumption == MaxAttempts \in Nat

VARIABLES
    refresh_token,  \* Arc<Mutex<Option<String>>>
    issued,         \* the newest refresh token the server has issued
    retires,        \* server policy: issuing a token retires the older ones
    lost,           \* history: an answer with a newer token never arrived
    attempt,        \* number of the latest attempt
    callback,       \* where the callback of that attempt is
    tasks,          \* the spawned access_token call of each attempt
    link            \* the connection

authVars == <<refresh_token, issued, retires, lost, attempt, callback, tasks, link>>

Attempts == 1..MaxAttempts
NoTask == [pc |-> "none", used |-> 0, rotated |-> 0]

AuthInit ==
    /\ refresh_token = 0
    /\ issued = 0
    /\ retires \in BOOLEAN
    /\ lost = FALSE
    /\ attempt = 0
    /\ callback = "none"
    /\ tasks = [a \in Attempts |-> NoTask]
    /\ link = "initial"

(* What sign-in leaves behind: the sink is filled if a token came.         *)
KeepFirstToken ==
    /\ issued' = 1
    /\ refresh_token' = 1

(* Which refresh tokens the endpoint takes.                                *)
Accepted(token) == IF retires THEN token = issued ELSE token # 0

-----------------------------------------------------------------------------
(* The NATS client *)

(* ConnectOptions::with_auth_callback: fetch_auth is called, and spawns    *)
(* access_token.                                                           *)
BeginAttempt ==
    /\ link \in {"initial", "lost"}
    /\ callback = "none"
    /\ attempt < MaxAttempts
    /\ attempt' = attempt + 1
    /\ callback' = "token"
    /\ tasks' = [tasks EXCEPT ![attempt + 1].pc = "read"]
    /\ UNCHANGED <<refresh_token, issued, retires, lost, link>>

(* connect() gives up when it has tried every address of the URL; a client *)
(* that was connected before goes on trying.                               *)
AttemptFails ==
    /\ callback' = "none"
    /\ link' \in IF link = "initial" THEN {"initial", "failed"} ELSE {link}

\* Mutated form of Abandon: access_token awaited in place, not spawned.
AbandonCancels ==
    /\ callback \in {"token", "jwt"}
    /\ AttemptFails
    /\ tasks' = [tasks EXCEPT ![attempt].pc = "failed", ![attempt].rotated = 0]
    /\ UNCHANGED <<refresh_token, issued, retires, lost, attempt>>

(* The client drops the callback's future.  The spawned task is detached.  *)
Abandon ==
    /\ callback \in {"token", "jwt"}
    /\ AttemptFails
    /\ UNCHANGED <<refresh_token, issued, retires, lost, attempt, tasks>>

ServerAcceptsAuth ==
    /\ callback = "ready"
    /\ callback' = "none"
    /\ link' = "up"
    /\ UNCHANGED <<refresh_token, issued, retires, lost, attempt, tasks>>

ServerRejectsAuth ==
    /\ callback = "ready"
    /\ AttemptFails
    /\ UNCHANGED <<refresh_token, issued, retires, lost, attempt, tasks>>

LinkLost ==
    /\ link = "up"
    /\ link' = "lost"
    /\ UNCHANGED <<refresh_token, issued, retires, lost, attempt, callback, tasks>>

-----------------------------------------------------------------------------
(* AadTokenProvider::access_token, in the task of attempt a *)

(* The lock is held for the clone only.                                    *)
ReadToken(a) ==
    /\ tasks[a].pc = "read"
    /\ tasks' = [tasks EXCEPT ![a] =
                   IF refresh_token = 0 THEN [@ EXCEPT !.pc = "failed"]
                   ELSE [@ EXCEPT !.pc = "sent", !.used = refresh_token]]
    /\ UNCHANGED <<refresh_token, issued, retires, lost, attempt, callback, link>>

(* The endpoint takes the token and may send a new one along.              *)
EndpointGrants(a, rotates) ==
    /\ tasks[a].pc = "sent"
    /\ Accepted(tasks[a].used)
    /\ issued' = IF rotates THEN issued + 1 ELSE issued
    /\ tasks' = [tasks EXCEPT ![a].pc = "answered",
                              ![a].rotated = IF rotates THEN issued + 1 ELSE 0]
    /\ UNCHANGED <<refresh_token, retires, lost, attempt, callback, link>>

\* Mutated form of RequestFails: the client has no timeout.
RequestFailsNoTimeout(a) ==
    /\ tasks[a].pc = "sent"
    /\ ~Accepted(tasks[a].used)
    /\ tasks' = [tasks EXCEPT ![a].pc = "failed"]
    /\ UNCHANGED <<refresh_token, issued, retires, lost, attempt, callback, link>>

(* Refused, unreachable, or the client's timeout of 10 s: an answer on its *)
(* way, or one that cannot be read, is gone.                               *)
RequestFails(a) ==
    /\ tasks[a].pc \in {"sent", "answered"}
    /\ lost' = (lost \/ tasks[a].rotated # 0)
    /\ tasks' = [tasks EXCEPT ![a].pc = "failed", ![a].rotated = 0]
    /\ UNCHANGED <<refresh_token, issued, retires, attempt, callback, link>>

(* A rotated token replaces the stored one before access_token returns.    *)
AnswerArrives(a) ==
    /\ tasks[a].pc = "answered"
    /\ refresh_token' = IF tasks[a].rotated # 0 THEN tasks[a].rotated
                                                ELSE refresh_token
    /\ tasks' = [tasks EXCEPT ![a].pc = "done", ![a].rotated = 0]
    /\ UNCHANGED <<issued, retires, lost, attempt, callback, link>>

-----------------------------------------------------------------------------
(* fetch_auth, after the spawn *)

TokenAcquired ==
    /\ callback = "token"
    /\ tasks[attempt].pc = "done"
    /\ callback' = "jwt"
    /\ UNCHANGED <<refresh_token, issued, retires, lost, attempt, tasks, link>>

TokenFailed ==
    /\ callback = "token"
    /\ tasks[attempt].pc = "failed"
    /\ AttemptFails
    /\ UNCHANGED <<refresh_token, issued, retires, lost, attempt, tasks>>

(* fetch_jwt returns a JWT; the nonce is signed.                           *)
JwtArrives ==
    /\ callback = "jwt"
    /\ callback' = "ready"
    /\ UNCHANGED <<refresh_token, issued, retires, lost, attempt, tasks, link>>

(* Another status, an unreadable answer, or the timeout of 10 s.           *)
JwtFails ==
    /\ callback = "jwt"
    /\ AttemptFails
    /\ UNCHANGED <<refresh_token, issued, retires, lost, attempt, tasks>>

-----------------------------------------------------------------------------
TokenTask(a) ==
    \/ ReadToken(a)
    \/ \E rotates \in BOOLEAN : EndpointGrants(a, rotates)
    \/ RequestFails(a)
    \/ AnswerArrives(a)

fetch_auth == TokenAcquired \/ TokenFailed \/ JwtArrives \/ JwtFails

NatsClient == BeginAttempt \/ Abandon \/ ServerAcceptsAuth \/ ServerRejectsAuth \/ LinkLost

AuthNext == NatsClient \/ fetch_auth \/ \E a \in Attempts : TokenTask(a)

-----------------------------------------------------------------------------
(* Properties *)

AuthTypeOK ==
    /\ refresh_token \in 0..issued
    /\ issued \in Nat
    /\ retires \in BOOLEAN
    /\ lost \in BOOLEAN
    /\ attempt \in 0..MaxAttempts
    /\ callback \in {"none", "token", "jwt", "ready"}
    /\ tasks \in [Attempts -> [pc : {"none", "read", "sent", "answered", "done", "failed"},
                               used : 0..issued, rotated : 0..issued]]
    /\ link \in {"initial", "up", "lost", "failed"}

(* Once signed in, the agent keeps a refresh token the endpoint takes, or  *)
(* a task is about to store one, unless an answer with a new token was     *)
(* lost on its way.  Neither an attempt the NATS client gives up, nor two  *)
(* requests with one token, nor an answer that comes late, costs the user  *)
(* another sign-in (access_token, and the spawn in fetch_auth).            *)
UsableTokenKept ==
    issued > 0 /\ ~lost =>
       \/ Accepted(refresh_token)
       \/ \E a \in Attempts : tasks[a].rotated = issued

(* "A hung AAD token endpoint can't stall a connect/reconnect attempt      *)
(* indefinitely", nor can a hung auth service: the callback returns.       *)
CallbacksEnd == callback \in {"token", "jwt"} ~> callback \in {"none", "ready"}
=============================================================================

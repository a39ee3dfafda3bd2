-------------------------- MODULE StartHostProofs ---------------------------
(***************************************************************************)
(* Proofs about StartHost, for every configuration a head may be started   *)
(* with and any number of connection attempts: the refresh token survives, *)
(* the types, that an agent with the auth service has all it takes, that   *)
(* the user id goes with the account, and that no connection is made       *)
(* without a token of its own.                                             *)
(***************************************************************************)
EXTENDS StartHost, FiniteSetTheorems, SequenceTheorems, WellFoundedInduction, TLAPS

tokenVars == <<refresh_token, issued, retires, lost, tasks>>

Task == [pc : {"none", "read", "sent", "answered", "done", "failed"},
         used : Nat, rotated : Nat]

(* Types, and that tokens in use were issued.                              *)
TokenTypes ==
    /\ refresh_token \in Nat /\ issued \in Nat
    /\ refresh_token <= issued
    /\ retires \in BOOLEAN /\ lost \in BOOLEAN
    /\ attempt \in 0..MaxAttempts
    /\ tasks \in [Attempts -> Task]
    /\ \A a \in Attempts :
          /\ tasks[a].used <= issued
          /\ tasks[a].rotated <= issued
          /\ tasks[a].pc = "sent" => tasks[a].used > 0

(* Nothing is requested before the sign-in is over.                        *)
NotYet ==
    phase \in {"launched", "identity", "polling", "polled"} =>
        issued = 0 /\ refresh_token = 0 /\ tasks = [a \in Attempts |-> NoTask]

(* With a server that retires tokens: the newest one is either stored, and *)
(* none is under way, or on its way to exactly one task, and every token a *)
(* task has sent is older.                                                 *)
OneNewest ==
    retires /\ ~lost =>
        /\ \A a \in Attempts : tasks[a].used <= refresh_token
        /\ \A a \in Attempts :
              tasks[a].rotated # 0 => tasks[a].rotated = issued /\ refresh_token < issued
        /\ \A a, b \in Attempts :
              tasks[a].rotated # 0 /\ tasks[b].rotated # 0 => a = b
        /\ refresh_token < issued => \E a \in Attempts : tasks[a].rotated = issued

TokenInv == TokenTypes /\ NotYet /\ (issued > 0 => refresh_token > 0) /\ OneNewest

LEMMA InitToken == Init => TokenInv
<1> SUFFICES ASSUME Init PROVE TokenInv
  OBVIOUS
<1>1. /\ refresh_token = 0 /\ issued = 0 /\ retires \in BOOLEAN /\ lost = FALSE
      /\ attempt = 0 /\ tasks = [a \in Attempts |-> NoTask]
  BY DEF Init, AuthInit
<1>2. NoTask \in Task /\ NoTask.pc = "none" /\ NoTask.used = 0 /\ NoTask.rotated = 0
  BY DEF NoTask, Task
<1>3. tasks \in [Attempts -> Task] /\ \A a \in Attempts : tasks[a] = NoTask
  BY <1>1, <1>2
<1>4. TokenTypes
  <2>1. lost \in BOOLEAN
    BY <1>1
  <2>2. refresh_token \in Nat /\ issued \in Nat /\ refresh_token <= issued
    BY <1>1
  <2>3. attempt \in 0..MaxAttempts
    BY <1>1, MaxAttemptsAssumption
  <2>4. \A a \in Attempts : tasks[a].used <= issued /\ tasks[a].rotated <= issued
                            /\ tasks[a].pc # "sent"
    BY <1>1, <1>2, <1>3
  <2> QED BY <1>1, <1>3, <2>1, <2>2, <2>3, <2>4 DEF TokenTypes
<1>5. OneNewest
  BY <1>1, <1>2, <1>3 DEF OneNewest
<1> QED BY <1>1, <1>4, <1>5 DEF TokenInv, NotYet

(* Steps that leave tokens and tasks alone.                                *)
LEMMA OtherSteps ==
    ASSUME TokenInv, UNCHANGED tokenVars, attempt' \in 0..MaxAttempts,
           phase' \in {"launched", "identity", "polling", "polled"}
             => phase \in {"launched", "identity", "polling", "polled"}
    PROVE  TokenInv'
BY DEF TokenInv, TokenTypes, NotYet, OneNewest, tokenVars, Attempts, Task

-----------------------------------------------------------------------------
(* The steps of NatsAuth, which happen after the sign-in *)

LEMMA ReadTokenKeeps ==
    ASSUME TokenInv, NEW a \in Attempts, ReadToken(a), UNCHANGED phase,
           phase \in {"connecting", "subscribing", "running"}
    PROVE  TokenInv'
<1>1. UNCHANGED <<refresh_token, issued, retires, lost, attempt>>
  BY DEF ReadToken
<1>2. \E t \in Task :
         /\ tasks' = [tasks EXCEPT ![a] = t]
         /\ t.rotated = tasks[a].rotated
         /\ t.used <= refresh_token \/ t.used = tasks[a].used
         /\ t.pc = "sent" => t.used > 0
  <2>1. tasks[a] \in Task
    BY DEF TokenInv, TokenTypes
  <2>2. CASE refresh_token = 0
    <3> DEFINE t == [tasks[a] EXCEPT !.pc = "failed"]
    <3>1. t \in Task /\ t.rotated = tasks[a].rotated /\ t.used = tasks[a].used
          /\ t.pc = "failed"
      BY <2>1 DEF Task
    <3>2. tasks' = [tasks EXCEPT ![a] = t]
      BY <2>2 DEF ReadToken
    <3> QED BY <3>1, <3>2
  <2>3. CASE refresh_token # 0
    <3> DEFINE sent == [tasks[a] EXCEPT !.pc = "sent", !.used = refresh_token]
    <3>0. refresh_token \in Nat
      BY DEF TokenInv, TokenTypes
    <3>1. sent \in Task /\ sent.rotated = tasks[a].rotated /\ sent.used = refresh_token
      BY <2>1, <3>0 DEF Task
    <3>2. tasks' = [tasks EXCEPT ![a] = sent]
      BY <2>3 DEF ReadToken
    <3>3. sent.used <= refresh_token /\ sent.used > 0
      BY <3>0, <3>1, <2>3
    <3> HIDE DEF sent
    <3> QED BY <3>1, <3>2, <3>3
  <2> QED BY <2>2, <2>3
<1>3. PICK t \in Task :
         /\ tasks' = [tasks EXCEPT ![a] = t]
         /\ t.rotated = tasks[a].rotated
         /\ t.used <= refresh_token \/ t.used = tasks[a].used
         /\ t.pc = "sent" => t.used > 0
  BY <1>2
<1>4. tasks \in [Attempts -> Task] /\ tasks' \in [Attempts -> Task]
  BY <1>3 DEF TokenInv, TokenTypes
<1>5. \A b \in Attempts : tasks'[b].rotated = tasks[b].rotated
  BY <1>3, <1>4
<1>6. \A b \in Attempts : b # a => tasks'[b] = tasks[b]
  BY <1>3, <1>4
<1>7. tasks'[a] = t
  BY <1>3, <1>4
<1>8. TokenTypes'
  <2>1. \A b \in Attempts : tasks'[b].used <= issued
                            /\ (tasks'[b].pc = "sent" => tasks'[b].used > 0)
    <3> SUFFICES ASSUME NEW b \in Attempts
                 PROVE  tasks'[b].used <= issued
                        /\ (tasks'[b].pc = "sent" => tasks'[b].used > 0)
      OBVIOUS
    <3>1. CASE b # a
      BY <3>1, <1>6 DEF TokenInv, TokenTypes
    <3>2. CASE b = a
      <4>1. t.used \in Nat /\ tasks[a].used \in Nat
        BY <1>4 DEF Task
      <4> QED BY <4>1, <3>2, <1>3, <1>7 DEF TokenInv, TokenTypes
    <3> QED BY <3>1, <3>2
  <2>2. \A b \in Attempts : tasks'[b].rotated <= issued
    BY <1>5 DEF TokenInv, TokenTypes
  <2> QED BY <2>1, <2>2, <1>1, <1>4 DEF TokenInv, TokenTypes
<1>9. OneNewest'
  <2>1. ASSUME retires, ~lost, NEW b \in Attempts PROVE tasks'[b].used <= refresh_token
    <3>1. CASE b # a
      BY <2>1, <3>1, <1>6 DEF TokenInv, OneNewest
    <3>2. CASE b = a
      BY <2>1, <3>2, <1>3, <1>7 DEF TokenInv, OneNewest
    <3> QED BY <3>1, <3>2
  <2> QED BY <2>1, <1>1, <1>5 DEF TokenInv, OneNewest
<1> QED BY <1>1, <1>8, <1>9 DEF TokenInv, NotYet
LEMMA EndpointGrantsKeeps ==
    ASSUME TokenInv, NEW a \in Attempts, NEW rotates \in BOOLEAN,
           EndpointGrants(a, rotates), UNCHANGED phase,
           phase \in {"connecting", "subscribing", "running"}
    PROVE  TokenInv'
<1> DEFINE new == IF rotates THEN issued + 1 ELSE 0
<1>1. UNCHANGED <<refresh_token, retires, lost, attempt>>
  BY DEF EndpointGrants
<1>2. /\ issued \in Nat /\ refresh_token \in Nat /\ refresh_token <= issued
      /\ tasks \in [Attempts -> Task]
      /\ retires \in BOOLEAN /\ lost \in BOOLEAN /\ attempt \in 0..MaxAttempts
  BY DEF TokenInv, TokenTypes
<1>3. issued' = (IF rotates THEN issued + 1 ELSE issued) /\ issued' \in Nat
      /\ issued <= issued'
  BY <1>2 DEF EndpointGrants
<1>4. tasks' = [tasks EXCEPT ![a].pc = "answered", ![a].rotated = new]
  BY DEF EndpointGrants
<1>5. new \in Nat
  BY <1>2
<1>6. tasks' \in [Attempts -> Task] /\ tasks'[a].pc = "answered"
      /\ tasks'[a].used = tasks[a].used /\ tasks'[a].rotated = new
  BY <1>2, <1>4, <1>5 DEF Task
<1>7. \A b \in Attempts : b # a => tasks'[b] = tasks[b]
  BY <1>2, <1>4
<1>8. \A b \in Attempts : tasks'[b].used = tasks[b].used /\ tasks[b].used \in Nat
  BY <1>2, <1>6, <1>7 DEF Task
<1>9. tasks[a].pc = "sent" /\ Accepted(tasks[a].used) /\ tasks[a].used > 0
      /\ tasks[a].used <= issued
  BY DEF EndpointGrants, TokenInv, TokenTypes
<1>10. TokenTypes'
  <2>1. \A b \in Attempts : tasks'[b].used <= issued'
    BY <1>2, <1>3, <1>8 DEF TokenInv, TokenTypes
  <2>2. \A b \in Attempts : tasks'[b].pc = "sent" => tasks'[b].used > 0
    BY <1>6, <1>7, <1>8 DEF TokenInv, TokenTypes
  <2>3. refresh_token <= issued'
    BY <1>2, <1>3
  <2>4. \A b \in Attempts : tasks[b].rotated \in Nat /\ tasks[b].rotated <= issued
    BY <1>2 DEF TokenInv, TokenTypes, Task
  <2>5. new <= issued'
    BY <1>2, <1>3
  <2> HIDE DEF new
  <2>6. \A b \in Attempts : tasks'[b].rotated <= issued'
    BY <1>2, <1>3, <1>6, <1>7, <2>4, <2>5
  <2> QED BY <1>1, <1>2, <1>3, <1>6, <2>1, <2>2, <2>3, <2>6 DEF TokenTypes
<1>11. issued' > 0 => refresh_token' > 0
  BY <1>1, <1>2, <1>8, <1>9 DEF TokenInv
<1>12. OneNewest'
  <2> SUFFICES ASSUME retires, ~lost PROVE OneNewest'
    BY <1>1 DEF OneNewest
  <2>1. tasks[a].used = issued
    BY DEF Accepted, EndpointGrants
  <2>2. refresh_token = issued
    <3>1. tasks[a].used <= refresh_token
      BY DEF TokenInv, OneNewest
    <3> QED BY <2>1, <3>1, <1>2
  <2>3. \A b \in Attempts : tasks[b].rotated = 0
    <3> SUFFICES ASSUME NEW b \in Attempts, tasks[b].rotated # 0 PROVE FALSE
      OBVIOUS
    <3>1. refresh_token < issued
      BY DEF TokenInv, OneNewest
    <3> QED BY <3>1, <2>2, <1>2
  <2>4. \A b \in Attempts : b # a => tasks'[b].rotated = 0
    BY <2>3, <1>7
  <2>5. \A b \in Attempts : tasks'[b].used <= refresh_token'
    BY <1>1, <1>8 DEF TokenInv, OneNewest
  <2>6. CASE rotates
    <3>1. tasks'[a].rotated = issued' /\ refresh_token' < issued'
      BY <2>6, <2>2, <1>1, <1>2, <1>3, <1>6
    <3> QED BY <3>1, <2>4, <2>5 DEF OneNewest
  <2>7. CASE ~rotates
    <3>1. tasks'[a].rotated = 0 /\ issued' = issued
      BY <2>7, <1>3, <1>6
    <3>2. ~(refresh_token' < issued')
      BY <3>1, <2>2, <1>1, <1>2
    <3> QED BY <3>1, <3>2, <2>4, <2>5 DEF OneNewest
  <2> QED BY <2>6, <2>7
<1> QED BY <1>1, <1>10, <1>11, <1>12 DEF TokenInv, NotYet

(* A lost answer with a new token is on record.                            *)
LEMMA RequestFailsKeeps ==
    ASSUME TokenInv, NEW a \in Attempts, RequestFails(a), UNCHANGED phase,
           phase \in {"connecting", "subscribing", "running"}
    PROVE  TokenInv'
<1>1. UNCHANGED <<refresh_token, issued, retires, attempt>>
  BY DEF RequestFails
<1>2. tasks \in [Attempts -> Task]
  BY DEF TokenInv, TokenTypes
<1>3. tasks' = [tasks EXCEPT ![a].pc = "failed", ![a].rotated = 0]
  BY DEF RequestFails
<1>4. /\ tasks' \in [Attempts -> Task]
      /\ tasks'[a].pc = "failed" /\ tasks'[a].used = tasks[a].used /\ tasks'[a].rotated = 0
      /\ \A b \in Attempts : b # a => tasks'[b] = tasks[b]
  BY <1>2, <1>3 DEF Task
<1>5. lost' \in BOOLEAN
  BY DEF RequestFails, TokenInv, TokenTypes
<1>6. \A b \in Attempts : tasks'[b].used = tasks[b].used
                          /\ (tasks'[b].pc = "sent" => tasks[b].pc = "sent")
  BY <1>4
<1>7. TokenTypes'
  BY <1>1, <1>4, <1>5, <1>6 DEF TokenInv, TokenTypes
<1>8. OneNewest'
  <2> SUFFICES ASSUME retires, ~lost' PROVE OneNewest'
    BY <1>1 DEF OneNewest
  <2>1. ~lost /\ tasks[a].rotated = 0
    BY DEF RequestFails
  <2>2. \A b \in Attempts : tasks'[b].rotated = tasks[b].rotated
    BY <1>4, <2>1
  <2> QED BY <1>1, <1>6, <2>1, <2>2 DEF TokenInv, OneNewest
<1> QED BY <1>1, <1>7, <1>8 DEF TokenInv, NotYet

LEMMA AnswerArrivesKeeps ==
    ASSUME TokenInv, NEW a \in Attempts, AnswerArrives(a), UNCHANGED phase,
           phase \in {"connecting", "subscribing", "running"}
    PROVE  TokenInv'
<1> DEFINE new == tasks[a].rotated
<1>1. UNCHANGED <<issued, retires, lost, attempt>>
      /\ refresh_token' = IF new # 0 THEN new ELSE refresh_token
  BY DEF AnswerArrives
<1>2. /\ issued \in Nat /\ refresh_token \in Nat /\ refresh_token <= issued
      /\ tasks \in [Attempts -> Task] /\ new \in Nat
      /\ new <= issued
  BY DEF TokenInv, TokenTypes, Task
<1>3. tasks' = [tasks EXCEPT ![a].pc = "done", ![a].rotated = 0]
  BY DEF AnswerArrives
<1>4. /\ tasks' \in [Attempts -> Task]
      /\ tasks'[a].pc = "done" /\ tasks'[a].used = tasks[a].used /\ tasks'[a].rotated = 0
      /\ \A b \in Attempts : b # a => tasks'[b] = tasks[b]
  BY <1>2, <1>3 DEF Task
<1>5. \A b \in Attempts : tasks'[b].used = tasks[b].used
                          /\ (tasks'[b].pc = "sent" => tasks[b].pc = "sent")
  BY <1>4
<1>6. refresh_token' \in Nat /\ refresh_token' <= issued'
  BY <1>1, <1>2
<1>7. TokenTypes'
  BY <1>1, <1>4, <1>5, <1>6 DEF TokenInv, TokenTypes
<1>8. issued' > 0 => refresh_token' > 0
  BY <1>1, <1>2 DEF TokenInv
<1>9. OneNewest'
  <2> SUFFICES ASSUME retires, ~lost PROVE OneNewest'
    BY <1>1 DEF OneNewest
  <2>1. CASE new = 0
    <3>1. refresh_token' = refresh_token
      BY <1>1, <2>1
    <3>2. \A b \in Attempts : tasks'[b].rotated = tasks[b].rotated
      BY <1>4, <2>1
    <3> QED BY <1>1, <1>5, <3>1, <3>2 DEF TokenInv, OneNewest
  <2>2. CASE new # 0
    <3>1. new = issued /\ refresh_token < issued
      BY <2>2 DEF TokenInv, OneNewest
    <3>2. refresh_token' = issued'
      BY <1>1, <2>2, <3>1
    <3>3. \A b \in Attempts : tasks'[b].rotated = 0
      BY <1>4, <2>2 DEF TokenInv, OneNewest
    <3>4. \A b \in Attempts : tasks[b].used \in Nat /\ tasks[b].used <= refresh_token
      BY <1>2 DEF TokenInv, OneNewest, Task
    <3>5. \A b \in Attempts : tasks'[b].used <= refresh_token'
      BY <1>1, <1>2, <1>5, <3>1, <3>2, <3>4
    <3>6. ~(refresh_token' < issued')
      BY <3>2, <1>1, <1>2
    <3> QED BY <3>3, <3>5, <3>6 DEF OneNewest
  <2> QED BY <2>1, <2>2
<1> QED BY <1>1, <1>7, <1>8, <1>9 DEF TokenInv, NotYet

-----------------------------------------------------------------------------
(* A new attempt starts a task that has used nothing yet.                  *)
LEMMA BeginAttemptKeeps ==
    ASSUME TokenInv, BeginAttempt, UNCHANGED phase,
           phase \in {"connecting", "subscribing", "running"}
    PROVE  TokenInv'
<1> DEFINE a == attempt + 1
<1>1. UNCHANGED <<refresh_token, issued, retires, lost>> /\ attempt' = a
  BY DEF BeginAttempt
<1>2. tasks \in [Attempts -> Task] /\ attempt \in 0..MaxAttempts
  BY DEF TokenInv, TokenTypes
<1>3. a \in Attempts /\ attempt' \in 0..MaxAttempts
  BY <1>1, <1>2, MaxAttemptsAssumption DEF BeginAttempt, Attempts
<1>4. tasks' = [tasks EXCEPT ![a].pc = "read"]
  BY DEF BeginAttempt
<1> HIDE DEF a
<1>5. /\ tasks' \in [Attempts -> Task]
      /\ tasks'[a].pc = "read" /\ tasks'[a].used = tasks[a].used
      /\ tasks'[a].rotated = tasks[a].rotated
      /\ \A b \in Attempts : b # a => tasks'[b] = tasks[b]
  BY <1>2, <1>3, <1>4 DEF Task
<1>6. \A b \in Attempts : /\ tasks'[b].used = tasks[b].used
                          /\ tasks'[b].rotated = tasks[b].rotated
                          /\ tasks'[b].pc = "sent" => tasks[b].pc = "sent"
  BY <1>5
<1>7. TokenTypes'
  BY <1>1, <1>3, <1>5, <1>6 DEF TokenInv, TokenTypes
<1>8. OneNewest'
  BY <1>1, <1>6 DEF TokenInv, OneNewest
<1> QED BY <1>1, <1>7, <1>8 DEF TokenInv, NotYet

LEMMA AuthStepKeeps ==
    ASSUME TokenInv, AuthStep(AuthNext)
    PROVE  TokenInv'
<1>1. AuthNext /\ UNCHANGED phase /\ phase \in {"connecting", "subscribing", "running"}
  BY DEF AuthStep, Authenticating, startVars
<1>2. CASE BeginAttempt
  BY <1>1, <1>2, BeginAttemptKeeps
<1>3. CASE Abandon \/ ServerAcceptsAuth \/ ServerRejectsAuth \/ LinkLost \/ fetch_auth
  <2>1. UNCHANGED tokenVars /\ UNCHANGED attempt
    BY <1>3 DEF Abandon, ServerAcceptsAuth, ServerRejectsAuth, LinkLost, fetch_auth,
                TokenAcquired, TokenFailed, JwtArrives, JwtFails, tokenVars
  <2> QED BY <1>1, <2>1, OtherSteps DEF TokenInv, TokenTypes
<1>4. ASSUME NEW a \in Attempts, TokenTask(a) PROVE TokenInv'
  <2>1. CASE ReadToken(a)
    BY <1>1, <2>1, ReadTokenKeeps
  <2>2. ASSUME NEW rotates \in BOOLEAN, EndpointGrants(a, rotates) PROVE TokenInv'
    BY <1>1, <2>2, EndpointGrantsKeeps
  <2>3. CASE RequestFails(a)
    BY <1>1, <2>3, RequestFailsKeeps
  <2>4. CASE AnswerArrives(a)
    BY <1>1, <2>4, AnswerArrivesKeeps
  <2> QED BY <1>4, <2>1, <2>2, <2>3, <2>4 DEF TokenTask
<1> QED BY <1>1, <1>2, <1>3, <1>4 DEF AuthNext, NatsClient

-----------------------------------------------------------------------------
(* The sign-in stores the first token, before any was used.                *)
LEMMA PollSucceedsKeeps ==
    ASSUME TokenInv, NEW has \in BOOLEAN, PollSucceeds(has)
    PROVE  TokenInv'
<1>1. UNCHANGED <<retires, lost, attempt, tasks>> /\ phase' = "options"
  BY DEF PollSucceeds
<1>2. issued = 0 /\ refresh_token = 0 /\ tasks = [a \in Attempts |-> NoTask]
  BY DEF PollSucceeds, TokenInv, NotYet
<1>3. CASE UNCHANGED <<refresh_token, issued>>
  BY <1>1, <1>3, OtherSteps DEF tokenVars, TokenInv, TokenTypes
<1>4. CASE KeepFirstToken
  <2>1. issued' = 1 /\ refresh_token' = 1
    BY <1>4 DEF KeepFirstToken
  <2>2. \A a \in Attempts : tasks[a].used = 0 /\ tasks[a].rotated = 0 /\ tasks[a].pc = "none"
    BY <1>2 DEF NoTask
  <2>3. TokenTypes'
    BY <1>1, <2>1, <2>2 DEF TokenInv, TokenTypes
  <2>4. OneNewest'
    BY <1>1, <2>1, <2>2 DEF OneNewest
  <2> QED BY <1>1, <2>1, <2>3, <2>4 DEF TokenInv, NotYet
<1> QED BY <1>3, <1>4 DEF PollSucceeds

LEMMA NextToken == TokenInv /\ [Next]_vars => TokenInv'
<1> SUFFICES ASSUME TokenInv, [Next]_vars PROVE TokenInv'
  OBVIOUS
<1> DEFINE Early == {"launched", "identity", "polling", "polled"}
<1>0. attempt \in 0..MaxAttempts
  BY DEF TokenInv, TokenTypes
<1>1. CASE UNCHANGED vars
  BY <1>0, <1>1, OtherSteps DEF vars, authVars, startVars, tokenVars
<1>2. CASE start_host
  <2>1. UNCHANGED tokenVars /\ UNCHANGED attempt
        /\ (phase' \in Early => phase \in Early)
    BY <1>2 DEF start_host, Configure, ResolveUser, IdentityFails, ConnectOptions,
                ConnectOptionsFail, Connect, ConnectFails, Connected, ConnectGivesUp,
                Subscribe, SubscribeFails, Goto,
                authVars, tokenVars
  <2> QED BY <1>0, <2>1, OtherSteps
<1>3. CASE SignIn
  <2>1. ASSUME NEW has \in BOOLEAN, PollSucceeds(has) PROVE TokenInv'
    BY <2>1, PollSucceedsKeeps
  <2>2. CASE \/ \E i \in Intervals, e \in Lifetimes : RequestDeviceCode(i, e)
             \/ SignInTimesOut
             \/ Poll
             \/ \E d \in Delays : PollPending(d) \/ PollSlowDown(d)
             \/ PollFails
    <3>1. UNCHANGED tokenVars /\ UNCHANGED attempt
          /\ (phase' \in Early => phase \in Early)
      BY <2>2 DEF RequestDeviceCode, SignInTimesOut, Poll, PollPending, PollSlowDown,
                  PollFails, Goto, authVars, tokenVars
    <3> QED BY <1>0, <3>1, OtherSteps
  <2> QED BY <1>3, <2>1, <2>2 DEF SignIn
<1>4. CASE AuthStep(AuthNext)
  BY <1>4, AuthStepKeeps
<1> QED BY <1>1, <1>2, <1>3, <1>4 DEF Next

(* Once signed in, the agent has, or is about to store, a refresh token    *)
(* the endpoint takes, unless an answer with a new one was lost, for any   *)
(* configuration, any number of attempts and either policy of the server   *)
(* (access_token, fetch_auth).                                             *)
THEOREM TokenSurvives == Spec => []UsableTokenKept
<1>1. TokenInv => UsableTokenKept
  <2> SUFFICES ASSUME TokenInv, issued > 0, ~lost
               PROVE  \/ Accepted(refresh_token)
                      \/ \E a \in Attempts : tasks[a].rotated = issued
    BY DEF UsableTokenKept
  <2>1. refresh_token \in Nat /\ issued \in Nat /\ refresh_token <= issued
        /\ refresh_token > 0
    BY DEF TokenInv, TokenTypes
  <2>2. CASE retires
    <3>1. CASE refresh_token < issued
      BY <2>2, <3>1 DEF TokenInv, OneNewest
    <3>2. CASE refresh_token = issued
      BY <2>2, <3>2 DEF Accepted
    <3> QED BY <2>1, <3>1, <3>2
  <2>3. CASE ~retires
    <3>1. refresh_token # 0
      BY <2>1
    <3> QED BY <2>3, <3>1 DEF Accepted
  <2> QED BY <2>2, <2>3
<1> QED BY <1>1, InitToken, NextToken, PTL DEF Spec

-----------------------------------------------------------------------------
(* Types *)

(* The rest of the types: the callback and the connection, and the times   *)
(* of the sign-in.                                                         *)
StartTypes ==
    /\ callback \in {"none", "token", "jwt", "ready"}
    /\ link \in {"initial", "up", "lost", "failed"}
    /\ phase \in {"launched", "identity", "polling", "polled", "options", "connecting",
                  "subscribing", "running", "failed"}
    /\ (config = None) <=> (phase = "launched")
    /\ phase \in {"options", "connecting", "subscribing", "running"} => user_id # None
    /\ left \in Nat
    /\ poll_interval \in 1..MaxInterval

(* What max(interval, 1) and saturating_add(5) leave of an interval.       *)
LEMMA IntervalBounds ==
    /\ \A i \in Intervals : Max({i, 1}) \in 1..MaxInterval
    /\ \A p \in 1..MaxInterval : Min({p + 5, MaxInterval}) \in 1..MaxInterval
<1>1. MaxInterval \in Nat /\ 1 <= MaxInterval /\ Intervals \subseteq 0..MaxInterval
  BY TimesAssumption
<1>2. ASSUME NEW i \in Intervals PROVE Max({i, 1}) \in 1..MaxInterval
  <2>1. i \in Nat /\ i <= MaxInterval
    BY <1>1
  <2>2. \E x \in {i, 1} : \A y \in {i, 1} : x >= y
    BY <2>1
  <2>3. Max({i, 1}) \in {i, 1} /\ Max({i, 1}) >= 1
    BY <2>2 DEF Max
  <2> QED BY <1>1, <2>1, <2>3
<1>3. ASSUME NEW p \in 1..MaxInterval
      PROVE  Min({p + 5, MaxInterval}) \in 1..MaxInterval
  <2>1. p \in Nat /\ 1 <= p
    BY <1>1
  <2>2. \E x \in {p + 5, MaxInterval} : \A y \in {p + 5, MaxInterval} : x <= y
    BY <1>1, <2>1
  <2>3. /\ Min({p + 5, MaxInterval}) \in {p + 5, MaxInterval}
        /\ Min({p + 5, MaxInterval}) <= MaxInterval
    BY <2>2 DEF Min
  <2> QED BY <1>1, <2>1, <2>3
<1> QED BY <1>2, <1>3

LEMMA MinusNatural ==
    ASSUME NEW a \in Nat, NEW b \in Nat PROVE Minus(a, b) \in Nat
BY DEF Minus

LEMMA InitTypes == Init => StartTypes
<1> SUFFICES ASSUME Init PROVE StartTypes
  OBVIOUS
<1>1. poll_interval \in 1..MaxInterval
  BY TimesAssumption DEF Init
<1> QED BY <1>1 DEF Init, AuthInit, StartTypes

LEMMA StartHostTypes ==
    ASSUME StartTypes, start_host PROVE StartTypes'
<1>1. left' = left /\ poll_interval' = poll_interval /\ left \in Nat
      /\ poll_interval \in 1..MaxInterval
  BY DEF StartTypes, start_host, Configure, ResolveUser, IdentityFails, ConnectOptions,
         ConnectOptionsFail, Connect, ConnectFails, Connected, ConnectGivesUp,
         Subscribe, SubscribeFails, Goto
<1>2. callback' \in {"none", "token", "jwt", "ready"}
      /\ link' \in {"initial", "up", "lost", "failed"}
  BY DEF StartTypes, start_host, Configure, ResolveUser, IdentityFails, ConnectOptions,
         ConnectOptionsFail, Connect, ConnectFails, Connected, ConnectGivesUp,
         Subscribe, SubscribeFails, Goto, authVars
<1>3. ASSUME NEW launch \in Launches, Configure(launch)
      PROVE  /\ phase' \in {"identity", "failed"}
             /\ config' # None
  BY <1>3 DEF Configure, Some, None
<1>4. CASE ResolveUser
  BY <1>1, <1>2, <1>4 DEF ResolveUser, StartTypes
<1>5. CASE \/ IdentityFails \/ ConnectOptions \/ ConnectOptionsFail \/ Connect
           \/ ConnectFails \/ Connected \/ ConnectGivesUp \/ Subscribe \/ SubscribeFails
  <2>1. UNCHANGED <<config, user_id>>
    BY <1>5 DEF IdentityFails, ConnectOptions, ConnectOptionsFail, Connect, ConnectFails,
                Connected, ConnectGivesUp, Subscribe, SubscribeFails, Goto
  <2>2. /\ phase \notin {"launched", "failed"}
        /\ \/ phase' = "failed"
           \/ /\ phase' \in {"connecting", "subscribing", "running"}
              /\ phase \in {"options", "connecting", "subscribing"}
    BY <1>5 DEF IdentityFails, ConnectOptions, ConnectOptionsFail, Connect, ConnectFails,
                Connected, ConnectGivesUp, Subscribe, SubscribeFails, Goto
  <2> QED BY <1>1, <1>2, <2>1, <2>2 DEF StartTypes
<1>6. ASSUME NEW launch \in Launches, Configure(launch) PROVE StartTypes'
  BY <1>1, <1>2, <1>3, <1>6 DEF StartTypes
<1> QED BY <1>4, <1>5, <1>6 DEF start_host

LEMMA SignInTypes ==
    ASSUME StartTypes, SignIn PROVE StartTypes'
<1>0. /\ left \in Nat /\ poll_interval \in Nat
      /\ Lifetimes \subseteq Nat /\ Delays \subseteq Nat /\ 0 \in Nat
  BY TimesAssumption DEF StartTypes
<1>1. left' \in Nat
  <2>1. Minus(left, poll_interval) \in Nat /\ \A d \in Delays : Minus(left, d) \in Nat
    BY <1>0, MinusNatural
  <2>2. \/ left' \in Lifetimes \/ left' = left \/ left' = 0
        \/ left' = Minus(left, poll_interval)
        \/ \E d \in Delays : left' = Minus(left, d)
    BY DEF SignIn, RequestDeviceCode, SignInTimesOut, Poll, PollPending,
           PollSlowDown, PollSucceeds, PollFails, Goto
  <2> QED BY <1>0, <2>1, <2>2
<1>2. poll_interval' \in 1..MaxInterval
  <2>1. poll_interval \in 1..MaxInterval /\ 1 \in 1..MaxInterval
    BY TimesAssumption DEF StartTypes
  <2> QED BY <2>1, IntervalBounds
             DEF SignIn, RequestDeviceCode, SignInTimesOut, Poll, PollPending,
                 PollSlowDown, PollSucceeds, PollFails, Goto
<1>3. UNCHANGED <<config, callback, link>>
  BY DEF SignIn, RequestDeviceCode, SignInTimesOut, Poll, PollPending, PollSlowDown,
         PollSucceeds, PollFails, Goto, authVars
<1>4. /\ phase \in {"identity", "polling", "polled"}
      /\ \/ phase' \in {"polling", "polled", "failed"}
         \/ phase' = "options" /\ user_id' # None
  BY DEF SignIn, RequestDeviceCode, SignInTimesOut, Poll, PollPending, PollSlowDown,
         PollSucceeds, PollFails, Goto, Some, None
<1> QED BY <1>1, <1>2, <1>3, <1>4 DEF StartTypes

LEMMA AuthTypes ==
    ASSUME StartTypes, AuthStep(AuthNext) PROVE StartTypes'
<1>1. UNCHANGED <<phase, config, user_id, left, poll_interval>>
  BY DEF AuthStep, startVars
<1>2. callback' \in {"none", "token", "jwt", "ready"}
      /\ link' \in {"initial", "up", "lost", "failed"}
  BY DEF StartTypes, AuthStep, AuthNext, NatsClient, BeginAttempt, Abandon, AttemptFails,
         ServerAcceptsAuth, ServerRejectsAuth, LinkLost, fetch_auth, TokenAcquired,
         TokenFailed, JwtArrives, JwtFails, TokenTask, ReadToken, EndpointGrants,
         RequestFails, AnswerArrives
<1> QED BY <1>1, <1>2 DEF StartTypes

LEMMA NextTypes == StartTypes /\ [Next]_vars => StartTypes'
<1> SUFFICES ASSUME StartTypes, [Next]_vars PROVE StartTypes'
  OBVIOUS
<1>1. CASE UNCHANGED vars
  BY <1>1 DEF vars, startVars, authVars, StartTypes
<1> QED BY <1>1, StartHostTypes, SignInTypes, AuthTypes DEF Next

(* Types; there is a configuration from the first step on and a user id    *)
(* before the connection, and the interval between two polls is never 0    *)
(* and never overflows, whatever the endpoint asks for (start_host,        *)
(* DeviceCodeIdentity::identity, fetch_auth).                              *)
THEOREM StartHostTypeCorrect == Spec => []TypeOK
<1>1. TokenInv /\ StartTypes => TypeOK
  <2> SUFFICES ASSUME TokenInv, StartTypes PROVE TypeOK
    OBVIOUS
  <2>1. /\ issued \in Nat /\ refresh_token \in 0..issued
        /\ retires \in BOOLEAN /\ lost \in BOOLEAN /\ attempt \in 0..MaxAttempts
    BY DEF TokenInv, TokenTypes
  <2>2. tasks \in [Attempts -> [pc : {"none", "read", "sent", "answered", "done", "failed"},
                                used : 0..issued, rotated : 0..issued]]
    <3>1. ASSUME NEW a \in Attempts
          PROVE  tasks[a] \in
                   [pc : {"none", "read", "sent", "answered", "done", "failed"},
                    used : 0..issued, rotated : 0..issued]
      <4>1. tasks[a] \in Task /\ tasks[a].used <= issued /\ tasks[a].rotated <= issued
        BY DEF TokenInv, TokenTypes
      <4> QED BY <2>1, <4>1 DEF Task
    <3> QED BY <3>1 DEF TokenInv, TokenTypes
  <2>3. AuthTypeOK
    BY <2>1, <2>2 DEF StartTypes, AuthTypeOK
  <2> QED BY <2>3 DEF StartTypes, TypeOK
<1> QED BY <1>1, InitToken, NextToken, InitTypes, NextTypes, PTL DEF Spec

-----------------------------------------------------------------------------
(* Configuration and user id *)

(* What a start that is under way was launched with, and what it has made  *)
(* of it so far.                                                           *)
LaunchedWith(launch) ==
    /\ config = Some(Config(launch))
    /\ phase # "failed" => Config(launch).valid
    /\ phase \in {"polling", "polled"} => Config(launch).identity = "device-code"
    /\ user_id # None /\ Config(launch).identity = "windows-username" =>
          /\ user_id = Some(user_id_from_username(launch.username))
          /\ normalized(launch.username) # <<>>

LaunchInv ==
    IF phase = "launched" THEN config = None /\ user_id = None
    ELSE \E launch \in Launches : LaunchedWith(launch)

LEMMA CfgIsConfig ==
    ASSUME NEW launch, config = Some(Config(launch))
    PROVE  Cfg = Config(launch)
BY DEF Cfg, Some

(* What the heads hand over in the cases the properties are about.         *)
LEMMA UsernameConfig ==
    ASSUME NEW launch, Config(launch).identity = "windows-username"
    PROVE  launch.head = "windows" /\ Config(launch).user = Some(launch.username)
<1>1. launch.head = "windows"
  BY DEF Config, ConsoleConfig
<1> QED BY <1>1 DEF Config, WindowsConfig

LEMMA ResolvedNotBlank ==
    ASSUME NEW env, NEW file
    PROVE  NonBlank(resolved_opt(env, file)) = resolved_opt(env, file)
BY DEF NonBlank, resolved_opt

LEMMA ExternalConfig ==
    ASSUME NEW launch, Config(launch).auth = "external", Config(launch).valid
    PROVE  /\ Config(launch).identity = "device-code"
           /\ NonBlank(Config(launch).client_id) # None
           /\ NonBlank(Config(launch).auth_scope) # None
           /\ Config(launch).extra_scopes = Config(launch).auth_scope
           /\ \A u \in Config(launch).auth_url : u.text \in HttpsUrls
           /\ Config(launch).sink
<1> DEFINE c == Config(launch)
           opt(f) == resolved_opt(launch.env[f], load(launch)[f])
           url == opt("nats_auth_service_url")
           scope == opt("nats_auth_service_scope")
           client == opt("aad_client_id")
<1>1. launch.head = "windows"
  BY DEF Config, ConsoleConfig
<1>2. /\ c.auth_url = url /\ c.auth_scope = scope /\ c.client_id = client
      /\ c.identity = IF client # None THEN "device-code" ELSE "windows-username"
      /\ c.extra_scopes = IF url # None THEN scope ELSE None
      /\ c.auth = "external" => url # None
      /\ c.valid => validate_auth_service_config(url, scope, client # None)
      /\ c.sink
  BY <1>1 DEF Config, WindowsConfig
<1>3. NonBlank(client) = client /\ NonBlank(scope) = scope
  BY ResolvedNotBlank
<1> HIDE DEF c, url, scope, client
<1>4. c.auth = "external" /\ c.valid
  BY DEF c
<1>5. client # None /\ scope # None /\ \A u \in url : u.text \in HttpsUrls
  BY <1>2, <1>4 DEF validate_auth_service_config
<1>6. /\ c.identity = "device-code" /\ NonBlank(c.client_id) # None
      /\ NonBlank(c.auth_scope) # None /\ c.extra_scopes = c.auth_scope
      /\ (\A u \in c.auth_url : u.text \in HttpsUrls) /\ c.sink
  BY <1>2, <1>3, <1>4, <1>5
<1> QED BY <1>6 DEF c

LEMMA NextLaunch == LaunchInv /\ [Next]_vars => LaunchInv'
<1> SUFFICES ASSUME LaunchInv, [Next]_vars PROVE LaunchInv'
  OBVIOUS
<1>1. ASSUME UNCHANGED <<phase, config, user_id>> PROVE LaunchInv'
  BY <1>1 DEF LaunchInv, LaunchedWith
<1>2. ASSUME NEW launch \in Launches, Configure(launch) PROVE LaunchInv'
  <2>1. /\ phase' = IF Config(launch).valid THEN "identity" ELSE "failed"
        /\ config' = Some(Config(launch))
        /\ user_id' = None
    BY <1>2 DEF Configure, LaunchInv
  <2>2. LaunchedWith(launch)'
    BY <2>1 DEF LaunchedWith
  <2> QED BY <2>1, <2>2 DEF LaunchInv
<1>3. ASSUME phase # "launched", phase' # "launched", UNCHANGED <<config, user_id>>,
             phase' # "failed" => phase # "failed",
             phase' \in {"polling", "polled"} =>
                 phase \in {"polling", "polled"} \/ Cfg.identity = "device-code"
      PROVE  LaunchInv'
  <2>1. PICK launch \in Launches : LaunchedWith(launch)
    BY <1>3 DEF LaunchInv
  <2>2. Cfg = Config(launch)
    BY <2>1, CfgIsConfig DEF LaunchedWith
  <2>3. LaunchedWith(launch)'
    BY <1>3, <2>1, <2>2 DEF LaunchedWith
  <2> QED BY <1>3, <2>3 DEF LaunchInv
<1>4. CASE ResolveUser
  <2>1. PICK launch \in Launches : LaunchedWith(launch)
    BY <1>4 DEF ResolveUser, LaunchInv
  <2>2. Cfg = Config(launch)
    BY <2>1, CfgIsConfig DEF LaunchedWith
  <2>3. /\ phase = "identity" /\ phase' \in {"failed", "options"}
        /\ config' = config /\ user_id' = UserId
    BY <1>4 DEF ResolveUser
  <2>4. ASSUME UserId # None, Config(launch).identity = "windows-username"
        PROVE  /\ UserId = Some(user_id_from_username(launch.username))
               /\ normalized(launch.username) # <<>>
    <3>1. Cfg.user = Some(launch.username) /\ Cfg.identity = "windows-username"
      BY <2>2, <2>4, UsernameConfig
    <3> QED BY <2>4, <3>1 DEF UserId, Some, None
  <2>5. LaunchedWith(launch)'
    BY <2>1, <2>3, <2>4 DEF LaunchedWith
  <2> QED BY <2>3, <2>5 DEF LaunchInv
<1>5. ASSUME NEW has \in BOOLEAN, PollSucceeds(has) PROVE LaunchInv'
  <2>1. PICK launch \in Launches : LaunchedWith(launch)
    BY <1>5 DEF PollSucceeds, LaunchInv
  <2>2. phase = "polled" /\ phase' = "options" /\ config' = config
    BY <1>5 DEF PollSucceeds
  <2>3. LaunchedWith(launch)'
    BY <2>1, <2>2 DEF LaunchedWith
  <2> QED BY <2>2, <2>3 DEF LaunchInv
<1>6. CASE \/ IdentityFails \/ ConnectOptions \/ ConnectOptionsFail \/ Connect
           \/ ConnectFails \/ Connected \/ ConnectGivesUp \/ Subscribe \/ SubscribeFails
  BY <1>3, <1>6 DEF IdentityFails, ConnectOptions, ConnectOptionsFail, Connect,
              ConnectFails, Connected, ConnectGivesUp, Subscribe, SubscribeFails, Goto
<1>7. CASE \/ \E i \in Intervals, e \in Lifetimes : RequestDeviceCode(i, e)
           \/ SignInTimesOut
           \/ Poll
           \/ \E d \in Delays : PollPending(d) \/ PollSlowDown(d)
           \/ PollFails
  BY <1>3, <1>7 DEF RequestDeviceCode, SignInTimesOut, Poll, PollPending, PollSlowDown,
              PollFails, Goto
<1>8. CASE AuthStep(AuthNext) \/ UNCHANGED vars
  BY <1>1, <1>8 DEF AuthStep, startVars, vars
<1>9. CASE start_host
  BY <1>2, <1>4, <1>6, <1>9 DEF start_host
<1>10. CASE SignIn
  BY <1>5, <1>7, <1>10 DEF SignIn
<1> QED BY <1>8, <1>9, <1>10 DEF Next

LEMMA AlwaysLaunchInv == Spec => []LaunchInv
<1>1. Init => LaunchInv
  BY DEF Init, LaunchInv
<1> QED BY <1>1, NextLaunch, PTL DEF Spec

(* A head that starts an agent with the auth service has a client id, a    *)
(* scope the user was asked for, an https URL and a place for the refresh  *)
(* token, for every environment and every settings file: the expect calls  *)
(* of start_host cannot fail (validate_auth_service_config, resolved_opt). *)
THEOREM ExternalAuthAlwaysComplete == Spec => []ExternalAuthIsComplete
<1>1. LaunchInv => ExternalAuthIsComplete
  <2> SUFFICES ASSUME LaunchInv, phase \notin {"launched", "failed"}, Cfg.auth = "external"
               PROVE  /\ Cfg.identity = "device-code"
                      /\ NonBlank(Cfg.client_id) # None
                      /\ NonBlank(Cfg.auth_scope) # None
                      /\ Cfg.extra_scopes = Cfg.auth_scope
                      /\ \A u \in Cfg.auth_url : u.text \in HttpsUrls
                      /\ Cfg.sink
    BY DEF ExternalAuthIsComplete
  <2>1. PICK launch \in Launches : LaunchedWith(launch)
    BY DEF LaunchInv
  <2>2. Cfg = Config(launch) /\ Config(launch).valid
    BY <2>1, CfgIsConfig DEF LaunchedWith
  <2> QED BY <2>2, ExternalConfig
<1> QED BY <1>1, AlwaysLaunchInv, PTL

(* The least of a set of naturals, and the greatest below a bound.         *)
LEMMA LeastNatural ==
    ASSUME NEW S \in SUBSET Nat, S # {}
    PROVE  \E n \in S : \A m \in S : n <= m
<1> DEFINE R == StrictSubsetOrdering(Nat)
           T == {0..n : n \in S}
<1>1. T \subseteq FiniteSubsetsOf(Nat) /\ T # {}
  <2> SUFFICES ASSUME NEW n \in S PROVE 0..n \in FiniteSubsetsOf(Nat)
    OBVIOUS
  <2>1. 0..n \in SUBSET Nat /\ IsFiniteSet(0..n)
    BY FS_Interval
  <2> QED BY <2>1 DEF FiniteSubsetsOf
<1>2. PICK x \in T : \A y \in T : ~(<<y, x>> \in R)
  <2>1. IsWellFoundedOn(R, FiniteSubsetsOf(Nat))
    BY FS_StrictSubsetOrderingWellFounded
  <2> HIDE DEF R, T
  <2> QED BY <1>1, <2>1, WFMin
<1>3. PICK n \in S : x = 0..n
  OBVIOUS
<1>4. ASSUME NEW m \in S, m < n PROVE FALSE
  <2>1. 0..m \subseteq 0..n /\ 0..m # 0..n
    BY <1>4
  <2>2. <<0..m, 0..n>> \in R
    BY <2>1 DEF StrictSubsetOrdering
  <2> QED BY <1>2, <1>3, <2>2
<1> QED BY <1>4

LEMMA GreatestNatural ==
    ASSUME NEW b \in Nat, NEW S \in SUBSET (0..b), S # {}
    PROVE  \E n \in S : \A m \in S : m <= n
<1> DEFINE T == {n \in Nat : n <= b /\ b - n \in S}
<1>1. T \in SUBSET Nat /\ T # {}
  <2>1. PICK n \in S : TRUE
    OBVIOUS
  <2>2. b - n \in T
    BY <2>1
  <2> QED BY <2>2
<1>2. PICK n \in T : \A m \in T : n <= m
  <2> HIDE DEF T
  <2> QED BY <1>1, LeastNatural
<1>3. ASSUME NEW m \in S PROVE m <= b - n
  <2>1. b - m \in T
    OBVIOUS
  <2> QED BY <1>2, <2>1
<1> QED BY <1>2, <1>3

(* What trimming and stripping leave of a name, given where its ink begins *)
(* and ends, and where its last separator is.                              *)
LEMMA TrimmedName ==
    ASSUME NEW s \in Seq(Alphabet), NEW a \in 1..Len(s), NEW b \in 1..Len(s), a <= b,
           s[a] # Space, s[b] # Space,
           \A k \in 1..(a - 1) : s[k] = Space,
           \A k \in (b + 1)..Len(s) : s[k] = Space
    PROVE  trimmed_name(s) = SubSeq(s, a, b)
<1> DEFINE ink == {i \in DOMAIN s : s[i] # Space}
<1>1. DOMAIN s = 1..Len(s) /\ Len(s) \in Nat
  BY LenProperties
<1>2. a \in ink /\ b \in ink /\ \A i \in ink : i \in Nat /\ a <= i /\ i <= b
  BY <1>1
<1>3. Min(ink) = a /\ Max(ink) = b
  <2> HIDE DEF ink
  <2>1. a \in Nat /\ b \in Nat
    BY <1>1
  <2>2. Min(ink) \in ink /\ \A i \in ink : Min(ink) <= i
    BY <1>2 DEF Min
  <2>3. Max(ink) \in ink /\ \A i \in ink : Max(ink) >= i
    BY <1>2 DEF Max
  <2>4. Min(ink) \in Nat /\ a <= Min(ink) /\ Min(ink) <= a
    BY <1>2, <2>2
  <2>5. Max(ink) \in Nat /\ Max(ink) <= b /\ Max(ink) >= b
    BY <1>2, <2>3
  <2> QED BY <2>1, <2>4, <2>5
<1>4. ink # {}
  BY <1>2
<1> QED BY <1>3, <1>4 DEF trimmed_name

LEMMA StrippedName ==
    ASSUME NEW s \in Seq(Alphabet), NEW m \in 0..Len(s),
           m = 0 \/ s[m] = Backslash,
           \A k \in (m + 1)..Len(s) : s[k] # Backslash
    PROVE  strip_domain_prefix(s) = SubSeq(s, m + 1, Len(s))
<1> DEFINE separators == {i \in DOMAIN s : s[i] = Backslash}
<1>1. DOMAIN s = 1..Len(s) /\ Len(s) \in Nat
  BY LenProperties
<1>2. \A i \in separators : i \in Nat /\ i <= m
  BY <1>1
<1>3. CASE m = 0
  <2>1. separators = {}
    BY <1>1, <1>3
  <2>2. SubSeq(s, 1, Len(s)) = s
    BY SubSeqFull
  <2> QED BY <1>3, <2>1, <2>2 DEF strip_domain_prefix
<1>4. CASE m # 0
  <2>1. m \in separators
    BY <1>1, <1>4
  <2>2. Max(separators) = m
    <3> HIDE DEF separators
    <3>1. Max(separators) \in separators /\ \A i \in separators : Max(separators) >= i
      BY <1>2, <2>1 DEF Max
    <3>2. Max(separators) \in Nat /\ Max(separators) <= m /\ Max(separators) >= m
      BY <1>2, <2>1, <3>1
    <3> QED BY <1>1, <3>2
  <2> QED BY <2>1, <2>2 DEF strip_domain_prefix
<1> QED BY <1>3, <1>4

LEMMA EmptyName ==
    /\ trimmed_name(<<>>) = <<>> /\ strip_domain_prefix(<<>>) = <<>>
    /\ to_lowercase(<<>>) = <<>>
<1>1. DOMAIN <<>> = {}
  OBVIOUS
<1> QED BY <1>1 DEF trimmed_name, strip_domain_prefix, to_lowercase

(* The first and the last character of a name that is not blank.           *)
LEMMA Ink ==
    ASSUME NEW s \in Seq(Alphabet), \E i \in 1..Len(s) : s[i] # Space
    PROVE  \E a, b \in 1..Len(s) :
              /\ a <= b
              /\ s[a] # Space /\ s[b] # Space
              /\ \A k \in 1..(a - 1) : s[k] = Space
              /\ \A k \in (b + 1)..Len(s) : s[k] = Space
<1> DEFINE ink == {i \in 1..Len(s) : s[i] # Space}
<1>1. Len(s) \in Nat
  BY LenProperties
<1>2. ink \in SUBSET Nat /\ ink \in SUBSET (0..Len(s)) /\ ink # {}
  BY <1>1
<1>3. PICK a \in ink : \A i \in ink : a <= i
  <2> HIDE DEF ink
  <2> QED BY <1>2, LeastNatural
<1>4. PICK b \in ink : \A i \in ink : i <= b
  <2> HIDE DEF ink
  <2> QED BY <1>1, <1>2, GreatestNatural
<1>5. \A k \in 1..(a - 1) : s[k] = Space
  BY <1>1, <1>3
<1>6. \A k \in (b + 1)..Len(s) : s[k] = Space
  BY <1>1, <1>4
<1>7. a <= b
  BY <1>1, <1>3, <1>4
<1> QED BY <1>3, <1>4, <1>5, <1>6, <1>7

(* The part of a name that normalised() keeps is where its account is.     *)
LEMMA NormalizedIsAccount ==
    ASSUME NEW raw \in Seq(Alphabet),
           \/ normalized(raw) # <<>>
           \/ \E i, j \in 1..Len(raw) : i <= j /\ AccountAt(raw, i, j)
    PROVE  \E i, j \in 1..Len(raw) :
              i <= j /\ AccountAt(raw, i, j) /\ normalized(raw) = to_lowercase(SubSeq(raw, i, j))
<1>1. Len(raw) \in Nat /\ DOMAIN raw = 1..Len(raw)
  BY LenProperties
<1>2. \E i \in 1..Len(raw) : raw[i] # Space
  <2> SUFFICES ASSUME \A i \in 1..Len(raw) : raw[i] = Space PROVE FALSE
    OBVIOUS
  <2>1. trimmed_name(raw) = <<>>
    BY <1>1 DEF trimmed_name
  <2>2. normalized(raw) = <<>>
    BY <2>1, EmptyName DEF normalized
  <2> QED BY <1>1, <2>2 DEF AccountAt
<1>3. PICK f, b \in 1..Len(raw) :
         /\ f <= b
         /\ raw[f] # Space /\ raw[b] # Space
         /\ \A k \in 1..(f - 1) : raw[k] = Space
         /\ \A k \in (b + 1)..Len(raw) : raw[k] = Space
  BY <1>2, Ink
<1> DEFINE t == SubSeq(raw, f, b)
<1>4. trimmed_name(raw) = t
  BY <1>3, TrimmedName
<1>5. /\ t \in Seq(Alphabet) /\ Len(t) = b - f + 1
      /\ \A k \in 1..(b - f + 1) : t[k] = raw[f + k - 1]
  <2>1. \A k \in f..b : raw[k] \in Alphabet
    BY <1>1, ElementOfSeq
  <2>2. f \in Int /\ b \in Int /\ f <= b
    BY <1>1, <1>3
  <2> QED BY <2>1, <2>2, SubSeqProperties
<1> HIDE DEF t
<1>6. PICK m \in 0..Len(t) : /\ m = 0 \/ t[m] = Backslash
                             /\ \A k \in (m + 1)..Len(t) : t[k] # Backslash
  <2> DEFINE S == {k \in 0..Len(t) : k = 0 \/ t[k] = Backslash}
  <2>1. S \in SUBSET (0..Len(t)) /\ S # {} /\ Len(t) \in Nat
    <3>1. 0 \in S
      BY <1>1, <1>5
    <3> QED BY <1>1, <1>5, <3>1
  <2>2. PICK m \in S : \A k \in S : k <= m
    <3> HIDE DEF S
    <3> QED BY <2>1, GreatestNatural
  <2>3. \A k \in (m + 1)..Len(t) : t[k] # Backslash
    BY <2>1, <2>2
  <2> QED BY <2>2, <2>3
<1> DEFINE u == SubSeq(t, m + 1, Len(t))
<1>7. strip_domain_prefix(t) = u
  BY <1>5, <1>6, StrippedName
<1>8. m < Len(t)
  <2> SUFFICES ASSUME m = Len(t) PROVE FALSE
    BY <1>1, <1>5
  <2>1. u = <<>>
    BY <1>1, <1>5, SubSeqEmpty
  <2>2. normalized(raw) = <<>>
    BY <1>4, <1>7, <2>1, EmptyName DEF normalized
  <2>3. PICK x, y \in 1..Len(raw) : x <= y /\ AccountAt(raw, x, y)
    BY <2>2
  <2>4. t[m] = Backslash /\ raw[b] = Backslash
    <3>1. Len(t) \in 1..(b - f + 1) /\ Len(t) # 0 /\ f + Len(t) - 1 = b
      BY <1>1, <1>3, <1>5
    <3>2. t[Len(t)] = raw[f + Len(t) - 1]
      BY <1>5, <3>1
    <3> QED BY <1>6, <3>1, <3>2
  <2>5. y = b
    <3>1. ~(y < b)
      BY <1>1, <1>3, <2>3 DEF AccountAt
    <3>2. ~(b < y)
      BY <1>1, <1>3, <2>3 DEF AccountAt
    <3> QED BY <1>1, <3>1, <3>2
  <2> QED BY <1>1, <2>3, <2>4, <2>5 DEF AccountAt
<1>9. u = SubSeq(raw, f + m, b)
  <2>1. /\ m + 1 \in 1..(b - f + 1) /\ Len(t) \in 1..(b - f + 1)
        /\ f \in 1..Len(raw) /\ b \in 1..Len(raw)
        /\ f + (m + 1) - 1 = f + m /\ f + Len(t) - 1 = b
    BY <1>1, <1>5, <1>8
  <2>2. SubSeq(SubSeq(raw, f, b), m + 1, Len(t))
          = SubSeq(raw, f + (m + 1) - 1, f + Len(t) - 1)
    BY <2>1, SubSeqOfSubSeq
  <2> QED BY <2>1, <2>2 DEF t
<1> HIDE DEF u
<1>10. /\ u \in Seq(Alphabet) /\ Len(u) = b - f - m + 1
       /\ \A k \in 1..(b - f - m + 1) : u[k] = raw[f + m + k - 1]
  <2>1. \A k \in (f + m)..b : raw[k] \in Alphabet
    BY <1>1, ElementOfSeq
  <2>2. f + m \in Int /\ b \in Int /\ f + m <= b /\ b - (f + m) + 1 = b - f - m + 1
    BY <1>1, <1>5, <1>8
  <2> QED BY <1>9, <2>1, <2>2, SubSeqProperties
<1>11. Len(u) \in 1..Len(u) /\ u[Len(u)] # Space
  BY <1>1, <1>3, <1>5, <1>8, <1>10
<1>12. PICK a, c \in 1..Len(u) :
          /\ a <= c
          /\ u[a] # Space /\ u[c] # Space
          /\ \A k \in 1..(a - 1) : u[k] = Space
          /\ \A k \in (c + 1)..Len(u) : u[k] = Space
  BY <1>10, <1>11, Ink
<1>13. c = Len(u)
  BY <1>1, <1>10, <1>11, <1>12
<1> DEFINE i == f + m + a - 1
<1>14. i \in 1..Len(raw) /\ b \in 1..Len(raw) /\ i <= b
  BY <1>1, <1>5, <1>8, <1>10, <1>12
<1>15. normalized(raw) = to_lowercase(SubSeq(raw, i, b))
  <2>1. trimmed_name(u) = SubSeq(u, a, Len(u))
    BY <1>10, <1>12, <1>13, TrimmedName
  <2>2. /\ f + m \in 1..Len(raw) /\ b \in 1..Len(raw)
        /\ a \in 1..(b - (f + m) + 1) /\ Len(u) \in 1..(b - (f + m) + 1)
        /\ f + m + Len(u) - 1 = b
    BY <1>1, <1>5, <1>8, <1>10, <1>11, <1>12
  <2>3. SubSeq(SubSeq(raw, f + m, b), a, Len(u)) = SubSeq(raw, i, f + m + Len(u) - 1)
    BY <2>2, SubSeqOfSubSeq
  <2>4. trimmed_name(u) = SubSeq(raw, i, b)
    BY <1>9, <2>1, <2>2, <2>3
  <2> QED BY <1>4, <1>7, <2>4 DEF normalized
<1>16. AccountAt(raw, i, b)
  <2>1. raw[i] # Space
    BY <1>1, <1>10, <1>12
  <2>2. ASSUME NEW k \in i..b PROVE raw[k] # Backslash
    <3>1. k - f + 1 \in (m + 1)..Len(t) /\ f + (k - f + 1) - 1 = k
      BY <1>1, <1>5, <1>12
    <3>2. k - f + 1 \in 1..(b - f + 1)
      BY <1>1, <1>3, <1>5, <1>6, <3>1
    <3>3. t[k - f + 1] = raw[k]
      BY <1>5, <3>1, <3>2
    <3> QED BY <1>6, <3>1, <3>3
  <2>3. ASSUME NEW k \in 1..(i - 1)
        PROVE  raw[k] = Space \/ \E n \in k..(i - 1) : raw[n] = Backslash
    <3>1. CASE k < f
      BY <1>1, <1>3, <3>1
    <3>2. CASE k >= f /\ k < f + m
      <4>1. m \in 1..Len(t) /\ t[m] = Backslash /\ raw[f + m - 1] = Backslash
        <5>1. m \in 1..Len(t) /\ m # 0 /\ m \in 1..(b - f + 1)
          BY <1>1, <1>3, <1>5, <1>6, <3>2
        <5>2. t[m] = raw[f + m - 1]
          BY <1>5, <5>1
        <5> QED BY <1>6, <5>1, <5>2
      <4>2. f + m - 1 \in k..(i - 1)
        BY <1>1, <1>5, <1>12, <3>2
      <4> QED BY <4>1, <4>2
    <3>3. CASE k >= f + m
      <4>1. k - (f + m) + 1 \in 1..(a - 1) /\ f + m + (k - (f + m) + 1) - 1 = k
        BY <1>1, <1>3, <1>5, <1>6, <1>10, <1>12, <2>3, <3>3
      <4>2. k - (f + m) + 1 \in 1..(b - f - m + 1)
        BY <1>1, <1>5, <1>8, <1>10, <1>12, <4>1
      <4> QED BY <1>10, <1>12, <4>1, <4>2
    <3> QED BY <1>1, <1>5, <3>1, <3>2, <3>3
  <2> QED BY <1>3, <2>1, <2>2, <2>3 DEF AccountAt
<1> QED BY <1>14, <1>15, <1>16

(* There is one account to a name at most, and none to a name that nothing *)
(* is left of.                                                             *)
LEMMA AccountIsNormalized ==
    ASSUME NEW raw \in Seq(Alphabet), NEW i \in 1..Len(raw), NEW j \in 1..Len(raw),
           i <= j, AccountAt(raw, i, j)
    PROVE  normalized(raw) = to_lowercase(SubSeq(raw, i, j))
<1>1. Len(raw) \in Nat
  BY LenProperties
<1>2. ASSUME NEW k \in 1..Len(raw), NEW l \in 1..Len(raw), k <= l, AccountAt(raw, k, l)
      PROVE  i = k /\ j = l
  <2>1. j = l
    <3>1. ~(j < l)
      BY <1>1, <1>2 DEF AccountAt
    <3>2. ~(l < j)
      BY <1>1, <1>2 DEF AccountAt
    <3> QED BY <1>1, <3>1, <3>2
  <2>2. ASSUME NEW x \in 1..Len(raw), NEW y \in 1..Len(raw), x < y, y <= j,
               AccountAt(raw, x, j), AccountAt(raw, y, j)
        PROVE  FALSE
    <3>1. x \in 1..(y - 1) /\ raw[x] # Space /\ \A n \in x..(y - 1) : raw[n] # Backslash
      BY <1>1, <2>2 DEF AccountAt
    <3> QED BY <2>2, <3>1 DEF AccountAt
  <2>3. ~(i < k) /\ ~(k < i)
    BY <1>1, <1>2, <2>1, <2>2
  <2> QED BY <1>1, <2>1, <2>3
<1>3. PICK k, l \in 1..Len(raw) :
         k <= l /\ AccountAt(raw, k, l) /\ normalized(raw) = to_lowercase(SubSeq(raw, k, l))
  BY NormalizedIsAccount
<1> QED BY <1>2, <1>3

(* So Account(raw) is the normalised name, or empty.                       *)
LEMMA AccountIsUnique ==
    ASSUME NEW raw \in Seq(Alphabet)
    PROVE  /\ \A name \in Account(raw) : name = normalized(raw)
           /\ normalized(raw) # <<>> => normalized(raw) \in Account(raw)
<1> DEFINE Places == {p \in (1..Len(raw)) \X (1..Len(raw)) :
                        p[1] <= p[2] /\ AccountAt(raw, p[1], p[2])}
<1>1. Account(raw) = {to_lowercase(SubSeq(raw, at[1], at[2])) : at \in Places}
  BY DEF Account
<1>2. ASSUME NEW at \in Places
      PROVE  to_lowercase(SubSeq(raw, at[1], at[2])) = normalized(raw)
  BY <1>2, AccountIsNormalized
<1>3. ASSUME normalized(raw) # <<>> PROVE normalized(raw) \in Account(raw)
  <2>1. PICK i, j \in 1..Len(raw) :
           i <= j /\ AccountAt(raw, i, j) /\ normalized(raw) = to_lowercase(SubSeq(raw, i, j))
    BY <1>3, NormalizedIsAccount
  <2>2. <<i, j>> \in Places /\ <<i, j>>[1] = i /\ <<i, j>>[2] = j
    BY <2>1
  <2> HIDE DEF Places
  <2> QED BY <1>1, <2>1, <2>2
<1> HIDE DEF Places
<1> QED BY <1>1, <1>2, <1>3

(* For names of any length and every digest: whoever the agent is started  *)
(* for has an account, every spelling of it gives one user id, accounts    *)
(* with different digests have different ones, and no user id has a        *)
(* separator of NATS subjects in it (user_id_from_username).               *)
THEOREM UserIdGoesWithAccount == Spec => []UserIdFollowsAccount
<1>1. LaunchInv => UserIdFollowsAccount
  <2> DEFINE id == CHOOSE i \in user_id : TRUE
             me == CHOOSE u \in Cfg.user : TRUE
  <2> SUFFICES ASSUME LaunchInv, user_id # None, Cfg.identity = "windows-username"
               PROVE  /\ \A c \in DOMAIN id.prefix :
                            id.prefix[c] \notin {".", Space, Backslash}
                      /\ AccountOf[me] # {}
                      /\ \A name \in Usernames :
                            \A mine \in AccountOf[me], other \in AccountOf[name] :
                               /\ mine = other => id = user_id_from_username(name)
                               /\ Digest(mine) # Digest(other)
                                    => id # user_id_from_username(name)
    BY DEF UserIdFollowsAccount
  <2>1. PICK launch \in Launches : LaunchedWith(launch)
    BY DEF LaunchInv
  <2>2. Cfg = Config(launch)
    BY <2>1, CfgIsConfig DEF LaunchedWith
  <2>3. me = launch.username /\ launch.head = "windows"
    <3>1. Cfg.user = Some(launch.username) /\ launch.head = "windows"
      BY <2>2, UsernameConfig
    <3> QED BY <3>1 DEF Some
  <2>4. id = user_id_from_username(me) /\ normalized(me) # <<>>
    <3>1. /\ user_id = Some(user_id_from_username(launch.username))
          /\ normalized(launch.username) # <<>>
      BY <2>1, <2>2 DEF LaunchedWith
    <3> QED BY <2>3, <3>1 DEF Some
  <2> HIDE DEF id, me
  <2>5. ASSUME NEW c \in DOMAIN id.prefix
        PROVE  id.prefix[c] \notin {".", Space, Backslash}
    <3>1. id.prefix = sanitized(normalized(me))
      BY <2>4 DEF user_id_from_username
    <3>2. id.prefix[c] \in Allowed \cup {"_"}
      BY <2>5, <3>1 DEF sanitized
    <3> QED BY <3>2, Zenon DEF Allowed, Space, Backslash
  <2>6. \A name \in Usernames : name \in Seq(Alphabet) /\ AccountOf[name] = Account(name)
    BY UsernamesAssumption DEF Usernames, AccountOf
  <2>7. me \in Usernames
    BY <2>3 DEF Usernames
  <2>8. AccountOf[me] # {}
    BY <2>4, <2>6, <2>7, AccountIsUnique
  <2>9. ASSUME NEW name \in Usernames, NEW mine \in AccountOf[me],
               NEW other \in AccountOf[name]
        PROVE  /\ mine = other => id = user_id_from_username(name)
               /\ Digest(mine) # Digest(other) => id # user_id_from_username(name)
    <3>1. mine = normalized(me) /\ other = normalized(name)
      BY <2>6, <2>7, AccountIsUnique
    <3>2. id.hash8 = Digest(mine) /\ user_id_from_username(name).hash8 = Digest(other)
      BY <2>4, <3>1 DEF user_id_from_username, hash_prefix8
    <3> QED BY <2>4, <3>1, <3>2 DEF user_id_from_username
  <2> QED BY <2>5, <2>8, <2>9
<1> QED BY <1>1, AlwaysLaunchInv, PTL

-----------------------------------------------------------------------------
(* The connection *)

(* The callback waits for a task that was started, and it asks the auth    *)
(* service for a JWT, and answers NATS, only with the access token of its  *)
(* own attempt: not with one of an attempt the client gave up (fetch_auth). *)
CallbackHasItsTask ==
    /\ callback = "token" => attempt \in Attempts /\ tasks[attempt].pc # "none"
    /\ callback \in {"jwt", "ready"} => attempt \in Attempts /\ tasks[attempt].pc = "done"

Exchanged == \E a \in Attempts : tasks[a].pc = "done"

(* An agent that authenticates through the auth service is not started     *)
(* unless the sign-in left a refresh token and one was exchanged.          *)
StartedIsAuthenticated ==
    phase \in {"subscribing", "running"} /\ Cfg.auth = "external" =>
        issued > 0 /\ Exchanged

(* Nothing of the connection before the options are there; tasks are those *)
(* of the attempts made; a request is made with an issued token; and a     *)
(* connection that is or was up has had its access token.                  *)
NotConnected ==
    phase \in {"launched", "identity", "polling", "polled", "options"} =>
        link = "initial" /\ callback = "none" /\ attempt = 0
TasksOfAttempts == \A a \in Attempts : a > attempt => tasks[a].pc = "none"
RequestsHaveTokens ==
    \A a \in Attempts : tasks[a].pc \in {"sent", "answered", "done"} => issued > 0
LinkIsAuthenticated ==
    (link \in {"up", "lost"} \/ phase \in {"subscribing", "running"})
      /\ Cfg.auth = "external" => Exchanged

ConnectionInv ==
    /\ NotConnected /\ TasksOfAttempts /\ RequestsHaveTokens
    /\ CallbackHasItsTask /\ LinkIsAuthenticated

(* A task makes progress: it was started, and it does not end before an    *)
(* issued token was sent.                                                  *)
LEMMA TaskKeepsConnection ==
    ASSUME TokenTypes, ConnectionInv, NEW a \in Attempts, TokenTask(a),
           UNCHANGED <<phase, config>>
    PROVE  ConnectionInv'
<1>1. tasks \in [Attempts -> Task] /\ issued \in Nat /\ refresh_token \in Nat
      /\ refresh_token <= issued /\ attempt \in 0..MaxAttempts
  BY DEF TokenTypes
<1>2. UNCHANGED <<attempt, callback, link>>
  BY DEF TokenTask, ReadToken, EndpointGrants, RequestFails, AnswerArrives
<1>3. tasks[a].pc \in {"read", "sent", "answered"}
  BY DEF TokenTask, ReadToken, EndpointGrants, RequestFails, AnswerArrives
<1>4. \A b \in Attempts : b # a => tasks'[b] = tasks[b]
  BY <1>1 DEF TokenTask, ReadToken, EndpointGrants, RequestFails, AnswerArrives
<1>5. tasks'[a].pc \in {"sent", "answered", "done", "failed"}
  <2>1. tasks[a] \in Task
    BY <1>1
  <2>2. CASE ReadToken(a)
    <3>1. tasks'[a] = IF refresh_token = 0 THEN [tasks[a] EXCEPT !.pc = "failed"]
                      ELSE [tasks[a] EXCEPT !.pc = "sent", !.used = refresh_token]
      BY <1>1, <2>2 DEF ReadToken
    <3> QED BY <2>1, <3>1 DEF Task
  <2>3. ASSUME NEW rotates \in BOOLEAN, EndpointGrants(a, rotates)
        PROVE  tasks'[a].pc = "answered"
    BY <1>1, <2>1, <2>3 DEF EndpointGrants, Task
  <2>4. CASE RequestFails(a)
    BY <1>1, <2>1, <2>4 DEF RequestFails, Task
  <2>5. CASE AnswerArrives(a)
    BY <1>1, <2>1, <2>5 DEF AnswerArrives, Task
  <2> QED BY <2>2, <2>3, <2>4, <2>5 DEF TokenTask
<1>6. issued' >= issued /\ issued' \in Nat
  BY <1>1 DEF TokenTask, ReadToken, EndpointGrants, RequestFails, AnswerArrives
<1>7. tasks[a].pc \in {"sent", "answered"} => issued > 0
  BY DEF ConnectionInv, RequestsHaveTokens
<1>8. tasks'[a].pc \in {"sent", "answered", "done"} => issued > 0
  <2>1. CASE ReadToken(a)
    <3>1. CASE refresh_token = 0
      <4>1. tasks'[a].pc = "failed"
        BY <1>1, <2>1, <3>1 DEF ReadToken, Task
      <4> QED BY <4>1
    <3>2. CASE refresh_token # 0
      BY <1>1, <3>2
    <3> QED BY <3>1, <3>2
  <2>2. CASE ~ReadToken(a)
    <3>1. tasks[a].pc \in {"sent", "answered"}
      BY <2>2 DEF TokenTask, EndpointGrants, RequestFails, AnswerArrives
    <3> QED BY <1>7, <3>1
  <2> QED BY <2>1, <2>2
<1>9. a <= attempt
  BY <1>1, <1>3 DEF ConnectionInv, TasksOfAttempts, Attempts
<1>10. \A b \in Attempts : tasks[b].pc = "done" => tasks'[b] = tasks[b]
  BY <1>3, <1>4
<1>11. NotConnected' /\ TasksOfAttempts'
  BY <1>1, <1>2, <1>4, <1>9 DEF ConnectionInv, NotConnected, TasksOfAttempts, Attempts
<1>12. RequestsHaveTokens'
  BY <1>1, <1>4, <1>6, <1>8 DEF ConnectionInv, RequestsHaveTokens
<1>13. CallbackHasItsTask'
  BY <1>2, <1>4, <1>5, <1>10 DEF ConnectionInv, CallbackHasItsTask
<1>14. LinkIsAuthenticated'
  <2>1. Exchanged => Exchanged'
    BY <1>10 DEF Exchanged
  <2>2. Cfg' = Cfg
    BY DEF Cfg
  <2> QED BY <1>2, <2>1, <2>2 DEF ConnectionInv, LinkIsAuthenticated
<1> QED BY <1>11, <1>12, <1>13, <1>14 DEF ConnectionInv

(* A new attempt starts with a task of its own.                            *)
LEMMA BeginKeepsConnection ==
    ASSUME TokenTypes, ConnectionInv, BeginAttempt, UNCHANGED <<phase, config>>,
           phase \in {"connecting", "subscribing", "running"}
    PROVE  ConnectionInv'
<1> DEFINE a == attempt + 1
<1>1. tasks \in [Attempts -> Task] /\ attempt \in 0..MaxAttempts
  BY DEF TokenTypes
<1>2. UNCHANGED <<issued, link>> /\ attempt' = a /\ callback' = "token"
      /\ tasks' = [tasks EXCEPT ![a].pc = "read"]
  BY DEF BeginAttempt
<1>3. a \in Attempts /\ a > attempt /\ \A b \in Attempts : b > a => b > attempt
  BY <1>1, MaxAttemptsAssumption DEF BeginAttempt, Attempts
<1> HIDE DEF a
<1>4. tasks'[a].pc = "read" /\ \A b \in Attempts : b # a => tasks'[b] = tasks[b]
  BY <1>1, <1>2, <1>3 DEF Task
<1>5. tasks[a].pc = "none"
  BY <1>3 DEF ConnectionInv, TasksOfAttempts
<1>6. NotConnected'
  BY DEF NotConnected
<1>7. TasksOfAttempts'
  <2> SUFFICES ASSUME NEW b \in Attempts, b > a PROVE tasks'[b].pc = "none"
    BY <1>2 DEF TasksOfAttempts
  <2>1. b # a
    BY <1>1 DEF Attempts, a
  <2> QED BY <1>3, <1>4, <2>1 DEF ConnectionInv, TasksOfAttempts
<1>8. RequestsHaveTokens'
  BY <1>2, <1>4 DEF ConnectionInv, RequestsHaveTokens
<1>9. CallbackHasItsTask'
  BY <1>2, <1>3, <1>4 DEF CallbackHasItsTask
<1>10. LinkIsAuthenticated'
  <2>1. Exchanged => Exchanged'
    BY <1>4, <1>5 DEF Exchanged
  <2>2. Cfg' = Cfg
    BY DEF Cfg
  <2> QED BY <1>2, <2>1, <2>2 DEF ConnectionInv, LinkIsAuthenticated
<1> QED BY <1>6, <1>7, <1>8, <1>9, <1>10 DEF ConnectionInv

(* The other steps of the client and of the callback move no task.         *)
LEMMA CallbackKeepsConnection ==
    ASSUME TokenTypes, ConnectionInv, UNCHANGED <<phase, config>>,
           phase \in {"connecting", "subscribing", "running"},
           Abandon \/ ServerAcceptsAuth \/ ServerRejectsAuth \/ LinkLost \/ fetch_auth
    PROVE  ConnectionInv'
<1>1. UNCHANGED <<issued, attempt, tasks>>
  BY DEF Abandon, ServerAcceptsAuth, ServerRejectsAuth, LinkLost, fetch_auth,
         TokenAcquired, TokenFailed, JwtArrives, JwtFails
<1>2. NotConnected' /\ TasksOfAttempts' /\ RequestsHaveTokens'
  BY <1>1 DEF ConnectionInv, NotConnected, TasksOfAttempts, RequestsHaveTokens
<1>3. \/ callback' = "none"
      \/ callback' = callback
      \/ callback = "token" /\ callback' = "jwt" /\ tasks[attempt].pc = "done"
      \/ callback = "jwt" /\ callback' = "ready"
  BY DEF Abandon, ServerAcceptsAuth, ServerRejectsAuth, LinkLost, fetch_auth,
         TokenAcquired, TokenFailed, JwtArrives, JwtFails, AttemptFails
<1>4. CallbackHasItsTask'
  BY <1>1, <1>3 DEF ConnectionInv, CallbackHasItsTask
<1>5. link' \in {"up", "lost"} => link \in {"up", "lost"} \/ callback = "ready"
  BY DEF Abandon, ServerAcceptsAuth, ServerRejectsAuth, LinkLost, fetch_auth,
         TokenAcquired, TokenFailed, JwtArrives, JwtFails, AttemptFails
<1>6. callback = "ready" => Exchanged
  BY DEF ConnectionInv, CallbackHasItsTask, Exchanged
<1>7. LinkIsAuthenticated'
  <2>1. Exchanged' = Exchanged /\ Cfg' = Cfg
    BY <1>1 DEF Cfg, Exchanged
  <2> QED BY <1>5, <1>6, <2>1 DEF ConnectionInv, LinkIsAuthenticated
<1> QED BY <1>2, <1>4, <1>7 DEF ConnectionInv

LEMMA AuthKeepsConnection ==
    ASSUME TokenTypes, ConnectionInv, AuthStep(AuthNext)
    PROVE  ConnectionInv'
<1>1. /\ AuthNext /\ UNCHANGED <<phase, config>>
      /\ phase \in {"connecting", "subscribing", "running"}
  BY DEF AuthStep, Authenticating, startVars
<1>2. ASSUME NEW a \in Attempts, TokenTask(a) PROVE ConnectionInv'
  BY <1>1, <1>2, TaskKeepsConnection
<1> QED BY <1>1, <1>2, BeginKeepsConnection, CallbackKeepsConnection
        DEF AuthNext, NatsClient

(* A start that goes on without the client: the connection is up before    *)
(* the subscription, and whoever says so without the callback is not using *)
(* the auth service.                                                       *)
LEMMA StartKeepsConnection ==
    ASSUME TokenTypes, ConnectionInv, start_host
    PROVE  ConnectionInv'
<1>1. UNCHANGED <<issued, attempt, tasks>>
  BY DEF start_host, Configure, ResolveUser, IdentityFails, ConnectOptions,
         ConnectOptionsFail, Connect, ConnectFails, Connected, ConnectGivesUp,
         Subscribe, SubscribeFails, Goto, authVars
<1>2. TasksOfAttempts' /\ RequestsHaveTokens' /\ Exchanged' = Exchanged
  BY <1>1 DEF ConnectionInv, TasksOfAttempts, RequestsHaveTokens, Exchanged
<1>3. callback' \in {callback, "none"}
  BY DEF start_host, Configure, ResolveUser, IdentityFails, ConnectOptions,
         ConnectOptionsFail, Connect, ConnectFails, Connected, ConnectGivesUp,
         Subscribe, SubscribeFails, Goto, authVars
<1>4. CallbackHasItsTask'
  BY <1>1, <1>3 DEF ConnectionInv, CallbackHasItsTask
<1>5. ASSUME NEW launch \in Launches, Configure(launch)
      PROVE  NotConnected' /\ LinkIsAuthenticated'
  <2>1. link = "initial" /\ callback = "none" /\ attempt = 0
    BY <1>5 DEF Configure, ConnectionInv, NotConnected
  <2>2. phase' \in {"identity", "failed"} /\ UNCHANGED <<link, callback, attempt>>
    BY <1>5 DEF Configure, authVars
  <2> QED BY <2>1, <2>2 DEF NotConnected, LinkIsAuthenticated
<1>6. CASE \/ ResolveUser \/ IdentityFails \/ ConnectOptions \/ ConnectOptionsFail \/ Connect
           \/ ConnectFails \/ Connected \/ ConnectGivesUp \/ Subscribe \/ SubscribeFails
  <2>1. config' = config
    BY <1>6 DEF ResolveUser, IdentityFails, ConnectOptions, ConnectOptionsFail, Connect,
                ConnectFails, Connected, ConnectGivesUp, Subscribe, SubscribeFails, Goto
  <2>2. Cfg' = Cfg
    BY <2>1 DEF Cfg
  <2>3. NotConnected'
    BY <1>6 DEF ResolveUser, IdentityFails, ConnectOptions, ConnectOptionsFail, Connect,
                ConnectFails, Connected, ConnectGivesUp, Subscribe, SubscribeFails, Goto,
                authVars, ConnectionInv, NotConnected
  <2>4. \/ Cfg.auth # "external"
        \/ /\ link' = link
           /\ phase' \in {"subscribing", "running"} =>
                 phase \in {"subscribing", "running"} \/ link = "up"
    BY <1>6 DEF ResolveUser, IdentityFails, ConnectOptions, ConnectOptionsFail, Connect,
                ConnectFails, Connected, ConnectGivesUp, Subscribe, SubscribeFails, Goto,
                authVars
  <2>5. LinkIsAuthenticated'
    BY <1>2, <2>2, <2>4 DEF ConnectionInv, LinkIsAuthenticated
  <2> QED BY <1>2, <1>4, <2>3, <2>5 DEF ConnectionInv
<1> QED BY <1>2, <1>4, <1>5, <1>6 DEF start_host, ConnectionInv

(* During the sign-in there is no connection.                              *)
LEMMA SignInKeepsConnection ==
    ASSUME TokenTypes, ConnectionInv, SignIn
    PROVE  ConnectionInv'
<1>1. UNCHANGED <<config, attempt, tasks, link, callback>>
  BY DEF SignIn, RequestDeviceCode, SignInTimesOut, Poll, PollPending, PollSlowDown,
         PollSucceeds, PollFails, Goto, authVars
<1>2. /\ phase \in {"identity", "polling", "polled"}
      /\ phase' \in {"polling", "polled", "options", "failed"}
  BY DEF SignIn, RequestDeviceCode, SignInTimesOut, Poll, PollPending, PollSlowDown,
         PollSucceeds, PollFails, Goto
<1>3. link = "initial" /\ callback = "none" /\ attempt = 0
  BY <1>2 DEF ConnectionInv, NotConnected
<1>4. \A a \in Attempts : tasks[a].pc = "none"
  BY <1>3 DEF ConnectionInv, TasksOfAttempts, Attempts
<1>5. NotConnected' /\ CallbackHasItsTask' /\ LinkIsAuthenticated'
  BY <1>1, <1>2, <1>3 DEF NotConnected, CallbackHasItsTask, LinkIsAuthenticated
<1>6. TasksOfAttempts' /\ RequestsHaveTokens'
  BY <1>1, <1>4 DEF TasksOfAttempts, RequestsHaveTokens
<1> QED BY <1>5, <1>6 DEF ConnectionInv

LEMMA AlwaysConnectionInv == Spec => []ConnectionInv
<1>1. Init => ConnectionInv
  <2> SUFFICES ASSUME Init PROVE ConnectionInv
    OBVIOUS
  <2>1. /\ phase = "launched" /\ link = "initial" /\ callback = "none" /\ attempt = 0
        /\ \A a \in Attempts : tasks[a].pc = "none"
    BY DEF Init, AuthInit, NoTask
  <2> QED BY <2>1 DEF ConnectionInv, NotConnected, TasksOfAttempts, RequestsHaveTokens,
                      CallbackHasItsTask, LinkIsAuthenticated
<1>2. TokenInv /\ ConnectionInv /\ [Next]_vars => ConnectionInv'
  <2> SUFFICES ASSUME TokenTypes, ConnectionInv, [Next]_vars PROVE ConnectionInv'
    BY DEF TokenInv
  <2>1. CASE UNCHANGED vars
    <3>1. UNCHANGED <<phase, config, issued, attempt, callback, tasks, link>>
      BY <2>1 DEF vars, startVars, authVars
    <3> QED BY <3>1 DEF ConnectionInv, NotConnected, TasksOfAttempts, RequestsHaveTokens,
                        CallbackHasItsTask, LinkIsAuthenticated, Exchanged, Cfg
  <2> QED BY <2>1, AuthKeepsConnection, StartKeepsConnection, SignInKeepsConnection
          DEF Next
<1> QED BY <1>1, <1>2, InitToken, NextToken, PTL DEF Spec

(* The callback never goes on with the answer to an attempt the client has *)
(* given up: what it asks the auth service for a JWT with is the access    *)
(* token of its own attempt, for any number of attempts whose tasks still  *)
(* run (fetch_auth and the task it spawns).                                *)
THEOREM CallbacksUseTheirOwnToken == Spec => []CallbackHasItsTask
BY AlwaysConnectionInv, PTL DEF ConnectionInv

(* With the auth service, no head gets to its subscription without a       *)
(* sign-in that left a refresh token and a completed exchange of one, for  *)
(* every configuration and whatever fails (AgentHost::start, fetch_auth).  *)
THEOREM NoStartWithoutToken == Spec => []StartedIsAuthenticated
<1>1. ConnectionInv => StartedIsAuthenticated
  <2> SUFFICES ASSUME ConnectionInv, phase \in {"subscribing", "running"},
                      Cfg.auth = "external"
               PROVE  issued > 0 /\ Exchanged
    BY DEF StartedIsAuthenticated
  <2>1. Exchanged
    BY DEF ConnectionInv, LinkIsAuthenticated
  <2> QED BY <2>1 DEF Exchanged, ConnectionInv, RequestsHaveTokens
<1> QED BY <1>1, AlwaysConnectionInv, PTL
=============================================================================

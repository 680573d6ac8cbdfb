---------------------------- MODULE HttpPipeline ----------------------------
(* What every request goes through: guard, timeout interceptor, validation    *)
(* pipe, handler, exception filter.                                           *)
(*                                                                            *)
(* Guards run before the interceptors; the interceptor wraps the pipes and    *)
(* the handler.  When its time is over it answers 408 and takes no further    *)
(* notice of the handler, which runs on.  The environment is fixed when the   *)
(* process starts.  Time passes in ticks, and a timer fires at some moment    *)
(* after it is due: of two timers, the one due first.  What the database does *)
(* not answer hangs for ever: nothing in the code ends it.                    *)
EXTENDS Naturals

CONSTANTS
    Req,        \* the requests
    Timeout     \* HTTP_REQUEST_TIMEOUT, in ticks

ASSUME TimeoutIsEven == Timeout \in Nat /\ Timeout > 1 /\ Timeout % 2 = 0

\* The kinds of handlers: one that writes to the database, requestTimeout,
\* errorCheck and prismaHealthCheck; only the first has guards and a payload.
Handlers == {"write", "timeout", "error", "ping"}
Environments == {"local", "other"}

\* A status: 0 before there is a reply; errors are given the status of their
\* HttpException, or Unexpected when they are none.
NoReply == 0
Unexpected == 1

VARIABLES
    env,    \* NODE_ENV
    req     \* of each request: how far it is, its handler, whether the
            \* interceptor's timer runs, its age in ticks since then, whether
            \* its statement was committed, and the status of its reply

vars == <<env, req>>

Idle == [pc |-> "idle", handler |-> "write", timer |-> FALSE, age |-> 0,
         committed |-> FALSE, reply |-> NoReply]

Init == env \in Environments /\ req = [r \in Req |-> Idle]

At(r, pc) == req[r].pc = pc
Open(r) == req[r].reply = NoReply
Goto(r, pc) == req' = [req EXCEPT ![r].pc = pc]

\* Slip: an error that is no HttpException keeps the status set first.
CatchUnset(error) == IF error = Unexpected THEN 400 ELSE error

\* HttpExceptionFilter.catch: an HttpException keeps its status, any other
\* error becomes 500.
Catch(error) == IF error = Unexpected THEN 500 ELSE error

\* The end of the pipeline.  After a 408 the observable has no subscriber left
\* and the handler's result or error goes nowhere.
Send(r, reply) ==
    req' = IF Open(r)
           THEN [req EXCEPT ![r].pc = "done", ![r].timer = FALSE, ![r].reply = reply]
           ELSE [req EXCEPT ![r].pc = "done"]
-----------------------------------------------------------------------------
Arrive(r) ==
    /\ At(r, "idle")
    /\ \E h \in Handlers :
         req' = [req EXCEPT ![r].handler = h, ![r].pc = IF h = "write" THEN "guard" ELSE "intercept"]
    /\ UNCHANGED env

Guard(r) ==
    /\ At(r, "guard")
    /\ Goto(r, "intercept") \/ Send(r, Catch(401)) \/ Send(r, Catch(403))
    /\ UNCHANGED env

\* Slip: the condition on the environment is the wrong way round.
InterceptLocal(r) ==
    /\ At(r, "intercept")
    /\ req' = [req EXCEPT ![r].timer = (env = "local"), ![r].pc = "pipe"]
    /\ UNCHANGED env

\* TimeoutInterceptor.intercept: no timeout on a developer's machine.
Intercept(r) ==
    /\ At(r, "intercept")
    /\ req' = [req EXCEPT ![r].timer = (env # "local"), ![r].pc = "pipe"]
    /\ UNCHANGED env

\* PayloadValidationPipe: a payload that breaks its rules is refused.
Pipe(r) ==
    /\ At(r, "pipe")
    /\ Goto(r, "handler") \/ (req[r].handler = "write" /\ Send(r, Catch(422)))
    /\ UNCHANGED env

\* The handler reads, and throws a ServerException or a database error; or its
\* statement is committed.
Throw(r) ==
    /\ At(r, "handler") /\ req[r].handler = "write"
    /\ \E error \in {404, 409, Unexpected} : Send(r, Catch(error))
    /\ UNCHANGED env

Commit(r) ==
    /\ At(r, "handler") /\ req[r].handler = "write"
    /\ req' = [req EXCEPT ![r].pc = "committed", ![r].committed = TRUE]
    /\ UNCHANGED env

\* Slip: the statement is not awaited.
ReturnEarly(r) ==
    /\ At(r, "handler") \/ At(r, "committed")
    /\ req[r].handler = "write"
    /\ Send(r, 200)
    /\ UNCHANGED env

\* The database's answer to the statement is back, 200 (or 201, 204), or the
\* connection is lost before.
Return(r) ==
    /\ At(r, "committed")
    /\ Send(r, 200) \/ Send(r, Catch(Unexpected))
    /\ UNCHANGED env

\* errorCheck throws an Error that is no HttpException.
ErrorCheck(r) ==
    /\ At(r, "handler") /\ req[r].handler = "error"
    /\ Send(r, Catch(Unexpected))
    /\ UNCHANGED env

\* requestTimeout resolves after twice the timeout, when the interceptor's
\* timer, if there is one, has fired.
DelayEnds(r) ==
    /\ At(r, "handler") /\ req[r].handler = "timeout" /\ req[r].age >= 2 * Timeout
    /\ ~req[r].timer
    /\ Send(r, 200)
    /\ UNCHANGED env

\* prismaHealthCheck: the database answers the ping, or half the timeout is
\* over and the check answers 503 by itself.
PingAnswers(r) ==
    /\ At(r, "handler") /\ req[r].handler = "ping"
    /\ Send(r, 200) \/ Send(r, Catch(503))
    /\ UNCHANGED env

\* Slip: the ping waits as long as twice the timeout.
PingTimeoutLong == 2 * Timeout
PingTimeout == Timeout \div 2
PingIsOver(r) ==
    /\ At(r, "handler") /\ req[r].handler = "ping" /\ req[r].age >= PingTimeout
    /\ Send(r, Catch(503))
    /\ UNCHANGED env

\* The interceptor's timer fires, unless the ping's is due before it.
TimeoutIsOver(r) ==
    /\ req[r].timer /\ Open(r) /\ req[r].age >= Timeout
    /\ ~(At(r, "handler") /\ req[r].handler = "ping" /\ PingTimeout < Timeout)
    /\ req' = [req EXCEPT ![r].timer = FALSE, ![r].reply = Catch(408)]
    /\ UNCHANGED env

\* Time passes for the requests whose handler has begun.  The pipe is promises
\* only: no timer fires before it is through.  Ages stop at 2 * Timeout.
Ageing(r) == (At(r, "handler") \/ At(r, "committed")) /\ req[r].age < 2 * Timeout
Tick ==
    /\ \A r \in Req : ~At(r, "pipe")
    /\ \E r \in Req : Ageing(r)
    /\ req' = [r \in Req |-> IF Ageing(r) THEN [req[r] EXCEPT !.age = @ + 1] ELSE req[r]]
    /\ UNCHANGED env

Done == (\A r \in Req : At(r, "done")) /\ UNCHANGED vars

Handle(r) ==
    \/ Throw(r) \/ Commit(r) \/ Return(r) \/ PingAnswers(r)
Proceed(r) ==
    \/ Guard(r) \/ Intercept(r) \/ Pipe(r) \/ ErrorCheck(r) \/ DelayEnds(r)
    \/ PingIsOver(r) \/ TimeoutIsOver(r)

Next == Tick \/ Done \/ \E r \in Req : Arrive(r) \/ Proceed(r) \/ Handle(r)

Spec == Init /\ [][Next]_vars

\* Time passes, timers fire and what needs no database gets done; the database
\* may leave any statement unanswered, so Handle has no fairness.
FairSpec == Spec /\ WF_vars(Tick) /\ \A r \in Req : WF_vars(Proceed(r))
-----------------------------------------------------------------------------
\* Types: a reply has one of the statuses the pipeline can answer with.
TypeOK ==
    /\ env \in Environments
    /\ req \in [Req -> [pc : {"idle", "guard", "intercept", "pipe", "handler", "committed", "done"},
                        handler : Handlers, timer : BOOLEAN, age : 0..(2 * Timeout),
                        committed : BOOLEAN,
                        reply : {NoReply, 200, 401, 403, 404, 408, 409, 422, 500, 503}]]

\* What a status says of the effect: success means it is there; a refusal by
\* guard, pipe or handler means there is none and, although the handler of a
\* request that was answered may still be running, that there will be none.
\* Only 408 and 500 say nothing.
StatusTellsEffect ==
    \A r \in Req :
        /\ (req[r].handler = "write" /\ req[r].reply = 200) => req[r].committed
        /\ req[r].reply \in {401, 403, 404, 409, 422} => ~req[r].committed

\* The health check has its own, shorter timeout: it says what is wrong before
\* the interceptor can.
HealthAnswersItself == \A r \in Req : req[r].handler = "ping" => req[r].reply # 408

\* Outside the local environment every request is answered, even when the
\* database never is; in the local one, those that do not depend on it are.
Answered ==
    \A r \in Req :
        (~At(r, "idle") /\ (env # "local" \/ req[r].handler # "write")) ~> ~Open(r)
=============================================================================

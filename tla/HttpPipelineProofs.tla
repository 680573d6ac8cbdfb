------------------------- MODULE HttpPipelineProofs -------------------------
(* What the pipeline keeps, for any number of requests and any even timeout.  *)
EXTENDS HttpPipeline, TLAPS

Pcs == {"idle", "guard", "intercept", "pipe", "handler", "committed", "done"}
Replies == {NoReply, 200, 401, 403, 404, 408, 409, 422, 500, 503}
Refusals == {401, 403, 404, 409, 422}
ReqType == [pc : Pcs, handler : Handlers, timer : BOOLEAN, age : 0..(2 * Timeout),
            committed : BOOLEAN, reply : Replies]

\* A request on its way: before its handler it has no age and no reply, later
\* it may have one, which is 408 while the handler still runs; the timer
\* runs only without a reply; and the status tells the effect.
Sound(q) ==
    /\ q.pc \in {"idle", "guard", "intercept", "pipe"} => q.age = 0 /\ q.reply = NoReply
    /\ q.pc \in {"idle", "guard", "intercept"} => ~q.timer
    /\ q.pc = "guard" => q.handler = "write"
    /\ q.pc \in {"handler", "committed"} => q.reply \in {NoReply, 408}
    /\ q.pc = "done" => q.reply # NoReply
    /\ q.timer => q.reply = NoReply
    /\ q.committed => q.handler = "write" /\ q.pc \in {"committed", "done"}
    /\ q.pc = "committed" => q.committed
    /\ q.handler = "write" /\ q.reply = 200 => q.committed
    /\ q.reply \in Refusals => ~q.committed
    /\ q.handler = "ping" => q.reply # 408

IInv == TypeOK /\ \A r \in Req : Sound(req[r])
-----------------------------------------------------------------------------
LEMMA PipelineTypes == TypeOK <=> env \in Environments /\ req \in [Req -> ReqType]
  BY DEF TypeOK, ReqType, Replies, Pcs

\* A request that does not start leaves every other one alone: it is enough
\* that its new state is sound.
LEMMA OneMoves ==
    ASSUME IInv, NEW r \in Req, NEW q \in ReqType, Sound(q),
           req' = [req EXCEPT ![r] = q], UNCHANGED env
    PROVE  IInv'
  <1>1. env \in Environments /\ req \in [Req -> ReqType]
    BY PipelineTypes DEF IInv
  <1>2. env' \in Environments /\ req' \in [Req -> ReqType]
    BY <1>1
  <1>3. TypeOK'
    BY <1>2 DEF TypeOK, ReqType, Replies, Pcs
  <1>4. \A s \in Req : req'[s] = IF s = r THEN q ELSE req[s]
    BY <1>1
  <1>5. \A s \in Req : Sound(req'[s])
    BY <1>4 DEF IInv
  <1>6. QED BY <1>3, <1>5 DEF IInv

\* A reply, or the end of a handler whose request has one, is sound when the
\* status tells the effect and a ping does not answer 408.
LEMMA SendStep ==
    ASSUME IInv, NEW r \in Req, NEW reply \in Replies \ {NoReply}, Send(r, reply),
           UNCHANGED env,
           ~At(r, "done"),
           reply # 408,
           req[r].handler = "write" /\ reply = 200 => req[r].committed,
           reply \in Refusals => ~req[r].committed
    PROVE  IInv'
  <1> DEFINE q == req[r]
             open == [q EXCEPT !.pc = "done", !.timer = FALSE, !.reply = reply]
             late == [q EXCEPT !.pc = "done"]
  <1>1. req \in [Req -> ReqType] /\ q \in ReqType /\ Sound(q)
    BY PipelineTypes DEF IInv
  <1>2. CASE Open(r)
    <2>1. open \in ReqType
      BY <1>1 DEF ReqType, Pcs
    <2>2. Sound(open)
      BY <1>1, <1>2 DEF Sound, ReqType, Refusals, NoReply
    <2>3. req' = [req EXCEPT ![r] = open]
      BY <1>1, <1>2 DEF Send
    <2>4. QED BY <2>1, <2>2, <2>3, OneMoves
  <1>3. CASE ~Open(r)
    <2>1. late \in ReqType
      BY <1>1 DEF ReqType, Pcs
    <2>2. Sound(late)
      BY <1>1, <1>3 DEF Sound, ReqType, Open
    <2>3. req' = [req EXCEPT ![r] = late]
      BY <1>1, <1>3 DEF Send
    <2>4. QED BY <2>1, <2>2, <2>3, OneMoves
  <1>4. QED BY <1>2, <1>3

LEMMA CatchStatus ==
    /\ \A error \in {401, 403, 404, 408, 409, 422, 503} : Catch(error) = error
    /\ Catch(Unexpected) = 500
  BY DEF Catch, Unexpected
-----------------------------------------------------------------------------
LEMMA InitInv == Init => IInv
  <1> SUFFICES ASSUME Init PROVE IInv
    OBVIOUS
  <1>1. Idle \in ReqType /\ Sound(Idle)
    BY TimeoutIsEven DEF Idle, ReqType, Pcs, Replies, Handlers, Sound, NoReply, Refusals
  <1>2. env \in Environments /\ req \in [Req -> ReqType] /\ \A r \in Req : req[r] = Idle
    BY <1>1 DEF Init
  <1>3. QED BY <1>1, <1>2, PipelineTypes DEF IInv

LEMMA BeforeHandler ==
    ASSUME IInv, NEW r \in Req, Arrive(r) \/ Guard(r) \/ Intercept(r) \/ Pipe(r)
    PROVE  IInv'
  <1> DEFINE q == req[r]
  <1>1. req \in [Req -> ReqType] /\ q \in ReqType /\ Sound(q)
    BY PipelineTypes DEF IInv
  <1>2. CASE Arrive(r)
    <2>1. PICK h \in Handlers :
            req' = [req EXCEPT ![r].handler = h,
                               ![r].pc = IF h = "write" THEN "guard" ELSE "intercept"]
      BY <1>2 DEF Arrive
    <2> DEFINE new == [q EXCEPT !.handler = h,
                                !.pc = IF h = "write" THEN "guard" ELSE "intercept"]
    <2>2. new \in ReqType /\ req' = [req EXCEPT ![r] = new]
      BY <1>1, <2>1 DEF ReqType, Pcs
    <2>3. Sound(new)
      <3>1. q.pc = "idle" /\ q.reply = 0 /\ q.age = 0 /\ ~q.timer /\ ~q.committed
        BY <1>1, <1>2 DEF Sound, Arrive, At, NoReply
      <3>2. /\ new.pc = (IF h = "write" THEN "guard" ELSE "intercept") /\ new.handler = h
            /\ new.reply = 0 /\ new.age = 0 /\ ~new.timer /\ ~new.committed
        BY <1>1, <3>1 DEF ReqType
      <3>3. QED BY <3>2 DEF Sound, NoReply, Refusals
    <2>4. QED BY <1>2, <2>2, <2>3, OneMoves DEF Arrive
  <1>3. ASSUME NEW pc \in {"intercept", "handler"}, Goto(r, pc),
               q.pc \in {"guard", "pipe"}, pc = "intercept" => q.pc = "guard", UNCHANGED env
        PROVE  IInv'
    <2> DEFINE new == [q EXCEPT !.pc = pc]
    <2>1. new \in ReqType /\ req' = [req EXCEPT ![r] = new]
      BY <1>1, <1>3 DEF ReqType, Pcs, Goto
    <2>2. Sound(new)
      BY <1>1, <1>3 DEF Sound, ReqType
    <2>3. QED BY <1>3, <2>1, <2>2, OneMoves
  <1>4. CASE Intercept(r)
    <2> DEFINE new == [q EXCEPT !.timer = (env # "local"), !.pc = "pipe"]
    <2>1. new \in ReqType /\ req' = [req EXCEPT ![r] = new]
      BY <1>1, <1>4 DEF ReqType, Pcs, Intercept
    <2>2. Sound(new)
      BY <1>1, <1>4 DEF Sound, ReqType, Intercept, At
    <2>3. QED BY <1>4, <2>1, <2>2, OneMoves DEF Intercept
  <1>5. ASSUME NEW error \in {401, 403, 422}, Send(r, Catch(error)), UNCHANGED env,
               q.pc \in {"guard", "pipe"}
        PROVE  IInv'
    <2>1. error \in Replies \ {NoReply} /\ error # 408 /\ error # 200 /\ Catch(error) = error
      BY CatchStatus DEF Replies, NoReply
    <2>2. ~q.committed /\ ~At(r, "done")
      BY <1>1, <1>5 DEF Sound, At
    <2>3. QED BY <1>5, <2>1, <2>2, SendStep
  <1>6. QED BY <1>2, <1>3, <1>4, <1>5 DEF Guard, Pipe, At

LEMMA HandlerStep ==
    ASSUME IInv, NEW r \in Req, Handle(r) \/ ErrorCheck(r) \/ DelayEnds(r) \/ PingIsOver(r)
    PROVE  IInv'
  <1> DEFINE q == req[r]
  <1>1. req \in [Req -> ReqType] /\ q \in ReqType /\ Sound(q)
    BY PipelineTypes DEF IInv
  <1>2. CASE Commit(r)
    <2> DEFINE new == [q EXCEPT !.pc = "committed", !.committed = TRUE]
    <2>1. new \in ReqType /\ req' = [req EXCEPT ![r] = new]
      BY <1>1, <1>2 DEF ReqType, Pcs, Commit
    <2>2. Sound(new)
      BY <1>1, <1>2 DEF Sound, ReqType, Commit, At, Refusals, NoReply
    <2>3. QED BY <1>2, <2>1, <2>2, OneMoves DEF Commit
  <1>3. ASSUME NEW status \in {200, 404, 409, 500, 503}, Send(r, status), UNCHANGED env,
               q.pc \in {"handler", "committed"},
               q.pc = "committed" => status \in {200, 500},
               q.handler = "write" /\ status = 200 => q.committed
        PROVE  IInv'
    <2>1. status \in Replies \ {NoReply} /\ status # 408
      BY DEF Replies, NoReply
    <2>2. ~At(r, "done") /\ (status \in Refusals => ~q.committed)
      BY <1>1, <1>3 DEF Sound, At, Refusals
    <2>3. QED BY <1>3, <2>1, <2>2, SendStep
  <1>4. CASE Throw(r)
    <2>1. PICK error \in {404, 409, Unexpected} : Send(r, Catch(error))
      BY <1>4 DEF Throw
    <2>2. Catch(error) \in {404, 409, 500}
      BY CatchStatus
    <2>3. QED BY <1>3, <1>4, <2>1, <2>2 DEF Throw, At
  <1>5. CASE Return(r)
    <2>1. q.committed
      BY <1>1, <1>5 DEF Return, At, Sound
    <2>2. QED BY <1>3, <1>5, <2>1, CatchStatus DEF Return, At
  <1>6. CASE ErrorCheck(r)
    BY <1>3, <1>6, CatchStatus DEF ErrorCheck, At
  <1>7. CASE DelayEnds(r)
    BY <1>3, <1>7 DEF DelayEnds, At
  <1>8. CASE PingAnswers(r) \/ PingIsOver(r)
    BY <1>3, <1>8, CatchStatus DEF PingAnswers, PingIsOver, At
  <1>9. QED BY <1>2, <1>4, <1>5, <1>6, <1>7, <1>8 DEF Handle

\* The ping's timer is due first.
LEMMA PingIsShorter == PingTimeout < Timeout
  BY TimeoutIsEven DEF PingTimeout

LEMMA TimeoutStep == ASSUME IInv, NEW r \in Req, TimeoutIsOver(r) PROVE IInv'
  <1> DEFINE q == req[r]
             new == [q EXCEPT !.timer = FALSE, !.reply = 408]
  <1>1. req \in [Req -> ReqType] /\ q \in ReqType /\ Sound(q)
    BY PipelineTypes DEF IInv
  <1>2. Catch(408) = 408 /\ q.reply = NoReply /\ q.age > 1
    BY <1>1, TimeoutIsEven, CatchStatus DEF TimeoutIsOver, Open, ReqType
  <1>3. q.pc \in {"handler", "committed"}
    BY <1>1, <1>2 DEF Sound, ReqType, Pcs
  <1>4. q.handler # "ping"
    BY <1>1, <1>3, PingIsShorter DEF TimeoutIsOver, At, Sound
  <1>5. new \in ReqType
    <2>1. 408 \in Replies
      BY DEF Replies
    <2>2. QED BY <1>1, <2>1 DEF ReqType
  <1>6. Sound(new)
    BY <1>1, <1>2, <1>3, <1>4 DEF Sound, ReqType, Refusals, NoReply
  <1>7. req' = [req EXCEPT ![r] = new] /\ UNCHANGED env
    <2>1. req' = [req EXCEPT ![r].timer = FALSE, ![r].reply = 408] /\ UNCHANGED env
      BY <1>2 DEF TimeoutIsOver
    <2>2. QED BY <1>1, <2>1
  <1>8. QED BY <1>5, <1>6, <1>7, OneMoves

LEMMA TickStep == ASSUME IInv, Tick PROVE IInv'
  <1> DEFINE aged(r) == [req[r] EXCEPT !.age = @ + 1]
  <1>1. env \in Environments /\ req \in [Req -> ReqType] /\ \A r \in Req : Sound(req[r])
    BY PipelineTypes DEF IInv
  <1>2. ASSUME NEW r \in Req, Ageing(r)
        PROVE  aged(r) \in ReqType /\ Sound(aged(r))
    <2>1. req[r] \in ReqType /\ Sound(req[r]) /\ req[r].pc \in {"handler", "committed"}
          /\ req[r].age < 2 * Timeout
      BY <1>1, <1>2 DEF Ageing, At
    <2>2. req[r].age + 1 \in 0..(2 * Timeout)
      BY <2>1, TimeoutIsEven DEF ReqType
    <2>3. aged(r) \in ReqType
      BY <2>1, <2>2 DEF ReqType
    <2>4. Sound(aged(r))
      BY <2>1 DEF Sound, ReqType
    <2>5. QED BY <2>3, <2>4
  <1>3. req' = [r \in Req |-> IF Ageing(r) THEN aged(r) ELSE req[r]] /\ UNCHANGED env
    BY DEF Tick
  <1>4. req' \in [Req -> ReqType] /\ \A r \in Req : Sound(req'[r])
    BY <1>1, <1>2, <1>3
  <1>5. TypeOK'
    BY <1>1, <1>3, <1>4 DEF TypeOK, ReqType, Replies, Pcs
  <1>6. QED BY <1>4, <1>5 DEF IInv

LEMMA NextInv == IInv /\ [Next]_vars => IInv'
  <1> SUFFICES ASSUME IInv, [Next]_vars PROVE IInv'
    OBVIOUS
  <1>1. CASE UNCHANGED vars
    BY <1>1 DEF vars, IInv, TypeOK
  <1>2. CASE Done
    BY <1>1, <1>2 DEF Done
  <1>3. ASSUME NEW r \in Req, Arrive(r) \/ Proceed(r) \/ Handle(r)
        PROVE  IInv'
    BY <1>3, BeforeHandler, HandlerStep, TimeoutStep DEF Proceed
  <1>4. QED BY <1>1, <1>2, <1>3, TickStep DEF Next

LEMMA SpecInv == Spec => []IInv
  BY InitInv, NextInv, PTL DEF Spec
-----------------------------------------------------------------------------
\* Every request keeps its type: every status is one the pipeline knows.
THEOREM PipelineTyped == Spec => []TypeOK
  BY SpecInv, PTL DEF IInv

\* Success is only reported of what was committed, and a refusal of what was
\* not and will not be.
THEOREM StatusIsTrue == Spec => []StatusTellsEffect
  <1>1. ASSUME NEW q, Sound(q)
        PROVE  /\ q.handler = "write" /\ q.reply = 200 => q.committed
               /\ q.reply \in Refusals => ~q.committed
    BY <1>1 DEF Sound
  <1>2. IInv => StatusTellsEffect
    BY <1>1 DEF IInv, StatusTellsEffect, Refusals
  <1>3. QED BY <1>2, SpecInv, PTL

\* The interceptor never answers for the health check, for any even timeout.
THEOREM PingAnswersItself == Spec => []HealthAnswersItself
  <1>1. IInv => HealthAnswersItself
    BY DEF IInv, Sound, HealthAnswersItself
  <1>2. QED BY <1>1, SpecInv, PTL
=============================================================================

---------------------------- MODULE ProcessProofs ----------------------------
(***************************************************************************)
(* Theorems about the process, for any number of events and signals and any   *)
(* behaviour of the exchange, the model's server and the status clients.       *)
(*                                                                         *)
(* The first part is about the gateway: its answers belong to their questions. *)
(* The second is about the parts that main destroys while the other threads    *)
(* and the signal handler still run.  The worker of the process is a           *)
(* ModelWorker, so that the lemmas of ModelWorkerProofs apply to it.           *)
(***************************************************************************)
EXTENDS Process, TLAPS

WorkerProofs == INSTANCE ModelWorkerProofs WITH
                    Outcomes <- {"answer", "failure"}, MaxSequence <- MaxEvents,
                    stopping <- worker_stopping

-----------------------------------------------------------------------------
(* The gateway. *)

Questions == 1 .. MaxEvents

Phases == {"idle", "connecting", "writing", "reading", "returned"}

Replies == [about : Questions, valid : BOOLEAN, keep : BOOLEAN]

Calls == [phase : Phases, attempt : 0 .. 2, asked : Questions \cup {None}]

Links == [open : BOOLEAN, peer : BOOLEAN, questions : Seq(Questions), replies : Seq(Replies)]

Results == [sequence : Questions \cup {None}, about : Questions \cup {None}, failed : BOOLEAN]

GatewayTypes ==
    /\ call \in Calls
    /\ call.phase # "idle" => call.asked \in Questions
    /\ link \in Links
    /\ result \in Results

(* Nothing is on its way but the question of the call that reads, or the reply *)
(* to it: a connection never carries the remains of an earlier call.          *)
NothingLeftOver ==
    \/ link.questions = <<>> /\ link.replies = <<>>
    \/ /\ call.phase = "reading"
       /\ link.questions = <<call.asked>> /\ link.replies = <<>>
    \/ /\ call.phase = "reading"
       /\ link.questions = <<>>
       /\ \E reply \in Replies : reply.about = call.asked /\ link.replies = <<reply>>

GatewayInv == GatewayTypes /\ NothingLeftOver /\ Gateway!AnswersOwnQuestion

USE DEF Phases, Calls, Results

(* Closing the connection, with whatever was on it, keeps the invariant,       *)
(* whether decide tries again or returns the hold of a failure.                *)
LEMMA FailKeepsInvariant ==
    ASSUME GatewayInv, Gateway!Fail, call.phase \in {"connecting", "writing", "reading"}
    PROVE  GatewayInv'
<1>1. link' = [open |-> FALSE, peer |-> FALSE, questions |-> <<>>, replies |-> <<>>]
  BY DEF Gateway!Fail, Gateway!AfterFailure, Gateway!ClosedLink
<1>2. CASE call.attempt = 1
  <2>1. /\ call' = [call EXCEPT !.phase = "connecting", !.attempt = 2]
        /\ result' = result
    BY <1>2 DEF Gateway!Fail
  <2>2. GatewayTypes'
    <3>1. link' \in Links
      BY <1>1 DEF Links
    <3>2. call.asked \in Questions
      BY DEF GatewayInv, GatewayTypes
    <3>3. call' = [phase |-> "connecting", attempt |-> 2, asked |-> call.asked]
      BY <2>1 DEF GatewayInv, GatewayTypes
    <3>4. call' \in Calls /\ call'.asked \in Questions
      BY <3>2, <3>3
    <3>5. result' \in Results
      BY <2>1 DEF GatewayInv, GatewayTypes
    <3> QED
      BY <3>1, <3>4, <3>5 DEF GatewayTypes
  <2>3. NothingLeftOver' /\ Gateway!AnswersOwnQuestion'
    BY <1>1, <2>1 DEF GatewayInv, NothingLeftOver, Gateway!AnswersOwnQuestion
  <2> QED
    BY <2>2, <2>3 DEF GatewayInv
<1>3. CASE call.attempt # 1
  <2>1. /\ call' = [call EXCEPT !.phase = "returned"]
        /\ result' = [sequence |-> call.asked, about |-> None, failed |-> TRUE]
    BY <1>3 DEF Gateway!Fail
  <2>2. GatewayTypes'
    <3>1. link' \in Links
      BY <1>1 DEF Links
    <3>2. call' \in Calls /\ call'.asked \in Questions
      BY <2>1 DEF GatewayInv, GatewayTypes
    <3>3. result' \in Results
      BY <2>1 DEF GatewayInv, GatewayTypes
    <3> QED
      BY <3>1, <3>2, <3>3 DEF GatewayTypes
  <2>3. NothingLeftOver' /\ Gateway!AnswersOwnQuestion'
    BY <1>1, <2>1 DEF GatewayInv, NothingLeftOver, Gateway!AnswersOwnQuestion
  <2> QED
    BY <2>2, <2>3 DEF GatewayInv
<1> QED
  BY <1>2, <1>3

(* Where nobody reads, the connection is empty. *)
LEMMA EmptyUnlessReading ==
    ASSUME GatewayInv, call.phase # "reading"
    PROVE  link.questions = <<>> /\ link.replies = <<>>
BY DEF GatewayInv, NothingLeftOver

LEMMA ConnectKeepsInvariant == GatewayInv /\ Gateway!Connect => GatewayInv'
<1> SUFFICES ASSUME GatewayInv, Gateway!Connect PROVE GatewayInv'
  OBVIOUS
<1>1. link.questions = <<>> /\ link.replies = <<>>
  BY EmptyUnlessReading DEF Gateway!Connect
<1>2. /\ link' \in Links
      /\ link'.questions = <<>> /\ link'.replies = <<>>
  BY <1>1 DEF Gateway!Connect, Gateway!NewLink, Gateway!ClosedLink, GatewayInv, GatewayTypes, Links
<1>3. call' = [call EXCEPT !.phase = "writing"] /\ result' = result
  BY DEF Gateway!Connect
<1> QED
  BY <1>2, <1>3 DEF Gateway!Connect, GatewayInv, GatewayTypes, NothingLeftOver, Gateway!AnswersOwnQuestion

(* The question is the first thing on the connection. *)
LEMMA WriteKeepsInvariant == GatewayInv /\ Gateway!Write => GatewayInv'
<1> SUFFICES ASSUME GatewayInv, Gateway!Write PROVE GatewayInv'
  OBVIOUS
<1>1. link.questions = <<>> /\ link.replies = <<>> /\ call.asked \in Questions
  BY EmptyUnlessReading DEF Gateway!Write, GatewayInv, GatewayTypes
<1>2. call' = [call EXCEPT !.phase = "reading"] /\ result' = result
  BY DEF Gateway!Write
<1>3. /\ link' \in Links
      /\ link'.replies = <<>>
      /\ link'.questions = <<>> \/ link'.questions = <<call.asked>>
  <2>1. link \in Links /\ Append(link.questions, call.asked) = <<call.asked>>
    BY <1>1 DEF GatewayInv, GatewayTypes
  <2>2. CASE link.peer
    <3>1. link' = [link EXCEPT !.questions = <<call.asked>>]
      BY <2>1, <2>2 DEF Gateway!Write
    <3>2. link' = [open |-> link.open, peer |-> link.peer, questions |-> <<call.asked>>,
                   replies |-> <<>>]
      BY <1>1, <2>1, <3>1 DEF Links
    <3>3. <<call.asked>> \in Seq(Questions) /\ <<>> \in Seq(Replies)
      BY <1>1
    <3> QED
      BY <2>1, <3>2, <3>3 DEF Links
  <2>3. CASE ~link.peer
    BY <1>1, <2>1, <2>3 DEF Gateway!Write
  <2> QED
    BY <2>2, <2>3
<1>4. call'.phase = "reading" /\ call'.asked = call.asked
  BY <1>2 DEF GatewayInv, GatewayTypes
<1> QED
  BY <1>1, <1>2, <1>3, <1>4 DEF GatewayInv, GatewayTypes, NothingLeftOver, Gateway!AnswersOwnQuestion

(* The only reply there can be is the one to the question just asked. *)
LEMMA ReadAnswerKeepsInvariant == GatewayInv /\ Gateway!ReadAnswer => GatewayInv'
<1> SUFFICES ASSUME GatewayInv, Gateway!ReadAnswer PROVE GatewayInv'
  OBVIOUS
<1>1. PICK reply \in Replies :
        reply.about = call.asked /\ link.replies = <<reply>> /\ link.questions = <<>>
  BY DEF Gateway!ReadAnswer, GatewayInv, NothingLeftOver
<1>2. Head(link.replies) = reply /\ Tail(link.replies) = <<>>
  BY <1>1
<1>3. /\ link' \in Links
      /\ link'.questions = <<>> /\ link'.replies = <<>>
  BY <1>1, <1>2 DEF Gateway!ReadAnswer, Gateway!ClosedLink, GatewayInv, GatewayTypes, Links
<1>4. result' = [sequence |-> call.asked, about |-> call.asked, failed |-> FALSE]
  BY <1>1, <1>2 DEF Gateway!ReadAnswer
<1>5. call' = [call EXCEPT !.phase = "returned"] /\ call.asked \in Questions
  BY DEF Gateway!ReadAnswer, GatewayInv, GatewayTypes
<1> QED
  BY <1>3, <1>4, <1>5 DEF GatewayInv, GatewayTypes, NothingLeftOver, Gateway!AnswersOwnQuestion

LEMMA ServerRepliesKeepsInvariant == GatewayInv /\ Gateway!ServerReplies => GatewayInv'
<1> SUFFICES ASSUME GatewayInv, Gateway!ServerReplies PROVE GatewayInv'
  OBVIOUS
<1>1. /\ call.phase = "reading" /\ call.asked \in Questions
      /\ link.questions = <<call.asked>> /\ link.replies = <<>>
  BY DEF Gateway!ServerReplies, GatewayInv, GatewayTypes, NothingLeftOver
<1>2. Head(link.questions) = call.asked /\ Tail(link.questions) = <<>>
  BY <1>1
<1>3. PICK valid \in BOOLEAN, keep \in BOOLEAN :
        link' = [link EXCEPT
                   !.questions = Tail(@),
                   !.replies = Append(@, [about |-> Head(link.questions),
                                          valid |-> valid, keep |-> keep]),
                   !.peer = keep]
  BY DEF Gateway!ServerReplies
<1> DEFINE reply == [about |-> call.asked, valid |-> valid, keep |-> keep]
<1>4. reply \in Replies /\ reply.about = call.asked
  BY <1>1 DEF Replies
<1>5. /\ link' \in Links
      /\ link'.questions = <<>> /\ link'.replies = <<reply>>
  <2>1. link \in Links
    BY DEF GatewayInv, GatewayTypes
  <2>2. link' = [link EXCEPT !.questions = <<>>, !.replies = <<reply>>, !.peer = keep]
    BY <1>1, <1>2, <1>3
  <2> HIDE DEF reply
  <2>3. link' = [open |-> link.open, peer |-> keep, questions |-> <<>>, replies |-> <<reply>>]
    BY <2>1, <2>2 DEF Links
  <2>4. <<>> \in Seq(Questions) /\ <<reply>> \in Seq(Replies)
    BY <1>4
  <2>5. link.open \in BOOLEAN /\ keep \in BOOLEAN
    BY <2>1 DEF Links
  <2>6. link' \in Links
    BY <2>3, <2>4, <2>5 DEF Links
  <2> QED
    BY <2>3, <2>6
<1>6. call' = call /\ result' = result
  BY DEF Gateway!ServerReplies
<1> HIDE DEF reply
<1> QED
  BY <1>1, <1>4, <1>5, <1>6 DEF GatewayInv, GatewayTypes, NothingLeftOver, Gateway!AnswersOwnQuestion

LEMMA ServerClosesKeepsInvariant == GatewayInv /\ Gateway!ServerCloses => GatewayInv'
<1> SUFFICES ASSUME GatewayInv, Gateway!ServerCloses PROVE GatewayInv'
  OBVIOUS
<1>1. /\ link' \in Links
      /\ link'.questions = <<>> /\ link'.replies = link.replies
  <2>1. link \in Links /\ link' = [link EXCEPT !.peer = FALSE, !.questions = <<>>]
    BY DEF Gateway!ServerCloses, GatewayInv, GatewayTypes
  <2>2. link' = [open |-> link.open, peer |-> FALSE, questions |-> <<>>,
                 replies |-> link.replies]
    BY <2>1 DEF Links
  <2>3. /\ link.open \in BOOLEAN /\ link.replies \in Seq(Replies)
        /\ <<>> \in Seq(Questions)
    BY <2>1 DEF Links
  <2>4. link' \in Links
    BY <2>2, <2>3 DEF Links
  <2> QED
    BY <2>2, <2>4
<1>2. call' = call /\ result' = result
  BY DEF Gateway!ServerCloses
<1> QED
  BY <1>1, <1>2 DEF GatewayInv, GatewayTypes, NothingLeftOver, Gateway!AnswersOwnQuestion

(* Calling decide and returning from it do not touch the connection. *)
LEMMA CallKeepsInvariant ==
    ASSUME GatewayInv, Gateway!Return \/ \E question \in Questions : Gateway!Ask(question)
    PROVE  GatewayInv'
<1>1. /\ link' = link /\ result' = result
      /\ link.questions = <<>> /\ link.replies = <<>>
  BY EmptyUnlessReading DEF Gateway!Ask, Gateway!Return
<1>2. CASE Gateway!Return
  BY <1>1, <1>2 DEF Gateway!Return, GatewayInv, GatewayTypes, NothingLeftOver, Gateway!AnswersOwnQuestion
<1>3. CASE \E question \in Questions : Gateway!Ask(question)
  BY <1>1, <1>3 DEF Gateway!Ask, GatewayInv, GatewayTypes, NothingLeftOver, Gateway!AnswersOwnQuestion
<1> QED
  BY <1>2, <1>3

(* A step of decide, of its caller or of the server. *)
LEMMA StepKeepsGatewayInv ==
    ASSUME GatewayInv,
           \/ Gateway!GatewayNext
           \/ UNCHANGED gatewayVars
    PROVE  GatewayInv'
<1>1. CASE Gateway!Return \/ \E question \in Questions : Gateway!Ask(question)
  BY <1>1, CallKeepsInvariant
<1>2. CASE Gateway!Connect
  BY <1>2, ConnectKeepsInvariant
<1>3. CASE Gateway!ConnectFails \/ Gateway!WriteFails \/ Gateway!ReadFails
  BY <1>3, FailKeepsInvariant DEF Gateway!ConnectFails, Gateway!WriteFails, Gateway!ReadFails
<1>4. CASE Gateway!Write
  BY <1>4, WriteKeepsInvariant
<1>5. CASE Gateway!ReadAnswer
  BY <1>5, ReadAnswerKeepsInvariant
<1>6. CASE Gateway!ServerReplies
  BY <1>6, ServerRepliesKeepsInvariant
<1>7. CASE Gateway!ServerCloses
  BY <1>7, ServerClosesKeepsInvariant
<1>8. CASE UNCHANGED gatewayVars
  BY <1>8 DEF gatewayVars, GatewayInv, GatewayTypes, NothingLeftOver,
              Gateway!AnswersOwnQuestion
<1> QED
  BY <1>1, <1>2, <1>3, <1>4, <1>5, <1>6, <1>7, <1>8
     DEF Gateway!GatewayNext, Gateway!Exchange, Gateway!Server, Questions

LEMMA InitGatewayInv == Gateway!InitGateway => GatewayInv
BY DEF Gateway!InitGateway, Gateway!ClosedLink, GatewayInv, GatewayTypes,
       NothingLeftOver, Gateway!AnswersOwnQuestion, Links

(* What is on the connection belongs to the call that reads, and answers to    *)
(* their questions, for calls one after another in any order (laya_gateway.cpp, *)
(* decide: every failure closes).                                           *)
THEOREM GatewayInvariant == Gateway!GatewaySpec => []GatewayInv
<1>1. Gateway!InitGateway => GatewayInv
  BY InitGatewayInv
<1>2. GatewayInv /\ [Gateway!GatewayNext]_gatewayVars => GatewayInv'
  BY StepKeepsGatewayInv
<1> QED
  BY <1>1, <1>2, PTL DEF Gateway!GatewaySpec, gatewayVars, Gateway!gatewayVars

-----------------------------------------------------------------------------
(* The life of the parts. *)

(* Where main is while active_feed may be set. *)
Running ==
    {"armed", "looping", "connecting", "receiving", "reading", "handling", "waiting",
     "closing", "returned"}

HandlerTyped == handler \in [AllThreads -> {"none", "tested", "crashed"}]

(* A thread that the handler suspends is there, and main cannot pass that        *)
(* thread's part: neither itself, nor a thread that it joins.                  *)
Holds(thread) ==
    /\ main \in Running \cup {"withdrawn", "destroying"}
    /\ thread = "main" => main \in Running
    /\ thread = "worker" => worker # "exited"
    /\ thread = "status" => server # "exited"
    /\ thread = "audit" => destroyed < 2

(* The second read finds null only after main has withdrawn the feed. *)
HandlerHolds ==
    \A thread \in AllThreads :
        /\ handler[thread] # "none" => Holds(thread)
        /\ handler[thread] = "crashed" => main \in {"withdrawn", "destroying"}

(* How far main is with the destruction, and which threads have ended by then. *)
PartsInOrder ==
    /\ sequence \in Nat
    /\ destroyed \in 0 .. Len(Destruction)
    /\ active_feed \in BOOLEAN
    /\ active_feed <=> main \in Running
    /\ caller = "joined" => worker = "exited"
    /\ destroyed >= 1 => main \in {"destroying", "ended"} /\ caller = "joined"
    /\ destroyed >= 3 => server = "exited"

LifeInv == PartsInOrder /\ HandlerTyped /\ HandlerHolds

ProcessInv == WorkerProofs!WorkerInv /\ GatewayInv /\ LifeInv

LEMMA DestructionOrder ==
    /\ Len(Destruction) = 5
    /\ DOMAIN Destruction = 1 .. 5
    /\ Destruction[1] = "worker" /\ Destruction[2] = "audit" /\ Destruction[3] = "status"
    /\ Destruction[4] = "gateway" /\ Destruction[5] = "feed"
BY DEF Destruction

(* A part is there as long as its place has not been reached. *)
LEMMA AliveUntil ==
    ASSUME destroyed \in 0 .. 5
    PROVE  /\ Alive("audit") <=> destroyed < 2
           /\ Alive("status") <=> destroyed < 3
           /\ Alive("gateway") <=> destroyed < 4
           /\ Alive("feed") <=> destroyed < 5
<1>1. \A part, i : i \in 1 .. 5 /\ Destruction[i] = part /\ part # "worker" =>
         \/ part = "audit" /\ i = 2
         \/ part = "status" /\ i = 3
         \/ part = "gateway" /\ i = 4
         \/ part = "feed" /\ i = 5
  BY DestructionOrder
<1> QED
  BY <1>1, DestructionOrder DEF Alive

-----------------------------------------------------------------------------
(* The worker of the process is a ModelWorker. *)

LEMMA WorkerAssumed == WorkerProofs!WorkerAssumption
BY ProcessAssumption, OptionalAssumption
   DEF WorkerProofs!WorkerAssumption, WorkerProofs!Sequences, WorkerProofs!Decisions,
       Model!Sequences, Model!Decisions

LEMMA CallerIsWorkers ==
    Model!TryTake \/ Model!Notify \/ Model!Destroy \/ Model!Join => WorkerProofs!Next
<1>1. Model!TryTake => WorkerProofs!TryTake
  BY DEF Model!TryTake, Model!AfterTake, WorkerProofs!TryTake, WorkerProofs!AfterTake
<1>2. Model!Notify => WorkerProofs!Notify
  BY DEF Model!Notify, Model!AfterNotify, WorkerProofs!Notify, WorkerProofs!AfterNotify
<1>3. Model!Destroy => WorkerProofs!Destroy
  BY DEF Model!Destroy, WorkerProofs!Destroy
<1>4. Model!Join => WorkerProofs!Join
  BY DEF Model!Join, WorkerProofs!Join
<1> QED
  BY <1>1, <1>2, <1>3, <1>4 DEF WorkerProofs!Caller, WorkerProofs!Next

LEMMA ThreadIsWorkers ==
    Model!Sleep \/ Model!WakeSpuriously \/ Model!Exit \/ Model!Begin \/ Model!Complete
        => WorkerProofs!Next
<1>1. Model!Sleep => WorkerProofs!Sleep
  BY DEF Model!Sleep, Model!Awaited, WorkerProofs!Sleep, WorkerProofs!Awaited
<1>2. Model!WakeSpuriously => WorkerProofs!WakeSpuriously
  BY DEF Model!WakeSpuriously, WorkerProofs!WakeSpuriously
<1>3. Model!Exit => WorkerProofs!Exit
  BY DEF Model!Exit, WorkerProofs!Exit
<1>4. Model!Begin => WorkerProofs!Begin
  BY DEF Model!Begin, Model!Awaited, WorkerProofs!Begin, WorkerProofs!Awaited
<1>5. Model!Complete => WorkerProofs!Complete
  BY DEF Model!Complete, WorkerProofs!Complete
<1> QED
  BY <1>1, <1>2, <1>3, <1>4, <1>5 DEF WorkerProofs!Worker, WorkerProofs!Next

LEMMA DeliverIsWorkers ==
    ASSUME sequence \in Nat, Deliver
    PROVE  WorkerProofs!Next
<1>1. sequence' \in WorkerProofs!Sequences
  BY ProcessAssumption DEF Deliver, WorkerProofs!Sequences
<1>2. WorkerProofs!Submit(sequence')
  BY DEF Deliver, Model!Submit, Model!Coalesced, WorkerProofs!Submit, WorkerProofs!Coalesced
<1> QED
  BY <1>1, <1>2 DEF WorkerProofs!Next, WorkerProofs!Caller

(* The steps of the process that the worker does not notice. *)
LEMMA StepIsWorkers ==
    ASSUME sequence \in Nat, [ProcessNext]_processVars
    PROVE  WorkerProofs!Next \/ UNCHANGED workerVars
<1>1. CASE Deliver
  BY <1>1, DeliverIsWorkers
<1>2. CASE Notify \/ HandlerDone \/ DestroyWorker
  BY <1>2, CallerIsWorkers DEF Notify, HandlerDone, DestroyWorker
<1>3. CASE WorkerAlone
  BY <1>3, ThreadIsWorkers DEF WorkerAlone, WorkerWaits, AskModel, ModelAnswers
<1>4. CASE UNCHANGED workerVars
  BY <1>4
<1>5. CASE UNCHANGED processVars
  BY <1>5 DEF processVars
<1>6. \/ InstallHandler \/ Build \/ Publish \/ EnterRun \/ TestOuterLoop \/ TestInnerLoop
      \/ WaitBeforeRetry \/ Withdraw \/ StopServer \/ End \/ Connected \/ NothingToDeliver
      \/ Throw \/ Closed
      \/ \E part \in {"audit", "status", "gateway", "feed"} : DestroyPart(part)
      => UNCHANGED workerVars
  BY DEF InstallHandler, Build, Publish, EnterRun, TestOuterLoop, TestInnerLoop,
         WaitBeforeRetry, Withdraw, StopServer, End, Connected, NothingToDeliver, Throw,
         Closed, DestroyPart
<1>7. StatusAlone \/ StatusWithClient \/ WorkerWithModel \/ ModelServer => UNCHANGED workerVars
  BY DEF StatusAlone, StatusWithClient, OpenListener, TestServerLoop, AcceptNobody,
         AcceptClient, ClientServed, ServerGoes, WorkerWithModel, ModelExchange, ModelServer
<1>8. \/ SignalKills
      \/ \E thread \in AllThreads : SignalArrives(thread) \/ HandlerCalls(thread)
      => UNCHANGED workerVars
  BY DEF SignalKills, HandlerCalls, SignalArrives
<1> QED
  BY <1>1, <1>2, <1>3, <1>4, <1>5, <1>6, <1>7, <1>8 DEF ProcessNext, MainAlone, MainWithFeed

LEMMA WorkerInvKept ==
    ASSUME ProcessInv, [ProcessNext]_processVars
    PROVE  WorkerProofs!WorkerInv'
<1>1. [WorkerProofs!Next]_(WorkerProofs!vars)
  <2>1. WorkerProofs!Next \/ UNCHANGED workerVars
    BY StepIsWorkers DEF ProcessInv, LifeInv, PartsInOrder
  <2> QED
    BY <2>1 DEF workerVars, WorkerProofs!vars
<1> QED
  BY <1>1, WorkerAssumed, WorkerProofs!StepKeepsWorkerInv DEF ProcessInv

-----------------------------------------------------------------------------
(* The gateway of the process is asked one question after another. *)

LEMMA StepIsGateways ==
    ASSUME [ProcessNext]_processVars, WorkerProofs!WorkerInv'
    PROVE  Gateway!GatewayNext \/ UNCHANGED gatewayVars
<1>1. CASE AskModel
  <2>1. deciding' \in 1 .. MaxEvents
    BY <1>1 DEF AskModel, Model!Begin, WorkerProofs!WorkerInv, WorkerProofs!TypeOK,
                WorkerProofs!Sequences
  <2> QED
    BY <1>1, <2>1 DEF AskModel, Gateway!GatewayNext
<1>2. CASE ModelAnswers \/ ModelExchange \/ ModelServer
  BY <1>2 DEF ModelAnswers, ModelExchange, ModelServer, Gateway!GatewayNext
<1>3. CASE MainAlone
  BY <1>3 DEF MainAlone, InstallHandler, Build, Publish, EnterRun, TestOuterLoop,
              TestInnerLoop, WaitBeforeRetry, Withdraw, StopServer, End, DestroyPart,
              Notify, HandlerDone, DestroyWorker
<1>4. CASE MainWithFeed
  BY <1>4 DEF MainWithFeed, Connected, NothingToDeliver, Deliver, Throw, Closed
<1>5. CASE StatusAlone \/ StatusWithClient
  BY <1>5 DEF StatusAlone, StatusWithClient, OpenListener, TestServerLoop, AcceptNobody,
              AcceptClient, ClientServed, ServerGoes
<1>6. CASE \/ SignalKills \/ WorkerWaits
           \/ \E thread \in AllThreads : SignalArrives(thread) \/ HandlerCalls(thread)
  BY <1>6 DEF SignalKills, HandlerCalls, SignalArrives, WorkerWaits
<1>7. CASE UNCHANGED processVars
  BY <1>7 DEF processVars
<1> QED
  BY <1>1, <1>2, <1>3, <1>4, <1>5, <1>6, <1>7
     DEF ProcessNext, WorkerAlone, WorkerWithModel

-----------------------------------------------------------------------------
(* The steps of main. *)

(* Up to the destruction main changes the feed, and the worker only as a caller. *)
LEMMA MainMovesKeepLife ==
    ASSUME ProcessInv, Runs("main"),
           \/ InstallHandler \/ Build \/ Publish \/ EnterRun \/ TestOuterLoop
           \/ TestInnerLoop \/ WaitBeforeRetry \/ Withdraw \/ StopServer \/ End
           \/ MainWithFeed
    PROVE  LifeInv'
<1> USE DEF Running
<1>1. /\ UNCHANGED <<destroyed, server, signalVars, worker>>
      /\ caller' \in {caller, "submitted"}
  BY DEF InstallHandler, Build, Publish, EnterRun, TestOuterLoop, TestInnerLoop,
         WaitBeforeRetry, Withdraw, StopServer, End, MainWithFeed, Connected,
         NothingToDeliver, Deliver, Throw, Closed, Model!Submit, statusVars, workerVars
<1>2. HandlerTyped' /\ HandlerHolds'
  <2>1. handler' = handler /\ handler["main"] = "none"
    BY <1>1 DEF signalVars, Runs
  <2>2. ASSUME NEW thread \in AllThreads, handler[thread] # "none"
        PROVE  Holds(thread)' /\ handler[thread] # "crashed"
    <3>1. Holds(thread) /\ thread # "main" /\ handler[thread] # "crashed"
      BY <2>1, <2>2 DEF ProcessInv, LifeInv, HandlerHolds, Runs, Crashed
    <3>2. ~End
      <4>1. destroyed < 3
        BY <3>1 DEF Holds, AllThreads, ProcessInv, LifeInv, PartsInOrder
      <4> QED
        BY <4>1, DestructionOrder DEF End
    <3>3. main' \in Running \cup {"withdrawn", "destroying"}
      BY <3>1, <3>2 DEF Holds, InstallHandler, Build, Publish, EnterRun, TestOuterLoop,
             TestInnerLoop, WaitBeforeRetry, Withdraw, StopServer, MainWithFeed, Connected,
             NothingToDeliver, Deliver, Throw, Closed, Goes
    <3> QED
      BY <1>1, <3>1, <3>3 DEF Holds
  <2> QED
    BY <2>1, <2>2 DEF ProcessInv, LifeInv, HandlerTyped, HandlerHolds
<1>3. sequence' \in Nat
  BY DEF InstallHandler, Build, Publish, EnterRun, TestOuterLoop, TestInnerLoop,
         WaitBeforeRetry, Withdraw, StopServer, End, MainWithFeed, Connected,
         NothingToDeliver, Deliver, Throw, Closed, feedVars, ProcessInv, LifeInv, PartsInOrder
<1>4. active_feed' \in BOOLEAN /\ (active_feed' <=> main' \in Running)
  <2>1. active_feed \in BOOLEAN /\ (active_feed <=> main \in Running)
    BY DEF ProcessInv, LifeInv, PartsInOrder
  <2>2. CASE Publish \/ Withdraw
    BY <2>2 DEF Publish, Withdraw, Goes
  <2>3. CASE InstallHandler \/ Build \/ StopServer \/ End
    BY <2>1, <2>3 DEF InstallHandler, Build, StopServer, End, Goes, feedVars
  <2>4. CASE EnterRun \/ TestOuterLoop \/ TestInnerLoop \/ WaitBeforeRetry
    BY <2>1, <2>4 DEF EnterRun, TestOuterLoop, TestInnerLoop, WaitBeforeRetry, Goes, feedVars
  <2>5. CASE MainWithFeed
    BY <2>1, <2>5 DEF MainWithFeed, Connected, NothingToDeliver, Deliver, Throw, Closed, Goes,
                      feedVars
  <2> QED
    BY <2>2, <2>3, <2>4, <2>5
<1>5. destroyed >= 1 => main' \in {"destroying", "ended"} /\ caller' = "joined"
  <2>1. destroyed >= 1 => main \in {"destroying", "ended"} /\ caller = "joined"
    BY DEF ProcessInv, LifeInv, PartsInOrder
  <2>2. main \in {"destroying", "ended"} => End
    BY DEF InstallHandler, Build, Publish, EnterRun, TestOuterLoop, TestInnerLoop,
           WaitBeforeRetry, Withdraw, StopServer, MainWithFeed, Connected,
           NothingToDeliver, Deliver, Throw, Closed, Goes
  <2>3. End => main' = "ended" /\ caller' = caller
    BY DEF End, Goes, workerVars
  <2> QED
    BY <2>1, <2>2, <2>3
<1>6. PartsInOrder'
  BY <1>1, <1>3, <1>4, <1>5 DEF ProcessInv, LifeInv, PartsInOrder
<1> QED
  BY <1>2, <1>6 DEF LifeInv

(* notify_one and try_take. *)
LEMMA CallerKeepsLife ==
    ASSUME ProcessInv, Runs("main"), Notify \/ HandlerDone
    PROVE  LifeInv'
<1>1. /\ UNCHANGED <<destroyed, server, signalVars, active_feed, sequence>>
      /\ caller' = "joined" <=> caller = "joined"
      /\ worker' = "exited" <=> worker = "exited"
  BY DEF Notify, HandlerDone, Model!Notify, Model!AfterNotify, Model!TryTake, statusVars,
         feedVars, workerVars
<1>2. destroyed >= 1 => UNCHANGED main
  BY DEF Notify, HandlerDone, Goes, ProcessInv, LifeInv, PartsInOrder
<1>3. main' = main \/ (main \in Running /\ main' \in Running)
  BY DEF Notify, HandlerDone, Goes, Running
<1>4. PartsInOrder'
  BY <1>1, <1>2, <1>3 DEF ProcessInv, LifeInv, PartsInOrder
<1>5. HandlerTyped' /\ HandlerHolds'
  BY <1>1, <1>3 DEF ProcessInv, LifeInv, HandlerTyped, HandlerHolds, Holds, signalVars,
                    Runs, Crashed
<1> QED
  BY <1>4, <1>5 DEF LifeInv

(* The destructor of the worker ends with its thread. *)
LEMMA DestroyWorkerKeepsLife ==
    ASSUME ProcessInv, Runs("main"), DestroyWorker
    PROVE  LifeInv'
<1>1. /\ UNCHANGED <<main, server, signalVars, active_feed, sequence, worker>>
      /\ main = "destroying" /\ destroyed = 0
  <2>1. destroyed \in 0 .. 4 /\ Destruction[destroyed + 1] = "worker" /\ main = "destroying"
    BY DestructionOrder DEF DestroyWorker, Destroying, ProcessInv, LifeInv, PartsInOrder
  <2>2. destroyed = 0
    BY <2>1, DestructionOrder
  <2> QED
    BY <2>1, <2>2 DEF DestroyWorker, Model!Destroy, Model!Join, statusVars, feedVars
<1>2. CASE Model!Destroy
  BY <1>1, <1>2 DEF DestroyWorker, Model!Destroy, ProcessInv, LifeInv, PartsInOrder,
                    HandlerTyped, HandlerHolds, Holds, signalVars
<1>3. CASE Model!Join
  <2>1. caller' = "joined" /\ worker = "exited" /\ destroyed' = 1
    BY <1>1, <1>3 DEF DestroyWorker, Model!Join
  <2> QED
    BY <1>1, <2>1, DestructionOrder
       DEF ProcessInv, LifeInv, PartsInOrder, HandlerTyped, HandlerHolds, Holds, signalVars
<1> QED
  BY <1>2, <1>3 DEF DestroyWorker

(* The other parts: a join waits for its thread. *)
LEMMA DestroyPartKeepsLife ==
    ASSUME ProcessInv, Runs("main"),
           NEW part \in {"audit", "status", "gateway", "feed"}, DestroyPart(part)
    PROVE  LifeInv'
<1>1. /\ UNCHANGED <<main, server, signalVars, active_feed, sequence, worker, caller>>
      /\ main = "destroying" /\ destroyed \in 0 .. 4 /\ destroyed' = destroyed + 1
      /\ Destruction[destroyed + 1] = part
      /\ part = "audit" => Runs("audit")
      /\ part = "status" => server = "exited"
  BY DestructionOrder DEF DestroyPart, Destroying, statusVars, feedVars, workerVars,
                          ProcessInv, LifeInv, PartsInOrder
<1>2. /\ destroyed >= 1
      /\ destroyed = 1 => part = "audit"
      /\ destroyed = 2 => part = "status"
  <2>1. destroyed # 0
    BY <1>1, DestructionOrder
  <2> QED
    BY <1>1, <2>1, DestructionOrder
<1>3. PartsInOrder'
  BY <1>1, <1>2, DestructionOrder DEF ProcessInv, LifeInv, PartsInOrder
<1>4. HandlerTyped' /\ HandlerHolds'
  <2>1. handler' = handler /\ (part = "audit" => handler["audit"] = "none")
    BY <1>1 DEF signalVars, Runs
  <2>2. ASSUME NEW thread \in AllThreads, handler[thread] # "none"
        PROVE  Holds(thread)'
    <3>1. Holds(thread) /\ (thread = "audit" => part # "audit")
      BY <2>1, <2>2 DEF ProcessInv, LifeInv, HandlerHolds
    <3>2. thread = "audit" => destroyed' < 2
      BY <1>1, <1>2, <3>1 DEF Holds
    <3> QED
      BY <1>1, <3>1, <3>2 DEF Holds
  <2> QED
    BY <1>1, <2>1, <2>2 DEF ProcessInv, LifeInv, HandlerTyped, HandlerHolds
<1> QED
  BY <1>3, <1>4 DEF LifeInv

-----------------------------------------------------------------------------
(* The steps of the other threads and of the handler. *)

LEMMA ServerKeepsLife ==
    ASSUME ProcessInv, StatusAlone \/ StatusWithClient
    PROVE  LifeInv'
<1>1. /\ UNCHANGED <<main, destroyed, signalVars, active_feed, sequence, worker, caller>>
      /\ server # "exited" /\ Runs("status")
  BY DEF StatusAlone, StatusWithClient, OpenListener, TestServerLoop, AcceptNobody,
         AcceptClient, ClientServed, ServerGoes, feedVars, workerVars
<1>2. handler' = handler /\ handler["status"] = "none"
  BY <1>1 DEF signalVars, Runs
<1>3. PartsInOrder'
  BY <1>1 DEF ProcessInv, LifeInv, PartsInOrder
<1> QED
  BY <1>1, <1>2, <1>3 DEF ProcessInv, LifeInv, HandlerTyped, HandlerHolds, Holds

LEMMA WorkerKeepsLife ==
    ASSUME ProcessInv, WorkerAlone \/ WorkerWithModel \/ ModelServer
    PROVE  LifeInv'
<1>1. UNCHANGED <<main, destroyed, signalVars, active_feed, sequence, server, caller>>
  BY DEF WorkerAlone, WorkerWaits, AskModel, ModelAnswers, WorkerWithModel, ModelExchange,
         ModelServer, Model!Sleep, Model!WakeSpuriously, Model!Exit, Model!Begin,
         Model!Complete, feedVars, statusVars, workerVars
<1>2. \/ UNCHANGED worker
      \/ worker # "exited" /\ Runs("worker")
  BY DEF WorkerAlone, WorkerWaits, AskModel, ModelAnswers, WorkerWithModel, ModelExchange,
         ModelServer, Model!Sleep, Model!WakeSpuriously, Model!Exit, Model!Begin,
         Model!Complete, workerVars
<1>3. handler' = handler /\ (UNCHANGED worker \/ handler["worker"] = "none")
  BY <1>1, <1>2 DEF signalVars, Runs
<1>4. PartsInOrder'
  BY <1>1, <1>2 DEF ProcessInv, LifeInv, PartsInOrder
<1> QED
  BY <1>1, <1>3, <1>4 DEF ProcessInv, LifeInv, HandlerTyped, HandlerHolds, Holds

(* A thread that takes a signal has not ended. *)
LEMMA SignalArrivesKeepsLife ==
    ASSUME ProcessInv, NEW thread \in AllThreads, SignalArrives(thread)
    PROVE  LifeInv'
<1>1. /\ UNCHANGED <<main, destroyed, active_feed, sequence, server, caller, worker>>
      /\ handler' = IF active_feed THEN [handler EXCEPT ![thread] = "tested"] ELSE handler
      /\ thread \in Threads
  BY DEF SignalArrives, feedVars, statusVars, workerVars
<1>2. PartsInOrder'
  BY <1>1 DEF ProcessInv, LifeInv, PartsInOrder
<1>3. HandlerTyped /\ HandlerHolds
  BY DEF ProcessInv, LifeInv
<1>4. CASE active_feed
  <2>1. main \in Running /\ destroyed \in 0 .. 5
    BY <1>4, DestructionOrder DEF ProcessInv, LifeInv, PartsInOrder
  <2>2. /\ thread = "worker" => worker # "exited"
        /\ thread = "status" => server # "exited"
        /\ thread = "audit" => destroyed < 2
    BY <1>1, <2>1, AliveUntil DEF Threads
  <2>3. Holds(thread)'
    BY <1>1, <2>1, <2>2 DEF Holds
  <2>4. handler' = [handler EXCEPT ![thread] = "tested"]
    BY <1>1, <1>4
  <2>5. HandlerTyped'
    BY <1>3, <2>4 DEF HandlerTyped
  <2>6. HandlerHolds'
    BY <1>1, <1>3, <2>3, <2>4 DEF HandlerTyped, HandlerHolds, Holds
  <2> QED
    BY <1>2, <2>5, <2>6 DEF LifeInv
<1>5. CASE ~active_feed
  <2>1. handler' = handler
    BY <1>1, <1>5
  <2> QED
    BY <1>1, <1>2, <1>3, <2>1 DEF LifeInv, HandlerTyped, HandlerHolds, Holds
<1> QED
  BY <1>4, <1>5

(* The call, through the feed or, when main has withdrawn it, through null. *)
LEMMA HandlerCallsKeepsLife ==
    ASSUME ProcessInv, NEW thread \in AllThreads, HandlerCalls(thread)
    PROVE  LifeInv'
<1>1. /\ UNCHANGED <<main, destroyed, active_feed, sequence, server, caller, worker>>
      /\ handler[thread] = "tested"
      /\ \/ handler' = [handler EXCEPT ![thread] = "none"]
         \/ ~active_feed /\ handler' = [handler EXCEPT ![thread] = "crashed"]
  BY DEF HandlerCalls, statusVars, workerVars
<1>2. PartsInOrder'
  BY <1>1 DEF ProcessInv, LifeInv, PartsInOrder
<1>3. HandlerTyped /\ HandlerHolds /\ Holds(thread)
  BY <1>1 DEF ProcessInv, LifeInv, HandlerHolds
<1>4. ~active_feed => main \in {"withdrawn", "destroying"}
  BY <1>3 DEF Holds, ProcessInv, LifeInv, PartsInOrder
<1>5. HandlerTyped'
  BY <1>1, <1>3 DEF HandlerTyped
<1>6. HandlerHolds'
  BY <1>1, <1>3, <1>4 DEF HandlerTyped, HandlerHolds, Holds
<1> QED
  BY <1>2, <1>5, <1>6 DEF LifeInv

LEMMA SignalsKeepLife ==
    ASSUME ProcessInv,
           \/ SignalKills
           \/ \E thread \in AllThreads : SignalArrives(thread) \/ HandlerCalls(thread)
    PROVE  LifeInv'
<1>1. CASE SignalKills
  <2>1. /\ main = "starting" /\ main' = "killed"
        /\ UNCHANGED <<destroyed, active_feed, sequence, server, handler, caller, worker>>
    BY <1>1 DEF SignalKills, feedVars, statusVars, signalVars, workerVars
  <2>2. \A thread \in AllThreads : handler[thread] = "none"
    BY <2>1 DEF Running, ProcessInv, LifeInv, HandlerHolds, Holds
  <2>3. PartsInOrder'
    BY <2>1 DEF Running, ProcessInv, LifeInv, PartsInOrder
  <2> QED
    BY <2>1, <2>2, <2>3 DEF ProcessInv, LifeInv, HandlerTyped, HandlerHolds
<1> QED
  BY <1>1, SignalArrivesKeepsLife, HandlerCallsKeepsLife

-----------------------------------------------------------------------------
LEMMA InitProcessInv == ProcessInit => ProcessInv
<1> SUFFICES ASSUME ProcessInit PROVE ProcessInv
  OBVIOUS
<1>1. WorkerProofs!WorkerInv
  <2>1. WorkerProofs!Init
    BY DEF ProcessInit, Model!Init, WorkerProofs!Init
  <2> QED
    BY <2>1, WorkerAssumed, WorkerProofs!InitWorkerInv
<1>2. GatewayInv
  BY InitGatewayInv DEF ProcessInit
<1>3. LifeInv
  <2>1. PartsInOrder
    <3>1. sequence = 0 /\ destroyed = 0 /\ active_feed = FALSE /\ caller = "ready"
      BY DEF ProcessInit, Model!Init
    <3>2. active_feed \in BOOLEAN /\ (active_feed <=> main \in Running)
      BY <3>1 DEF ProcessInit, Running
    <3>3. /\ sequence \in Nat /\ destroyed \in 0 .. Len(Destruction)
          /\ ~(destroyed >= 1) /\ ~(destroyed >= 3) /\ caller # "joined"
      BY <3>1, DestructionOrder
    <3> QED
      BY <3>2, <3>3 DEF PartsInOrder
  <2>2. handler = [thread \in AllThreads |-> "none"]
    BY DEF ProcessInit
  <2>3. HandlerTyped /\ HandlerHolds
    BY <2>2 DEF HandlerTyped, HandlerHolds
  <2> QED
    BY <2>1, <2>3 DEF LifeInv
<1> QED
  BY <1>1, <1>2, <1>3 DEF ProcessInv

LEMMA StepKeepsProcessInv == ProcessInv /\ [ProcessNext]_processVars => ProcessInv'
<1> SUFFICES ASSUME ProcessInv, [ProcessNext]_processVars PROVE ProcessInv'
  OBVIOUS
<1>1. WorkerProofs!WorkerInv'
  BY WorkerInvKept
<1>2. GatewayInv'
  BY <1>1, StepIsGateways, StepKeepsGatewayInv DEF ProcessInv
<1>3. LifeInv'
  <2>1. CASE MainAlone
    BY <2>1, MainMovesKeepLife, CallerKeepsLife, DestroyWorkerKeepsLife, DestroyPartKeepsLife
       DEF MainAlone
  <2>2. CASE MainWithFeed
    BY <2>2, MainMovesKeepLife DEF MainWithFeed
  <2>3. CASE StatusAlone \/ StatusWithClient
    BY <2>3, ServerKeepsLife
  <2>4. CASE WorkerAlone \/ WorkerWithModel \/ ModelServer
    BY <2>4, WorkerKeepsLife
  <2>5. CASE \/ SignalKills
             \/ \E thread \in AllThreads : SignalArrives(thread) \/ HandlerCalls(thread)
    BY <2>5, SignalsKeepLife
  <2>6. CASE UNCHANGED processVars
    BY <2>6 DEF processVars, feedVars, statusVars, signalVars, workerVars, ProcessInv,
                LifeInv, PartsInOrder, HandlerTyped, HandlerHolds, Holds
  <2> QED
    BY <2>1, <2>2, <2>3, <2>4, <2>5, <2>6 DEF ProcessNext
<1> QED
  BY <1>1, <1>2, <1>3 DEF ProcessInv

(* The worker's pipeline, the gateway's connection and the order of the          *)
(* destruction, in every interleaving of the threads and of the signal handlers   *)
(* that run on them, each with its two reads of active_feed (main.cpp:23-25 and    *)
(* the end of --live).                                                       *)
THEOREM ProcessInvariant == ProcessSpec => []ProcessInv
<1>1. ProcessInit => ProcessInv
  BY InitProcessInv
<1>2. ProcessInv /\ [ProcessNext]_processVars => ProcessInv'
  BY StepKeepsProcessInv
<1> QED
  BY <1>1, <1>2, PTL DEF ProcessSpec

(* No thread and no signal handler uses a part that main has destroyed.  Where   *)
(* the handler's second read of active_feed finds null, the feed still exists     *)
(* and main has just withdrawn it, so a first signal has stopped it already       *)
(* (main.cpp:23-25 and 256).                                                 *)
THEOREM ProcessUsesLivingParts == ProcessSpec => []NothingUsedAfterDestruction
<1>1. ProcessInv => NothingUsedAfterDestruction
  <2> SUFFICES ASSUME ProcessInv PROVE NothingUsedAfterDestruction
    OBVIOUS
  <2>1. destroyed \in 0 .. 5
    BY DestructionOrder DEF ProcessInv, LifeInv, PartsInOrder
  <2>2. worker = "deciding" => Alive("gateway")
    BY <2>1, AliveUntil DEF ProcessInv, LifeInv, PartsInOrder
  <2>3. server # "exited" => Alive("status")
    BY <2>1, AliveUntil DEF ProcessInv, LifeInv, PartsInOrder
  <2>4. ASSUME NEW thread \in AllThreads, handler[thread] # "none"
        PROVE  Alive("feed")
    <3>1. Holds(thread)
      BY <2>4 DEF ProcessInv, LifeInv, HandlerHolds
    <3>2. destroyed < 3
      BY <3>1 DEF Holds, Running, AllThreads, ProcessInv, LifeInv, PartsInOrder
    <3> QED
      BY <2>1, <3>2, AliveUntil
  <2>5. \A thread \in AllThreads :
           handler[thread] = "crashed" => thread # "main" /\ main \in {"withdrawn", "destroying"}
    BY DEF Running, ProcessInv, LifeInv, HandlerHolds, Holds
  <2> QED
    BY <2>2, <2>3, <2>4, <2>5 DEF NothingUsedAfterDestruction
<1> QED
  BY <1>1, ProcessInvariant, PTL

(* An answer of the model is about the state that the worker asked about.        *)
THEOREM ProcessAnswersOwnQuestion == ProcessSpec => []AnswersOwnQuestion
<1>1. ProcessInv => AnswersOwnQuestion
  BY DEF ProcessInv, GatewayInv, AnswersOwnQuestion
<1> QED
  BY <1>1, ProcessInvariant, PTL
=============================================================================

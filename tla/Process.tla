------------------------------ MODULE Process ------------------------------
(***************************************************************************)
(* The life of astra_trader --live: the main thread builds the parts, runs   *)
(* the feed, and takes the parts down again when a signal has stopped it.     *)
(* Beside it run the worker's thread in its decision function, the status     *)
(* server's thread, the audit writer's (which appears only as a thread that   *)
(* can take a signal; see AuditWriter), and the signal handler, which runs    *)
(* on whatever thread the system chooses and suspends it.                    *)
(*                                                                         *)
(*   main            where the main thread is                                *)
(*   active_feed     the global that the signal handler reads                 *)
(*   stop_requested  stop_requested_ of the feed                             *)
(*   retry_delay     run's, in seconds                                      *)
(*   sequence        run's: the events decoded                               *)
(*   destroyed       how many of the parts have been destroyed                *)
(*   stopping, server     stopping_ and the thread of the status server       *)
(*   handler         of each thread whether the signal handler runs on it: it  *)
(*                   has seen a feed ("tested") or called through null         *)
(*                   ("crashed")                                             *)
(*   signals         the number of signals so far                           *)
(*                                                                         *)
(* Every event is a state for the model.  LiveTrader has the other events    *)
(* and the rest of the handler.                                             *)
(***************************************************************************)
EXTENDS Naturals, Sequences, FiniteSets

CONSTANTS
    None,
    MaxEvents,          \* bounds the events delivered
    MaxSignals,         \* bounds the signals
    MaxDelay            \* 30 seconds

ASSUME ProcessAssumption ==
    /\ {MaxEvents, MaxSignals} \subseteq Nat
    /\ MaxDelay \in Nat \ {0}
    /\ None \notin Nat

VARIABLES main, active_feed, stop_requested, retry_delay, sequence, destroyed
VARIABLES stopping, server, handler, signals
VARIABLES pending, completed, coalesced, caller, worker, deciding, log, worker_stopping
VARIABLES call, link, result

feedVars == <<active_feed, stop_requested, retry_delay, sequence>>
statusVars == <<stopping, server>>
signalVars == <<handler, signals>>
workerVars == <<pending, completed, coalesced, caller, worker, deciding, log, worker_stopping>>
gatewayVars == <<call, link, result>>

processVars == <<main, feedVars, destroyed, statusVars, signalVars, workerVars, gatewayVars>>

Model == INSTANCE ModelWorker WITH
            Outcomes <- {"answer", "failure"}, MaxSequence <- MaxEvents,
            stopping <- worker_stopping

Gateway == INSTANCE LayaGateway WITH Questions <- 1 .. MaxEvents

(* An empty optional is not a decision. *)
ASSUME OptionalAssumption == None \notin Model!Decisions

(* Mutant of Destruction: the gateway is declared after the worker. *)
DestructionGatewayFirst == <<"gateway", "worker", "audit", "status", "feed">>

(* The local variables of main that have threads or are used by them, in the   *)
(* order of their destruction.                                              *)
Destruction == <<"worker", "audit", "status", "gateway", "feed">>

Alive(part) == \E i \in DOMAIN Destruction : Destruction[i] = part /\ destroyed < i

Built == main \notin {"starting", "building", "killed"}

AllThreads == {"main", "worker", "status", "audit"}

ProcessInit ==
    /\ main = "starting"
    /\ active_feed = FALSE /\ stop_requested = FALSE
    /\ retry_delay = 1 /\ sequence = 0 /\ destroyed = 0
    /\ stopping = FALSE /\ server = "opening"
    /\ handler = [thread \in AllThreads |-> "none"] /\ signals = 0
    /\ Model!Init
    /\ Gateway!InitGateway

-----------------------------------------------------------------------------
(* Signals. *)

Threads ==
    (IF main \in {"ended", "killed"} THEN {} ELSE {"main"})
      \cup (IF Built /\ server # "exited" THEN {"status"} ELSE {})
      \cup (IF Built /\ worker # "exited" THEN {"worker"} ELSE {})
      \cup (IF Built /\ main # "ended" /\ Alive("audit") THEN {"audit"} ELSE {})

Crashed == \E thread \in AllThreads : handler[thread] = "crashed"

(* A thread goes on when no handler suspends it and the process still exists. *)
Runs(thread) == handler[thread] = "none" /\ ~Crashed

(* Before the handler is installed a signal ends the process. *)
SignalKills ==
    /\ main = "starting"
    /\ main' = "killed"
    /\ UNCHANGED <<feedVars, destroyed, statusVars, signalVars, workerVars, gatewayVars>>

(* stop_feed reads active_feed and returns if it is null ... *)
SignalArrives(thread) ==
    /\ main # "starting"
    /\ thread \in Threads
    /\ Runs(thread)
    /\ signals < MaxSignals
    /\ handler' = IF active_feed THEN [handler EXCEPT ![thread] = "tested"] ELSE handler
    /\ signals' = signals + 1
    /\ UNCHANGED <<main, feedVars, destroyed, statusVars, workerVars, gatewayVars>>

(* ... and calls stop through it.  The global is neither atomic nor volatile:  *)
(* a build may keep the pointer that was tested or read it again, and may find *)
(* null by then.                                                            *)
HandlerCalls(thread) ==
    /\ handler[thread] = "tested"
    /\ ~Crashed
    /\ \/ /\ stop_requested' = TRUE
          /\ handler' = [handler EXCEPT ![thread] = "none"]
       \/ /\ ~active_feed
          /\ handler' = [handler EXCEPT ![thread] = "crashed"]
          /\ UNCHANGED stop_requested
    /\ UNCHANGED <<main, active_feed, retry_delay, sequence, destroyed, signals,
                   statusVars, workerVars, gatewayVars>>

-----------------------------------------------------------------------------
(* The main thread up to run, and the loops of run. *)

Goes(from, to) ==
    /\ main = from
    /\ main' = to

InstallHandler ==
    /\ Goes("starting", "building")
    /\ UNCHANGED <<feedVars, destroyed, statusVars, signalVars, workerVars, gatewayVars>>

Build ==
    /\ Goes("building", "built")
    /\ UNCHANGED <<feedVars, destroyed, statusVars, signalVars, workerVars, gatewayVars>>

Publish ==
    /\ Goes("built", "armed")
    /\ active_feed' = TRUE
    /\ UNCHANGED <<stop_requested, retry_delay, sequence, destroyed, statusVars, signalVars,
                   workerVars, gatewayVars>>

EnterRun ==
    /\ Goes("armed", "looping")
    /\ stop_requested' = FALSE
    /\ retry_delay' = 1 /\ sequence' = 0
    /\ UNCHANGED <<active_feed, destroyed, statusVars, signalVars, workerVars, gatewayVars>>

TestOuterLoop ==
    /\ Goes("looping", IF stop_requested THEN "returned" ELSE "connecting")
    /\ UNCHANGED <<feedVars, destroyed, statusVars, signalVars, workerVars, gatewayVars>>

Connected ==
    /\ Goes("connecting", "receiving")
    /\ retry_delay' = 1
    /\ UNCHANGED <<active_feed, stop_requested, sequence, destroyed, statusVars, signalVars,
                   workerVars, gatewayVars>>

(* Mutant of MayRead: the inner loop does not look at the flag. *)
MayReadAlways == TRUE

MayRead == ~stop_requested

TestInnerLoop ==
    /\ Goes("receiving", IF MayRead THEN "reading" ELSE "closing")
    /\ UNCHANGED <<feedVars, destroyed, statusVars, signalVars, workerVars, gatewayVars>>

(* A read that times out, or an event that is not passed on. *)
NothingToDeliver ==
    /\ Goes("reading", "receiving")
    /\ sequence' \in {sequence, sequence + 1}
    /\ sequence' <= MaxEvents
    /\ UNCHANGED <<active_feed, stop_requested, retry_delay, destroyed, statusVars, signalVars,
                   workerVars, gatewayVars>>

(* The handler submits the event's state and looks for a decision. *)
Deliver ==
    /\ Goes("reading", "handling")
    /\ sequence < MaxEvents
    /\ sequence' = sequence + 1
    /\ Model!Submit(sequence')
    /\ UNCHANGED <<active_feed, stop_requested, retry_delay, destroyed, statusVars, signalVars,
                   gatewayVars>>

Notify ==
    /\ main \in {"handling", "destroying"}
    /\ Model!Notify
    /\ UNCHANGED <<main, feedVars, destroyed, statusVars, signalVars, gatewayVars>>

HandlerDone ==
    /\ Goes("handling", "receiving")
    /\ caller = "ready"
    /\ IF completed = None THEN UNCHANGED workerVars ELSE Model!TryTake
    /\ UNCHANGED <<feedVars, destroyed, statusVars, signalVars, gatewayVars>>

(* Resolving, connecting, reading or decoding throws.  A message that does    *)
(* not decode has used a sequence.                                          *)
Throw ==
    /\ main \in {"connecting", "reading"}
    /\ main' = IF stop_requested THEN "returned" ELSE "waiting"
    /\ sequence' \in IF main = "reading" THEN {sequence, sequence + 1} ELSE {sequence}
    /\ sequence' <= MaxEvents
    /\ UNCHANGED <<active_feed, stop_requested, retry_delay, destroyed, statusVars, signalVars,
                   workerVars, gatewayVars>>

WaitBeforeRetry ==
    /\ Goes("waiting", "looping")
    /\ retry_delay' = IF 2 * retry_delay < MaxDelay THEN 2 * retry_delay ELSE MaxDelay
    /\ UNCHANGED <<active_feed, stop_requested, sequence, destroyed, statusVars, signalVars,
                   workerVars, gatewayVars>>

Closed ==
    /\ Goes("closing", "looping")
    /\ UNCHANGED <<feedVars, destroyed, statusVars, signalVars, workerVars, gatewayVars>>

-----------------------------------------------------------------------------
(* After run: the feed is withdrawn, the server told to stop, and the parts   *)
(* are destroyed.                                                           *)

Withdraw ==
    /\ Goes("returned", "withdrawn")
    /\ active_feed' = FALSE
    /\ UNCHANGED <<stop_requested, retry_delay, sequence, destroyed, statusVars, signalVars,
                   workerVars, gatewayVars>>

StopServer ==
    /\ Goes("withdrawn", "destroying")
    /\ stopping' = TRUE
    /\ UNCHANGED <<feedVars, destroyed, server, signalVars, workerVars, gatewayVars>>

Destroying(part) ==
    /\ main = "destroying"
    /\ destroyed < Len(Destruction)
    /\ Destruction[destroyed + 1] = part

DestroyWorker ==
    /\ Destroying("worker")
    /\ Model!Destroy \/ Model!Join
    /\ destroyed' = IF caller' = "joined" THEN destroyed + 1 ELSE destroyed
    /\ UNCHANGED <<main, feedVars, statusVars, signalVars, gatewayVars>>

(* Joins wait for the thread; a thread that runs the handler has not ended. *)
DestroyPart(part) ==
    /\ part # "worker"
    /\ Destroying(part)
    /\ part = "audit" => Runs("audit")
    /\ part = "status" => server = "exited"
    /\ destroyed' = destroyed + 1
    /\ UNCHANGED <<main, feedVars, statusVars, signalVars, workerVars, gatewayVars>>

End ==
    /\ Goes("destroying", "ended")
    /\ destroyed = Len(Destruction)
    /\ UNCHANGED <<feedVars, destroyed, statusVars, signalVars, workerVars, gatewayVars>>

-----------------------------------------------------------------------------
(* The status server's thread. *)

ServerGoes(from, to) ==
    /\ Built
    /\ server = from
    /\ server' = to
    /\ UNCHANGED <<main, feedVars, destroyed, stopping, signalVars, workerVars, gatewayVars>>

(* The listener cannot be opened when its port is taken. *)
OpenListener == \E next \in {"testing", "exited"} : ServerGoes("opening", next)

TestServerLoop == ServerGoes("testing", IF stopping THEN "exited" ELSE "accepting")

(* There is no client, or the listener was closed. *)
AcceptNobody == ServerGoes("accepting", IF stopping THEN "exited" ELSE "testing")

AcceptClient == ServerGoes("accepting", "serving")

(* The request has been read, or the client is gone, and the answer written. *)
ClientServed == ServerGoes("serving", "testing")

-----------------------------------------------------------------------------
(* The worker's thread. *)

WorkerWaits ==
    /\ Built
    /\ Model!Sleep \/ Model!WakeSpuriously \/ Model!Exit
    /\ UNCHANGED <<main, feedVars, destroyed, statusVars, signalVars, gatewayVars>>

AskModel ==
    /\ Model!Begin
    /\ Gateway!Ask(deciding')
    /\ UNCHANGED <<main, feedVars, destroyed, statusVars, signalVars>>

ModelAnswers ==
    /\ Model!Complete
    /\ completed'.outcome = IF result.failed THEN "failure" ELSE "answer"
    /\ Gateway!Return
    /\ UNCHANGED <<main, feedVars, destroyed, statusVars, signalVars>>

ModelExchange ==
    /\ Gateway!Exchange
    /\ UNCHANGED <<main, feedVars, destroyed, statusVars, signalVars, workerVars>>

ModelServer ==
    /\ Gateway!Server
    /\ UNCHANGED <<main, feedVars, destroyed, statusVars, signalVars, workerVars>>

-----------------------------------------------------------------------------
(* Steps that a thread takes by itself, and those that wait for another        *)
(* process: the exchange, a client, the model's server.                     *)

MainAlone ==
    /\ Runs("main")
    /\ \/ InstallHandler \/ Build \/ Publish \/ EnterRun
       \/ TestOuterLoop \/ TestInnerLoop \/ WaitBeforeRetry
       \/ Notify \/ HandlerDone
       \/ Withdraw \/ StopServer \/ DestroyWorker \/ End
       \/ \E part \in {"audit", "status", "gateway", "feed"} : DestroyPart(part)

MainWithFeed ==
    /\ Runs("main")
    /\ Connected \/ NothingToDeliver \/ Deliver \/ Throw \/ Closed

StatusAlone ==
    /\ Runs("status")
    /\ OpenListener \/ TestServerLoop \/ AcceptNobody

StatusWithClient ==
    /\ Runs("status")
    /\ AcceptClient \/ ClientServed

WorkerAlone ==
    /\ Runs("worker")
    /\ WorkerWaits \/ AskModel \/ ModelAnswers

WorkerWithModel ==
    /\ Runs("worker")
    /\ ModelExchange

ProcessNext ==
    \/ MainAlone \/ MainWithFeed
    \/ StatusAlone \/ StatusWithClient
    \/ WorkerAlone \/ WorkerWithModel \/ ModelServer
    \/ SignalKills
    \/ \E thread \in AllThreads : SignalArrives(thread) \/ HandlerCalls(thread)

(* The system runs every thread that can run.  Nothing is assumed of signals   *)
(* or of the other processes.                                               *)
ProcessSpec ==
    /\ ProcessInit /\ [][ProcessNext]_processVars
    /\ WF_processVars(MainAlone) /\ WF_processVars(StatusAlone)
    /\ WF_processVars(WorkerAlone)
    /\ \A thread \in AllThreads : WF_processVars(HandlerCalls(thread))

-----------------------------------------------------------------------------
(* Nobody uses a part that has been destroyed: neither the worker's thread the  *)
(* gateway, nor the signal handler, on whatever threads, the feed it saw       *)
(* before active_feed was cleared.  Where the handler reads active_feed again    *)
(* and calls through null, main has returned from run and cleared it between    *)
(* the two reads, on another thread.                                        *)
NothingUsedAfterDestruction ==
    /\ worker = "deciding" => Alive("gateway")
    /\ server # "exited" => Alive("status")
    /\ \A thread \in AllThreads :
          /\ handler[thread] = "tested" => Alive("feed")
          /\ handler[thread] = "crashed" =>
                thread # "main" /\ Alive("feed") /\ main \in {"withdrawn", "destroying"}

(* LayaGateway, with the worker that asks one question after another. *)
AnswersOwnQuestion == Gateway!AnswersOwnQuestion

(* No call to another process lasts for ever. *)
CallsReturn ==
    /\ \A place \in {"connecting", "reading", "closing"} : []<>(main # place)
    /\ []<>(server # "serving")
    /\ \A phase \in {"connecting", "writing", "reading"} : []<>(call.phase # phase)

(* "Stop it with SIGINT or SIGTERM" (README.md): once a stop has reached a      *)
(* running feed the process ends, whatever its threads are doing, unless it    *)
(* waits for another process that never answers.  It ends at the end of main   *)
(* or, after a second signal, in the handler's call through null.              *)
StopEndsProcess ==
    CallsReturn =>
        (stop_requested /\ main \notin {"built", "armed"} ~> main = "ended" \/ Crashed)

=============================================================================

------------------------------- MODULE Process -------------------------------
(***************************************************************************)
(* The life of the bridge's process (run in cmd/bridge/main.go): it reads  *)
(* its configuration, opens the database, starts the serial source, the    *)
(* web server and, with CalTopo enabled, the delivery worker, waits for    *)
(* the first of the two to end, stops the rest and waits for all.  Signals *)
(* come at any time, the web server may fail, a request may hang, and the  *)
(* process may be killed at any step and is started again by systemd.      *)
(*                                                                         *)
(* What the goroutines do is in Serial, Ingest, Worker and Tracks; here    *)
(* they run, notice that their context is cancelled, and end.              *)
(***************************************************************************)
EXTENDS Config, Migration

CONSTANTS
  Environments,   \* the environments the process may be started with
  CommandLines,   \* the command lines
  NoConfig

ASSUME ProcessAssumption ==
  /\ \A env \in Environments :
       DOMAIN env = Settings /\ \A s \in Numeric : env[s] \in Given(s)
  /\ \A line \in CommandLines :
       DOMAIN line.flags = Flags /\ \A s \in Numeric \cap Flags : line.flags[s] \in Given(s)
  /\ NoConfig \notin {Configured(env, line.flags) :
                        env \in Environments, line \in CommandLines}

VARIABLES
  main,       \* where run is (see MainStages)
  cfg,        \* the configuration
  catching,   \* whether signals go to the context, not to the process
  cancelled,  \* whether the context is cancelled
  source,     \* the goroutine of the serial source
  server,     \* the goroutine of the web server
  worker,     \* the goroutine of the delivery worker
  shut,       \* whether httpServer.Shutdown was called
  request,    \* whether an HTTP request is being served
  channel,    \* runtimeErrors: the results sent and not yet received
  result,     \* what run is to return
  told,       \* history: whether this process was sent a signal, or asked
              \* only to print something
  status      \* how the last process ended: "0", "1" or "killed"

run        == <<main, cfg, catching, cancelled, result>>
goroutines == <<source, server, worker, shut, request, channel>>
vars == <<store, run, goroutines, told, status>>

\* "down"; before Parse; before the Stat of the device; in store.Open; waiting
\* for a result; before Shutdown; in Shutdown; in wait.Wait; after the
\* deferred calls of Close.
MainStages ==
  {"down", "parse", "stat", "open", "receive", "stop", "shutdown", "wait", "return"}

\* What a goroutine puts into the channel: nil or an error.
Results == {"nil", "error"}

\* A goroutine is not there, runs (the server: also serves), is about to send
\* nil, about to send an error, or has ended.
RoutineStages == {"off", "running", "serving", "nil", "error", "ended"}

TypeOK ==
  /\ StoreTypeOK
  /\ main \in MainStages
  /\ cfg = NoConfig \/ Validate(cfg)
  /\ {catching, cancelled, shut, request, told} \subseteq BOOLEAN
  /\ source \in {"off", "running", "nil", "ended"}
  /\ server \in RoutineStages
  /\ worker \in {"off", "running", "ended"}
  /\ channel \in Seq(Results) /\ Len(channel) <= 2
  /\ result \in Results
  /\ status \in {"0", "1", "killed"}

Init ==
  /\ StoreInit
  /\ main = "down" /\ cfg = NoConfig
  /\ catching = FALSE /\ cancelled = FALSE
  /\ source = "off" /\ server = "off" /\ worker = "off"
  /\ shut = FALSE /\ request = FALSE
  /\ channel = <<>> /\ result = "nil"
  /\ told = TRUE /\ status = "0"

-----------------------------------------------------------------------------
(* The process ends, and begins.                                           *)

\* Whatever the process held is gone; a transaction that was open is undone.
Exit(code) ==
  /\ main' = "down" /\ cfg' = NoConfig
  /\ catching' = FALSE /\ cancelled' = FALSE
  /\ source' = "off" /\ server' = "off" /\ worker' = "off"
  /\ shut' = FALSE /\ request' = FALSE
  /\ channel' = <<>> /\ result' = "nil"
  /\ CloseStore
  /\ status' = code

\* By systemd after a failure, or by an operator.
Start ==
  /\ main = "down"
  /\ main' = "parse"
  /\ told' = FALSE
  /\ UNCHANGED <<store, cfg, catching, cancelled, result, goroutines, status>>

Crash ==
  /\ main # "down"
  /\ Exit("killed")
  /\ UNCHANGED told

\* SIGINT or SIGTERM: cancels the context between NotifyContext and stop;
\* before and after it ends the process, as by default.
Signal ==
  /\ main # "down"
  /\ told' = TRUE
  /\ IF catching
     THEN /\ cancelled' = TRUE
          /\ UNCHANGED <<store, main, cfg, catching, result, goroutines, status>>
     ELSE Exit("killed")

-----------------------------------------------------------------------------
(* run, up to the start of the goroutines.                                 *)

\* config.Parse, and what -version and -list-devices print.
Parse ==
  /\ main = "parse"
  /\ \E env \in Environments, line \in CommandLines :
       LET c == Configured(env, line.flags)
       IN  \/ /\ Readable(env, line)
              /\ ~ line.print
              /\ Validate(c)
              /\ cfg' = c
              /\ main' = "stat"
              /\ UNCHANGED <<store, catching, cancelled, result, goroutines, told, status>>
           \/ /\ Readable(env, line)
              /\ line.print
              /\ told' = TRUE
              /\ \E code \in {"0", "1"} : Exit(code)
           \/ /\ Readable(env, line) => ~ line.print /\ ~ Validate(c)
              /\ UNCHANGED told
              /\ Exit("1")

\* The serial device exists; signals are caught from here on.
StatDevice ==
  /\ main = "stat"
  /\ main' = "open"
  /\ catching' = TRUE
  /\ OpenStore
  /\ UNCHANGED <<cfg, cancelled, result, goroutines, told, status>>

OpenDatabase ==
  /\ main = "open"
  /\ OpenStep
  /\ UNCHANGED <<run, goroutines, told, status>>

\* No device; a statement of Open fails, on the disk or because the context
\* is cancelled; caltopo.New fails.
StartFails ==
  /\ main \in {"stat", "open"}
  /\ main = "open" /\ stage = "open" => cfg.caltopo
  /\ Exit("1")
  /\ UNCHANGED told

StartGoroutines ==
  /\ main = "open"
  /\ stage = "open"
  /\ worker' = IF cfg.caltopo THEN "running" ELSE "off"
  /\ source' = "running" /\ server' = "running"
  /\ main' = "receive"
  /\ UNCHANGED <<store, cfg, catching, cancelled, result, shut, request, channel,
                 told, status>>

-----------------------------------------------------------------------------
(* The goroutines.                                                         *)

\* Source.Run retries whatever fails and returns once the context is cancelled.
\* Faulty variant: it returns when it has lost the connection.
SourceEnds_OnLoss ==
  /\ source = "running"
  /\ source' = "nil"
  /\ UNCHANGED <<store, run, server, worker, shut, request, channel, told, status>>

SourceEnds ==
  /\ source = "running"
  /\ cancelled
  /\ source' = "nil"
  /\ UNCHANGED <<store, run, server, worker, shut, request, channel, told, status>>

WorkerEnds ==
  /\ worker = "running"
  /\ cancelled
  /\ worker' = "ended"
  /\ UNCHANGED <<store, run, source, server, shut, request, channel, told, status>>

\* ListenAndServe: refuses to start once Shutdown was called.
Serve ==
  /\ server = "running"
  /\ server' = IF shut THEN "nil" ELSE "serving"
  /\ UNCHANGED <<store, run, source, worker, shut, request, channel, told, status>>

\* The address is in use; the listener breaks.
ServerFails ==
  /\ \/ server = "running"
     \/ server = "serving" /\ ~ shut
  /\ server' = "error"
  /\ UNCHANGED <<store, run, source, worker, shut, request, channel, told, status>>

\* http.ErrServerClosed, as soon as Shutdown begins.
ServerCloses ==
  /\ server = "serving"
  /\ shut
  /\ server' = "nil"
  /\ UNCHANGED <<store, run, source, worker, shut, request, channel, told, status>>

RequestBegins ==
  /\ server = "serving"
  /\ ~ shut
  /\ request' = TRUE
  /\ UNCHANGED <<store, run, source, server, worker, shut, channel, told, status>>

RequestEnds ==
  /\ request' = FALSE
  /\ UNCHANGED <<store, run, source, server, worker, shut, channel, told, status>>

\* runtimeErrors <- r; the channel has room for two.
\* Faulty variant: a channel without a buffer.
Send_Unbuffered(r) ==
  /\ main = "receive"
  /\ channel = <<>>
  /\ channel' = <<r>>

Send(r) ==
  /\ Len(channel) < 2
  /\ channel' = Append(channel, r)

SourceReports ==
  /\ source = "nil"
  /\ Send("nil")
  /\ source' = "ended"
  /\ UNCHANGED <<store, run, server, worker, shut, request, told, status>>

ServerReports ==
  /\ server \in Results
  /\ Send(server)
  /\ server' = "ended"
  /\ UNCHANGED <<store, run, source, worker, shut, request, told, status>>

-----------------------------------------------------------------------------
(* run, from the first result on.                                          *)

ReceiveResult ==
  /\ main = "receive"
  /\ channel # <<>>
  /\ result' = Head(channel)
  /\ channel' = Tail(channel)
  /\ main' = "stop"
  /\ UNCHANGED <<store, cfg, catching, cancelled, source, server, worker, shut, request,
                 told, status>>

\* stop, and the begin of Shutdown.
Stop ==
  /\ main = "stop"
  /\ cancelled' = TRUE
  /\ catching' = FALSE
  /\ shut' = TRUE
  /\ main' = "shutdown"
  /\ UNCHANGED <<store, cfg, result, source, server, worker, request, channel, told,
                 status>>

\* Shutdown returns when no request is left, or an error after five seconds.
ShutdownReturns ==
  /\ main = "shutdown"
  /\ result' = IF request THEN "error" ELSE result
  /\ main' = "wait"
  /\ UNCHANGED <<store, cfg, catching, cancelled, goroutines, told, status>>

\* wait.Wait, and the deferred calls of Close.
\* Faulty variant: the worker is not waited for.
Join_NotWorker ==
  /\ main = "wait"
  /\ source = "ended" /\ server = "ended"
  /\ main' = "return"
  /\ CloseStore
  /\ UNCHANGED <<cfg, catching, cancelled, result, goroutines, told, status>>

Join ==
  /\ main = "wait"
  /\ source = "ended" /\ server = "ended" /\ worker # "running"
  /\ main' = "return"
  /\ CloseStore
  /\ UNCHANGED <<cfg, catching, cancelled, result, goroutines, told, status>>

Return ==
  /\ main = "return"
  /\ Exit(IF result = "nil" THEN "0" ELSE "1")
  /\ UNCHANGED told

-----------------------------------------------------------------------------
Next ==
  \/ Start
  \/ Crash
  \/ Signal
  \/ Parse
  \/ StatDevice
  \/ OpenDatabase
  \/ StartFails
  \/ StartGoroutines
  \/ SourceEnds
  \/ WorkerEnds
  \/ Serve
  \/ ServerFails
  \/ ServerCloses
  \/ RequestBegins
  \/ RequestEnds
  \/ SourceReports
  \/ ServerReports
  \/ ReceiveResult
  \/ Stop
  \/ ShutdownReturns
  \/ Join
  \/ Return

Spec == Init /\ [][Next]_vars

(***************************************************************************)
(* Fairness: goroutines are scheduled, a goroutine whose context is        *)
(* cancelled comes to notice it (reads of the port time out after a        *)
(* second, requests and statements are cancelled), and Shutdown is bounded *)
(* by its own deadline.  Nothing is assumed of requests or of signals.     *)
(***************************************************************************)
Fairness ==
  /\ WF_vars(OpenDatabase)
  /\ WF_vars(StartGoroutines)
  /\ WF_vars(SourceEnds)
  /\ WF_vars(WorkerEnds)
  /\ WF_vars(Serve)
  /\ WF_vars(ServerCloses)
  /\ WF_vars(SourceReports)
  /\ WF_vars(ServerReports)
  /\ WF_vars(ReceiveResult)
  /\ WF_vars(Stop)
  /\ WF_vars(ShutdownReturns)
  /\ WF_vars(Join)
  /\ WF_vars(Return)

FairSpec == Spec /\ Fairness

-----------------------------------------------------------------------------
(* Properties.                                                             *)

(***************************************************************************)
(* The database is only closed when those who write to it have ended, at   *)
(* whatever moment of the start or of the shutdown the end came; a request *)
(* that outlived Shutdown only reads.                                      *)
(***************************************************************************)
WritersJoined ==
  stage # "open" => source # "running" /\ worker # "running"

(***************************************************************************)
(* systemd restarts the bridge "on-failure" only.  So no loss of the radio,*)
(* failure of the web server or refused start may end it with status 0:    *)
(* it ends so only when it was told to.                                    *)
(***************************************************************************)
EndsOnlyWhenTold == main = "down" /\ status = "0" => told

(***************************************************************************)
(* The delivery worker only ever runs with settings under which its filter *)
(* is defined -- FilterAssumption of PositionFilter --, under which a      *)
(* request has a deadline, and with a group that can be part of a device   *)
(* id, whatever the environment and the flags were.                        *)
(***************************************************************************)
SettingsSound ==
  worker # "off" =>
    /\ cfg.movement \in Int /\ cfg.movement > 0
    /\ cfg.heartbeat \in Int /\ cfg.heartbeat > 0
    /\ cfg.timeout \in Int /\ cfg.timeout > 0
    /\ cfg.group = "valid"

(***************************************************************************)
(* A bridge that is told to stop, or loses its web server, ends: whichever *)
(* goroutine reports first, nobody blocks on the channel, and wait.Wait    *)
(* returns, also with a request that hangs and with a signal that comes    *)
(* before the web server has begun to listen.                              *)
(***************************************************************************)
StopsInTheEnd == (cancelled \/ server = "error") ~> (main = "down")
=============================================================================

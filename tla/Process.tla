------------------------------ MODULE Process ------------------------------
(***************************************************************************)
(* The life of a process: cmd/api constructs its parts in order and then   *)
(* runs five goroutines in an errgroup until the first of them fails;      *)
(* cmd/preloader constructs a few of them and resets the database once.    *)
(* The process may be killed at any moment and is started again; of what   *)
(* it has done only the schema of the main database stays.                 *)
(***************************************************************************)
EXTENDS Naturals, Sequences

CONSTANTS
    Clients,    \* connections that send requests
    Jobs,       \* jobs that lie in the queue
    LastVersion \* number of migrations

ASSUME ProcessAssumption == LastVersion \in Nat

VARIABLES
    program,  \* "api" or "preloader"
    conf,     \* the part of Config and Args that decides about a step
    step,     \* where main is
    exit,     \* "running", or how the process has ended
    schema,   \* schema_migrations: the version, and whether it is dirty
    applied,  \* how many options NewDependencies has applied
    deps,     \* the fields of Dependencies that are not nil
    nils,     \* components constructed from a field that was nil
    cleanups, \* shutdownFuncs: how many are registered
    cleaned,  \* how often a cleanup has been invoked
    server,   \* the HTTP server
    serving,  \* the connections whose request is in a handler
    queue,    \* the River client
    working,  \* the jobs that are being worked
    gor,      \* where each goroutine of the errgroup is
    gErr,     \* the error of the errgroup
    gCtx,     \* the context of the errgroup is cancelled
    late,     \* the 20 seconds of the HTTP shutdown are over
    signalled \* a signal lies in the channel of the signal handler

startVars == <<program, conf, step, exit, schema, applied, deps, nils>>
telemetryVars == <<cleanups, cleaned>>
traffic == <<server, serving, queue, working>>
groupVars == <<gor, gErr, gCtx, late, signalled>>
vars == <<startVars, telemetryVars, traffic, groupVars>>

Goroutines == {"http", "signal", "telemetry", "shutdown", "river"}
Causes == {"http", "signal", "river"}

-----------------------------------------------------------------------------
(* The fields an option or a constructor reads and the one it sets.        *)
Part(name, reads, sets) == [name |-> name, reads |-> reads, sets |-> sets]

WithDB == Part("DB", {}, {"DB"})
WithRiverQueue == Part("RiverQueue", {}, {"RiverDB", "RiverDriver", "RiverWorkers"})
WithEventProvider == Part("EventProvider", {}, {"EventProvider"})
WithPaymentGateway == Part("PaymentGateway", {}, {"PaymentGateway"})
WithAuthenticationService ==
    Part("AuthenticationService", {"DB"}, {"AuthenticationService"})
WithResetService == Part("ResetService", {"DB"}, {"ResetService"})

(* Mutant: the services come before the database they hold.                *)
OptionsServicesFirst(main) ==
    IF main = "preloader" THEN <<WithDB, WithEventProvider>>
    ELSE <<WithAuthenticationService, WithResetService, WithDB, WithRiverQueue,
           WithEventProvider, WithPaymentGateway>>

Options(main) ==
    IF main = "preloader" THEN <<WithDB, WithEventProvider>>
    ELSE <<WithDB, WithRiverQueue, WithEventProvider, WithPaymentGateway,
           WithAuthenticationService, WithResetService>>

AddWorkers ==
    {Part("ReleaseSeatsWorker", {"RiverWorkers", "DB"}, {}),
     Part("SelectSeatsWorker", {"RiverWorkers", "DB", "RiverClient", "EventProvider"}, {}),
     Part("ConfirmOrderWorker", {"RiverWorkers", "DB", "EventProvider"}, {}),
     Part("CancelBookingWorker", {"RiverWorkers", "DB", "RiverClient", "EventProvider"}, {}),
     Part("RefundPaymentWorker", {"RiverWorkers", "DB", "PaymentGateway"}, {})}

InitRiverClient == Part("RiverClient", {"RiverDriver", "RiverWorkers"}, {"RiverClient"})

NewHttpServer ==
    Part("HttpServer", {"DB", "RiverClient", "PaymentGateway", "ResetService",
                        "AuthenticationService"}, {})

(* The parts are constructed from the fields as they are at that moment.   *)
Construct(parts) ==
    /\ deps' = deps \cup UNION {p.sets : p \in parts}
    /\ nils' = nils \cup UNION {{<<p.name, f>> : f \in p.reads \ deps} : p \in parts}

-----------------------------------------------------------------------------
Steps == {"config", "telemetry", "args", "setup", "migrate", "options", "workers",
          "client", "group", "wait", "epClient", "reset"}

TypeOK ==
    /\ program \in {"api", "preloader"}
    /\ conf \in [telemetry: BOOLEAN, migrations: BOOLEAN]
    /\ step \in Steps /\ exit \in {"running", "aborted", "returned", "killed"}
    /\ schema \in [version: 0..LastVersion, dirty: BOOLEAN]
    /\ applied \in 0..Len(Options(program))
    /\ cleanups \in 0..1 /\ cleaned \in 0..1
    /\ server \in {"new", "listening", "failed", "shutdown"} /\ serving \subseteq Clients
    /\ queue \in {"new", "running", "stopped"} /\ working \subseteq Jobs
    /\ gor \in [Goroutines -> {"unborn", "start", "wait", "stopping", "done"}]
    /\ gErr \in {"none", "canceled", "shutdown"} \cup Goroutines
    /\ gCtx \in BOOLEAN /\ late \in BOOLEAN /\ signalled \in BOOLEAN

Configurations ==
    {[program |-> "preloader", conf |-> [telemetry |-> FALSE, migrations |-> FALSE]]}
    \cup [program: {"api"}, conf: [telemetry: BOOLEAN, migrations: BOOLEAN]]

(* A new process has nothing but its arguments and its environment.        *)
Init ==
    /\ \E c \in Configurations : program = c.program /\ conf = c.conf
    /\ step = "config" /\ exit = "running" /\ applied = 0 /\ deps = {} /\ nils = {}
    /\ cleanups = 0 /\ cleaned = 0
    /\ server = "new" /\ serving = {} /\ queue = "new" /\ working = {}
    /\ gor = [g \in Goroutines |-> "unborn"]
    /\ gErr = "none" /\ gCtx = FALSE /\ late = FALSE /\ signalled = FALSE
    /\ schema = [version |-> 0, dirty |-> FALSE]

Restart ==
    /\ exit # "running"
    /\ \E c \in Configurations : program' = c.program /\ conf' = c.conf
    /\ step' = "config" /\ exit' = "running" /\ applied' = 0 /\ deps' = {} /\ nils' = {}
    /\ cleanups' = 0 /\ cleaned' = 0
    /\ server' = "new" /\ serving' = {} /\ queue' = "new" /\ working' = {}
    /\ gor' = [g \in Goroutines |-> "unborn"]
    /\ gErr' = "none" /\ gCtx' = FALSE /\ late' = FALSE /\ signalled' = FALSE
    /\ UNCHANGED schema

-----------------------------------------------------------------------------
(* Start                                                                   *)

MainAt(s) == exit = "running" /\ step = s
GoTo(s) == step' = s /\ UNCHANGED exit
Abort == exit' = "aborted" /\ UNCHANGED step

(* The environment may not parse.  The preloader has no telemetry, takes   *)
(* no arguments and applies no migrations.                                 *)
GetConfig ==
    /\ MainAt("config")
    /\ \/ GoTo(IF program = "preloader" THEN "options" ELSE "telemetry")
       \/ Abort
    /\ UNCHANGED <<program, conf, schema, applied, deps, nils, telemetryVars, traffic, groupVars>>

(* shutdown: the cleanups are invoked and forgotten.                       *)
ShutdownFuncs == cleaned' = cleaned + cleanups /\ cleanups' = 0

(* telemetry.New registers one cleanup, or invokes what was registered     *)
(* before the failure and returns it.                                      *)
StartTelemetry ==
    /\ MainAt("telemetry")
    /\ \/ ~conf.telemetry /\ GoTo("args") /\ UNCHANGED telemetryVars
       \/ conf.telemetry /\ GoTo("args") /\ cleanups' = cleanups + 1 /\ UNCHANGED cleaned
       \/ conf.telemetry /\ Abort /\ ShutdownFuncs
    /\ UNCHANGED <<program, conf, schema, applied, deps, nils, traffic, groupVars>>

(* Unknown flags end the process.                                          *)
ParseArgs ==
    /\ MainAt("args")
    /\ GoTo("setup") \/ Abort
    /\ UNCHANGED <<program, conf, schema, applied, deps, nils, telemetryVars, traffic, groupVars>>

(* Mutant: a dirty version is taken for "no change".                       *)
RunMigrationsAnyway ==
    /\ MainAt("setup")
    /\ \/ ~conf.migrations /\ GoTo("options")
       \/ /\ conf.migrations
          /\ GoTo(IF schema.dirty \/ schema.version = LastVersion THEN "options" ELSE "migrate")
       \/ conf.migrations /\ Abort
    /\ UNCHANGED <<program, conf, schema, applied, deps, nils, telemetryVars, traffic, groupVars>>

(* Without a directory there is nothing to do.  The migrator refuses a     *)
(* dirty version, and may fail for other reasons.                          *)
RunMigrations ==
    /\ MainAt("setup")
    /\ \/ ~conf.migrations /\ GoTo("options")
       \/ /\ conf.migrations /\ ~schema.dirty
          /\ GoTo(IF schema.version = LastVersion THEN "options" ELSE "migrate")
       \/ conf.migrations /\ Abort
    /\ UNCHANGED <<program, conf, schema, applied, deps, nils, telemetryVars, traffic, groupVars>>

(* Mutant: one migration more than there are.                              *)
MigrateTooFar ==
    /\ MainAt("migrate")
    /\ \/ /\ ~schema.dirty /\ schema.version <= LastVersion
          /\ schema' = [version |-> schema.version + 1, dirty |-> TRUE]
          /\ GoTo("migrate")
       \/ schema.dirty /\ schema' = [schema EXCEPT !.dirty = FALSE] /\ GoTo("migrate")
       \/ Abort /\ UNCHANGED schema
       \/ /\ ~schema.dirty /\ schema.version > LastVersion
          /\ GoTo("options") /\ UNCHANGED schema
    /\ UNCHANGED <<program, conf, applied, deps, nils, telemetryVars, traffic, groupVars>>

(* m.Up: each migration, outside any transaction (x-no-tx-wrap), between   *)
(* setting its version dirty and setting it clean.  One that fails is left *)
(* dirty.                                                                  *)
Migrate ==
    /\ MainAt("migrate")
    /\ \/ /\ ~schema.dirty /\ schema.version < LastVersion
          /\ schema' = [version |-> schema.version + 1, dirty |-> TRUE]
          /\ GoTo("migrate")
       \/ schema.dirty /\ schema' = [schema EXCEPT !.dirty = FALSE] /\ GoTo("migrate")
       \/ Abort /\ UNCHANGED schema
       \/ /\ ~schema.dirty /\ schema.version = LastVersion
          /\ GoTo("options") /\ UNCHANGED schema
    /\ UNCHANGED <<program, conf, applied, deps, nils, telemetryVars, traffic, groupVars>>

(* NewDependencies: the options in order.  One that fails (the one of the  *)
(* authentication cannot) ends main; the connections opened before stay    *)
(* open, because the error return sets deps to nil before the deferred     *)
(* Close looks at it.                                                      *)
NewDependencies ==
    /\ MainAt("options")
    /\ LET options == Options(program) IN
       \/ /\ applied < Len(options)
          /\ Construct({options[applied + 1]})
          /\ applied' = applied + 1 /\ GoTo("options")
       \/ /\ applied < Len(options) /\ options[applied + 1] # WithAuthenticationService
          /\ deps' = {} /\ Abort /\ UNCHANGED <<applied, nils>>
       \/ /\ applied = Len(options)
          /\ GoTo(IF program = "preloader" THEN "epClient" ELSE "workers")
          /\ UNCHANGED <<applied, deps, nils>>
    /\ UNCHANGED <<program, conf, schema, telemetryVars, traffic, groupVars>>

(* The workers get copies of the fields, also of the queue client, which   *)
(* is made only afterwards.                                                *)
AddAllWorkers ==
    /\ MainAt("workers") /\ Construct(AddWorkers) /\ GoTo("client")
    /\ UNCHANGED <<program, conf, schema, applied, telemetryVars, traffic, groupVars>>

MakeRiverClient ==
    /\ MainAt("client")
    /\ \/ Construct({InitRiverClient}) /\ GoTo("group")
       \/ Abort /\ UNCHANGED <<deps, nils>>
    /\ UNCHANGED <<program, conf, schema, applied, telemetryVars, traffic, groupVars>>

(* The router and the server are made and the goroutines are started.      *)
StartGroup ==
    /\ MainAt("group") /\ Construct({NewHttpServer}) /\ GoTo("wait")
    /\ gor' = [g \in Goroutines |-> "start"]
    /\ UNCHANGED <<program, conf, schema, applied, telemetryVars, traffic,
                   gErr, gCtx, late, signalled>>

-----------------------------------------------------------------------------
(* cmd/preloader                                                           *)
NewPreloaderClient ==
    /\ MainAt("epClient")
    /\ GoTo("reset") \/ Abort
    /\ UNCHANGED <<program, conf, schema, applied, deps, nils, telemetryVars, traffic, groupVars>>

(* What a reset does to the tables is in Reset; its error is only logged.  *)
Preload ==
    /\ MainAt("reset")
    /\ exit' = "returned"
    /\ UNCHANGED <<program, conf, step, schema, applied, deps, nils, telemetryVars,
                   traffic, groupVars>>

-----------------------------------------------------------------------------
(* The goroutines of the errgroup                                          *)

GorAt(g, at) == exit = "running" /\ gor[g] = at
GorTo(g, at) == gor' = [gor EXCEPT ![g] = at] /\ UNCHANGED <<gErr, gCtx>>

(* The goroutine returns nil, or an error: the first one is kept and       *)
(* cancels the context.                                                    *)
Return(g) == GorTo(g, "done")
ReturnErr(g, err) ==
    /\ gor' = [gor EXCEPT ![g] = "done"]
    /\ gErr' = IF gErr = "none" THEN err ELSE gErr
    /\ gCtx' = TRUE

(* ListenAndServe: the port may be taken; after a shutdown it returns      *)
(* ErrServerClosed, which is no error.                                     *)
ListenAndServe ==
    /\ \/ /\ GorAt("http", "start") /\ server = "new"
          /\ \/ server' = "listening" /\ GorTo("http", "wait")
             \/ server' = "failed" /\ ReturnErr("http", "http")
       \/ /\ (GorAt("http", "start") \/ GorAt("http", "wait")) /\ server = "shutdown"
          /\ Return("http") /\ UNCHANGED server
    /\ UNCHANGED <<startVars, telemetryVars, serving, queue, working, late, signalled>>

AcceptFails ==
    /\ GorAt("http", "wait") /\ server = "listening"
    /\ server' = "failed" /\ ReturnErr("http", "http")
    /\ UNCHANGED <<startVars, telemetryVars, serving, queue, working, late, signalled>>

(* signal.Notify, and then the first of a signal and the cancellation.     *)
HandleSignals ==
    /\ \/ GorAt("signal", "start") /\ GorTo("signal", "wait")
       \/ GorAt("signal", "wait") /\ signalled /\ ReturnErr("signal", "signal")
       \/ GorAt("signal", "wait") /\ gCtx /\ ReturnErr("signal", "canceled")
    /\ UNCHANGED <<startVars, telemetryVars, traffic, late, signalled>>

(* Mutant: the telemetry is shut down without waiting for the context.     *)
ShutdownTelemetryAtOnce ==
    /\ GorAt("telemetry", "start")
    /\ ShutdownFuncs
    /\ Return("telemetry") \/ ReturnErr("telemetry", "telemetry")
    /\ UNCHANGED <<startVars, traffic, late, signalled>>

(* It ends within 10 seconds, with or without an error.                    *)
ShutdownTelemetry ==
    /\ GorAt("telemetry", "start") /\ gCtx
    /\ ShutdownFuncs
    /\ Return("telemetry") \/ ReturnErr("telemetry", "telemetry")
    /\ UNCHANGED <<startVars, traffic, late, signalled>>

(* Mutant: the shutdown has no deadline.                                   *)
ShutdownHttpPatiently ==
    /\ \/ /\ GorAt("shutdown", "start") /\ gCtx
          /\ server' = "shutdown" /\ GorTo("shutdown", "stopping") /\ UNCHANGED late
       \/ /\ GorAt("shutdown", "stopping") /\ serving = {}
          /\ Return("shutdown") /\ UNCHANGED <<server, late>>
    /\ UNCHANGED <<startVars, telemetryVars, serving, queue, working, signalled>>

(* server.Shutdown closes the listener and waits until no connection is in *)
(* a handler, or for 20 seconds.                                           *)
ShutdownHttp ==
    /\ \/ /\ GorAt("shutdown", "start") /\ gCtx
          /\ server' = "shutdown" /\ GorTo("shutdown", "stopping") /\ UNCHANGED late
       \/ /\ GorAt("shutdown", "stopping") /\ serving = {}
          /\ Return("shutdown") /\ UNCHANGED <<server, late>>
       \/ /\ GorAt("shutdown", "stopping")
          /\ late' = TRUE /\ ReturnErr("shutdown", "shutdown") /\ UNCHANGED server
    /\ UNCHANGED <<startVars, telemetryVars, serving, queue, working, signalled>>

(* Mutant: the goroutine does not stop the client.                         *)
RunRiverWithoutStop ==
    /\ \/ /\ GorAt("river", "start")
          /\ \/ queue' = "running" /\ GorTo("river", "wait")
             \/ ReturnErr("river", "river") /\ UNCHANGED queue
       \/ GorAt("river", "wait") /\ gCtx /\ Return("river") /\ UNCHANGED queue
    /\ UNCHANGED <<startVars, telemetryVars, server, serving, working, late, signalled>>

(* Start(gCtx) may fail.  The cancellation of its context is a hard stop   *)
(* (no job is fetched any more, and the contexts of the jobs are           *)
(* cancelled); Stop, which has no deadline, waits for the jobs to return.  *)
RunRiver ==
    /\ \/ /\ GorAt("river", "start")
          /\ \/ queue' = "running" /\ GorTo("river", "wait")
             \/ ReturnErr("river", "river") /\ UNCHANGED queue
       \/ GorAt("river", "wait") /\ gCtx /\ GorTo("river", "stopping") /\ UNCHANGED queue
       \/ /\ GorAt("river", "stopping") /\ working = {}
          /\ queue' = "stopped" /\ Return("river")
    /\ UNCHANGED <<startVars, telemetryVars, server, serving, working, late, signalled>>

(* g.Wait returns, and main after it.  Whatever still runs is cut off.     *)
ReturnFromMain ==
    /\ MainAt("wait") /\ \A g \in Goroutines : gor[g] = "done"
    /\ exit' = "returned"
    /\ UNCHANGED <<program, conf, step, schema, applied, deps, nils, telemetryVars,
                   traffic, groupVars>>

-----------------------------------------------------------------------------
(* The surroundings                                                        *)

Accept(c) ==
    /\ exit = "running" /\ server = "listening" /\ c \notin serving
    /\ serving' = serving \cup {c}
    /\ UNCHANGED <<startVars, telemetryVars, server, queue, working, groupVars>>

Respond(c) ==
    /\ exit = "running" /\ c \in serving
    /\ serving' = serving \ {c}
    /\ UNCHANGED <<startVars, telemetryVars, server, queue, working, groupVars>>

StartJob(j) ==
    /\ exit = "running" /\ queue = "running" /\ ~gCtx /\ j \notin working
    /\ working' = working \cup {j}
    /\ UNCHANGED <<startVars, telemetryVars, server, serving, queue, groupVars>>

EndJob(j) ==
    /\ exit = "running" /\ j \in working
    /\ working' = working \ {j}
    /\ UNCHANGED <<startVars, telemetryVars, server, serving, queue, groupVars>>

(* SIGINT or SIGTERM: it kills the process unless the handler waits for it.*)
Signal ==
    /\ exit = "running"
    /\ IF gor["signal"] = "wait"
       THEN signalled' = TRUE /\ UNCHANGED exit
       ELSE exit' = "killed" /\ UNCHANGED signalled
    /\ UNCHANGED <<program, conf, step, schema, applied, deps, nils, telemetryVars,
                   traffic, gor, gErr, gCtx, late>>

Kill ==
    /\ exit = "running" /\ exit' = "killed"
    /\ UNCHANGED <<program, conf, step, schema, applied, deps, nils, telemetryVars,
                   traffic, groupVars>>

-----------------------------------------------------------------------------
Main ==
    \/ GetConfig \/ StartTelemetry \/ ParseArgs \/ RunMigrations \/ Migrate
    \/ NewDependencies \/ AddAllWorkers \/ MakeRiverClient \/ StartGroup
    \/ NewPreloaderClient \/ Preload \/ ReturnFromMain

Next ==
    \/ Main
    \/ ListenAndServe \/ AcceptFails \/ HandleSignals
    \/ ShutdownTelemetry \/ ShutdownHttp \/ RunRiver
    \/ \E c \in Clients : Accept(c) \/ Respond(c)
    \/ \E j \in Jobs : StartJob(j) \/ EndJob(j)
    \/ Signal \/ Kill \/ Restart

(* Main and the goroutines go on, and the deadline passes.  A job whose    *)
(* context is cancelled ends: all its calls take the context.  Nothing is  *)
(* assumed of the handlers: a call of the gateway has no deadline.         *)
Fairness ==
    /\ WF_vars(Main)
    /\ WF_vars(ListenAndServe) /\ WF_vars(HandleSignals) /\ WF_vars(ShutdownTelemetry)
    /\ WF_vars(ShutdownHttp) /\ WF_vars(RunRiver)
    /\ \A j \in Jobs : WF_vars(gCtx /\ EndJob(j))

Spec == Init /\ [][Next]_vars /\ Fairness

-----------------------------------------------------------------------------
(* A process that was started with the migrations serves requests and      *)
(* works jobs only on a schema that has all of them, none half applied,    *)
(* also after earlier processes were killed or failed in the middle of     *)
(* one.                                                                    *)
SchemaIsWhole ==
    conf.migrations /\ (server = "listening" \/ queue = "running") =>
      schema = [version |-> LastVersion, dirty |-> FALSE]

(* What handles requests and jobs was made from fields that had been set,  *)
(* in the order main and NewDependencies set them - apart from the queue   *)
(* client of the two workers that insert jobs (see Workers).               *)
BuiltFromWhatExists ==
    serving # {} \/ working # {} =>
      nils \subseteq {<<"SelectSeatsWorker", "RiverClient">>,
                      <<"CancelBookingWorker", "RiverClient">>}

(* When the api returns after it has run, no job is cut off, a request     *)
(* only if it took longer than the 20 seconds, and the cleanup of the      *)
(* telemetry was called, once (whether it could flush is not said).        *)
GracefulExit ==
    exit = "returned" /\ program = "api" =>
      /\ server = "shutdown" /\ working = {}
      /\ serving # {} => late
      /\ cleaned = (IF conf.telemetry THEN 1 ELSE 0)

(* The error that main logs is what ended the process: a signal, the HTTP  *)
(* server or the start of the queue, and none of the errors that shutting  *)
(* down brings about.                                                      *)
CauseIsKept == gErr \in Causes \cup {"none"}

(* The preloader has its own way through main, and before the goroutines   *)
(* are started nothing has happened to what they work with.                *)
MainOK ==
    /\ program = "preloader" =>
         /\ conf = [telemetry |-> FALSE, migrations |-> FALSE]
         /\ step \in {"config", "options", "epClient", "reset"}
    /\ program = "api" => step \notin {"epClient", "reset"}
    /\ IF step = "wait" THEN \A g \in Goroutines : gor[g] # "unborn"
       ELSE /\ gor = [g \in Goroutines |-> "unborn"] /\ gErr = "none" /\ ~gCtx
            /\ server = "new" /\ serving = {} /\ queue = "new" /\ working = {}
    /\ exit = "returned" /\ program = "api" =>
         step = "wait" /\ \A g \in Goroutines : gor[g] = "done"

(* The options that have been applied left their fields.                   *)
PartsOK ==
    /\ nils \subseteq {<<"SelectSeatsWorker", "RiverClient">>,
                       <<"CancelBookingWorker", "RiverClient">>}
    /\ exit = "running" => \A i \in 1..applied : Options(program)[i].sets \subseteq deps
    /\ step \in {"workers", "client", "group"} => applied = Len(Options(program))
    /\ exit = "running" /\ step = "group" => "RiverClient" \in deps

(* What was registered is registered still, or was invoked once.           *)
TelemetryOK ==
    /\ cleanups + cleaned = (IF conf.telemetry /\ step \notin {"config", "telemetry"}
                             THEN 1 ELSE 0)
    /\ gor["telemetry"] \in {"unborn", "start"} => cleaned = 0
    /\ gor["telemetry"] = "done" => cleanups = 0

(* Only an error ends the group, and the goroutines leave in such an order *)
(* that no connection and no job is forgotten.                             *)
GroupOK ==
    /\ gCtx <=> gErr # "none"
    /\ gor["telemetry"] = "done" => gCtx
    /\ gor["shutdown"] \in {"stopping", "done"} => gCtx /\ server = "shutdown"
    /\ gor["shutdown"] = "done" => serving = {} \/ late
    /\ gor["river"] \in {"start", "done"} => queue # "running"
    /\ working # {} => queue = "running"

(* Past the migrations the schema is whole.                                *)
MigrationsOK ==
    conf.migrations /\ step \in {"options", "workers", "client", "group", "wait"} =>
      schema = [version |-> LastVersion, dirty |-> FALSE]

(* What main, the parts and the goroutines keep at every step.  The safety *)
(* properties above follow from it.                                        *)
Inductive ==
    /\ TypeOK /\ CauseIsKept
    /\ MainOK /\ PartsOK /\ TelemetryOK /\ GroupOK /\ MigrationsOK

(* After a signal or a failure the process ends, whatever the handlers and *)
(* the jobs are doing.                                                     *)
ShutdownEnds == (signalled \/ gErr # "none") /\ exit = "running" ~> exit # "running"
=============================================================================

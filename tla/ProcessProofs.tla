---------------------------- MODULE ProcessProofs -----------------------------
(***************************************************************************)
(* The start and the end of a process, for any number of connections, jobs *)
(* and migrations.  What the process promises when it ends and while it    *)
(* serves follows from what its parts keep at every step: main (MainOK,    *)
(* PartsOK, MigrationsOK), the telemetry and the group of goroutines.      *)
(***************************************************************************)
EXTENDS Process, TLAPS

LEMMA OptionsAre ==
    /\ Len(Options("api")) = 6 /\ Len(Options("preloader")) = 2
    /\ Options("api")[1] = WithDB /\ Options("api")[2] = WithRiverQueue
    /\ Options("api")[3] = WithEventProvider /\ Options("api")[4] = WithPaymentGateway
    /\ Options("api")[5] = WithAuthenticationService /\ Options("api")[6] = WithResetService
    /\ Options("preloader")[1] = WithDB /\ Options("preloader")[2] = WithEventProvider
BY DEF Options

-----------------------------------------------------------------------------
(* Main.                                                                   *)

LEMMA GetConfigKeeps == Inductive /\ GetConfig => Inductive'
<1> SUFFICES ASSUME Inductive, GetConfig PROVE Inductive'
  OBVIOUS
<1> USE DEF Inductive, GetConfig, MainAt, GoTo, Abort, telemetryVars, traffic, groupVars
<1>1. TypeOK' /\ CauseIsKept'
  BY DEF TypeOK, Steps, CauseIsKept
<1>2. MainOK'
  BY DEF MainOK, TypeOK
<1>3. PartsOK'
  BY DEF PartsOK
<1>4. TelemetryOK' /\ GroupOK' /\ MigrationsOK'
  BY DEF TelemetryOK, GroupOK, MigrationsOK, MainOK
<1> QED
  BY <1>1, <1>2, <1>3, <1>4

LEMMA StartTelemetryKeeps == Inductive /\ StartTelemetry => Inductive'
<1> SUFFICES ASSUME Inductive, StartTelemetry PROVE Inductive'
  OBVIOUS
<1> USE DEF Inductive, StartTelemetry, ShutdownFuncs, MainAt, GoTo, Abort, telemetryVars, traffic, groupVars
<1>1. TypeOK' /\ CauseIsKept'
  BY DEF TypeOK, Steps, CauseIsKept, TelemetryOK
<1>2. MainOK'
  BY DEF MainOK, TypeOK
<1>3. PartsOK'
  BY DEF PartsOK
<1>4. TelemetryOK' /\ GroupOK' /\ MigrationsOK'
  BY DEF TelemetryOK, GroupOK, MigrationsOK, MainOK, TypeOK
<1> QED
  BY <1>1, <1>2, <1>3, <1>4

LEMMA ParseArgsKeeps == Inductive /\ ParseArgs => Inductive'
<1> SUFFICES ASSUME Inductive, ParseArgs PROVE Inductive'
  OBVIOUS
<1> USE DEF Inductive, ParseArgs, MainAt, GoTo, Abort, telemetryVars, traffic, groupVars
<1>1. TypeOK' /\ CauseIsKept'
  BY DEF TypeOK, Steps, CauseIsKept
<1>2. MainOK'
  BY DEF MainOK, TypeOK
<1>3. PartsOK'
  BY DEF PartsOK
<1>4. TelemetryOK' /\ GroupOK' /\ MigrationsOK'
  BY DEF TelemetryOK, GroupOK, MigrationsOK, MainOK, TypeOK
<1> QED
  BY <1>1, <1>2, <1>3, <1>4

LEMMA RunMigrationsKeeps == Inductive /\ RunMigrations => Inductive'
<1> SUFFICES ASSUME Inductive, RunMigrations PROVE Inductive'
  OBVIOUS
<1> USE DEF Inductive, RunMigrations, MainAt, GoTo, Abort, telemetryVars, traffic, groupVars
<1>1. TypeOK' /\ CauseIsKept'
  BY DEF TypeOK, Steps, CauseIsKept
<1>2. MainOK'
  BY DEF MainOK, TypeOK
<1>3. PartsOK'
  BY DEF PartsOK
<1>4. TelemetryOK' /\ GroupOK' /\ MigrationsOK'
  BY DEF TelemetryOK, GroupOK, MigrationsOK, MainOK, TypeOK
<1> QED
  BY <1>1, <1>2, <1>3, <1>4

LEMMA MigrateKeeps == Inductive /\ Migrate => Inductive'
<1> SUFFICES ASSUME Inductive, Migrate PROVE Inductive'
  OBVIOUS
<1> USE DEF Inductive, Migrate, MainAt, GoTo, Abort, telemetryVars, traffic, groupVars
<1>1. TypeOK' /\ CauseIsKept'
  <2>1. schema' \in [version: 0..LastVersion, dirty: BOOLEAN]
    <3>1. LastVersion \in Nat /\ schema \in [version: 0..LastVersion, dirty: BOOLEAN]
      BY ProcessAssumption DEF TypeOK
    <3>2. CASE schema' = [version |-> schema.version + 1, dirty |-> TRUE]
      BY <3>1, <3>2
    <3>3. CASE schema' = [schema EXCEPT !.dirty = FALSE]
      BY <3>1, <3>3
    <3> QED BY <3>1, <3>2, <3>3
  <2>2. step' \in Steps /\ exit' \in {"running", "aborted", "returned", "killed"}
    BY DEF TypeOK, Steps
  <2> QED BY <2>1, <2>2 DEF TypeOK, CauseIsKept
<1>2. MainOK'
  BY DEF MainOK, TypeOK
<1>3. PartsOK'
  BY DEF PartsOK
<1>4. TelemetryOK' /\ GroupOK' /\ MigrationsOK'
  BY DEF TelemetryOK, GroupOK, MigrationsOK, MainOK, TypeOK
<1> QED
  BY <1>1, <1>2, <1>3, <1>4

LEMMA AddAllWorkersKeeps == Inductive /\ AddAllWorkers => Inductive'
<1> SUFFICES ASSUME Inductive, AddAllWorkers PROVE Inductive'
  OBVIOUS
<1> USE DEF Inductive, AddAllWorkers, MainAt, GoTo, Abort, telemetryVars, traffic, groupVars
<1>1. TypeOK' /\ CauseIsKept'
  BY DEF TypeOK, Steps, CauseIsKept
<1>2. MainOK'
  BY DEF MainOK, TypeOK
<1>3. PartsOK'
  <2>1. applied = 6 /\ program = "api"
    BY OptionsAre DEF PartsOK, MainOK, TypeOK
  <2>2. {"DB", "RiverWorkers", "EventProvider", "PaymentGateway"} \subseteq deps
    BY <2>1, OptionsAre DEF PartsOK, WithDB, WithRiverQueue, WithEventProvider,
       WithPaymentGateway, Part
  <2>3. \A p \in AddWorkers :
          {<<p.name, f>> : f \in p.reads \ deps} \subseteq
            {<<"SelectSeatsWorker", "RiverClient">>, <<"CancelBookingWorker", "RiverClient">>}
    BY <2>2 DEF AddWorkers, Part
  <2>4. deps \subseteq deps'
    BY DEF Construct
  <2>5. nils' \subseteq {<<"SelectSeatsWorker", "RiverClient">>,
                        <<"CancelBookingWorker", "RiverClient">>}
    BY <2>3 DEF Construct, PartsOK
  <2> QED BY <2>1, <2>4, <2>5 DEF PartsOK
<1>4. TelemetryOK' /\ GroupOK' /\ MigrationsOK'
  BY DEF TelemetryOK, GroupOK, MigrationsOK, MainOK, TypeOK
<1> QED
  BY <1>1, <1>2, <1>3, <1>4

LEMMA MakeRiverClientKeeps == Inductive /\ MakeRiverClient => Inductive'
<1> SUFFICES ASSUME Inductive, MakeRiverClient PROVE Inductive'
  OBVIOUS
<1> USE DEF Inductive, MakeRiverClient, MainAt, GoTo, Abort, telemetryVars, traffic, groupVars
<1>1. TypeOK' /\ CauseIsKept'
  BY DEF TypeOK, Steps, CauseIsKept
<1>2. MainOK'
  BY DEF MainOK, TypeOK
<1>3. PartsOK'
  <2>1. CASE Construct({InitRiverClient}) /\ GoTo("group")
    <3>1. applied = 6 /\ program = "api"
      BY <2>1, OptionsAre DEF PartsOK, MainOK, TypeOK
    <3>2. {"RiverDriver", "RiverWorkers"} \subseteq deps
      BY <2>1, <3>1, OptionsAre DEF PartsOK, WithRiverQueue, Part
    <3>3. nils' = nils /\ deps' = deps \cup {"RiverClient"}
      BY <2>1, <3>2 DEF Construct, InitRiverClient, Part
    <3> QED BY <2>1, <3>3 DEF PartsOK
  <2> QED BY <2>1 DEF PartsOK
<1>4. TelemetryOK' /\ GroupOK' /\ MigrationsOK'
  BY DEF TelemetryOK, GroupOK, MigrationsOK, MainOK, TypeOK
<1> QED
  BY <1>1, <1>2, <1>3, <1>4

LEMMA StartGroupKeeps == Inductive /\ StartGroup => Inductive'
<1> SUFFICES ASSUME Inductive, StartGroup PROVE Inductive'
  OBVIOUS
<1> USE DEF Inductive, StartGroup, MainAt, GoTo, Abort, telemetryVars, traffic, groupVars
<1>1. TypeOK' /\ CauseIsKept'
  BY DEF TypeOK, Steps, CauseIsKept
<1>2. MainOK'
  BY DEF MainOK, TypeOK
<1>3. PartsOK'
  <2>1. applied = 6 /\ program = "api" /\ "RiverClient" \in deps
    BY OptionsAre DEF PartsOK, MainOK, TypeOK
  <2>2. {"DB", "PaymentGateway", "ResetService", "AuthenticationService"} \subseteq deps
    BY <2>1, OptionsAre DEF PartsOK, WithDB, WithPaymentGateway, WithResetService,
       WithAuthenticationService, Part
  <2>3. nils' = nils /\ deps' = deps
    BY <2>1, <2>2 DEF Construct, NewHttpServer, Part
  <2> QED BY <2>3 DEF PartsOK
<1>4. TelemetryOK' /\ GroupOK' /\ MigrationsOK'
  BY DEF TelemetryOK, GroupOK, MigrationsOK, MainOK, TypeOK, Goroutines
<1> QED
  BY <1>1, <1>2, <1>3, <1>4

LEMMA NewPreloaderClientKeeps == Inductive /\ NewPreloaderClient => Inductive'
<1> SUFFICES ASSUME Inductive, NewPreloaderClient PROVE Inductive'
  OBVIOUS
<1> USE DEF Inductive, NewPreloaderClient, MainAt, GoTo, Abort, telemetryVars, traffic, groupVars
<1>1. TypeOK' /\ CauseIsKept'
  BY DEF TypeOK, Steps, CauseIsKept
<1>2. MainOK'
  BY DEF MainOK, TypeOK
<1>3. PartsOK'
  BY DEF PartsOK
<1>4. TelemetryOK' /\ GroupOK' /\ MigrationsOK'
  BY DEF TelemetryOK, GroupOK, MigrationsOK, MainOK, TypeOK
<1> QED
  BY <1>1, <1>2, <1>3, <1>4

LEMMA PreloadKeeps == Inductive /\ Preload => Inductive'
<1> SUFFICES ASSUME Inductive, Preload PROVE Inductive'
  OBVIOUS
<1> USE DEF Inductive, Preload, MainAt, GoTo, Abort, telemetryVars, traffic, groupVars
<1>1. TypeOK' /\ CauseIsKept'
  BY DEF TypeOK, Steps, CauseIsKept
<1>2. MainOK'
  BY DEF MainOK, TypeOK
<1>3. PartsOK'
  BY DEF PartsOK
<1>4. TelemetryOK' /\ GroupOK' /\ MigrationsOK'
  BY DEF TelemetryOK, GroupOK, MigrationsOK, MainOK, TypeOK
<1> QED
  BY <1>1, <1>2, <1>3, <1>4

LEMMA ReturnFromMainKeeps == Inductive /\ ReturnFromMain => Inductive'
<1> SUFFICES ASSUME Inductive, ReturnFromMain PROVE Inductive'
  OBVIOUS
<1> USE DEF Inductive, ReturnFromMain, MainAt, GoTo, Abort, telemetryVars, traffic, groupVars
<1>1. TypeOK' /\ CauseIsKept'
  BY DEF TypeOK, Steps, CauseIsKept
<1>2. MainOK'
  BY DEF MainOK, TypeOK
<1>3. PartsOK'
  BY DEF PartsOK
<1>4. TelemetryOK' /\ GroupOK' /\ MigrationsOK'
  BY DEF TelemetryOK, GroupOK, MigrationsOK, MainOK, TypeOK
<1> QED
  BY <1>1, <1>2, <1>3, <1>4

LEMMA NewDependenciesKeeps == Inductive /\ NewDependencies => Inductive'
<1> SUFFICES ASSUME Inductive, NewDependencies PROVE Inductive'
  OBVIOUS
<1> USE DEF Inductive, NewDependencies, MainAt, GoTo, Abort, telemetryVars, traffic, groupVars
<1>length. \/ program = "preloader" /\ Len(Options(program)) = 2
           \/ program = "api" /\ Len(Options(program)) = 6
  BY OptionsAre DEF TypeOK
<1>1. TypeOK' /\ CauseIsKept'
  BY <1>length DEF TypeOK, Steps, CauseIsKept
<1>2. MainOK'
  BY DEF MainOK, TypeOK
<1>3. PartsOK'
  <2> DEFINE part == Options(program)[applied + 1]
  <2>1. CASE applied < Len(Options(program)) /\ Construct({part}) /\ GoTo("options")
             /\ applied' = applied + 1
    <3>1. deps' = deps \cup part.sets /\ (part.reads \subseteq deps => nils' = nils)
      BY <2>1 DEF Construct
    <3>2. \A i \in 1..applied' : Options(program)[i].sets \subseteq deps'
      BY <2>1, <3>1, <1>length DEF PartsOK, TypeOK
    <3>3. part.reads \subseteq deps
      <4>1. applied \in 0..5 /\ program \in {"api", "preloader"}
            /\ (program = "preloader" => applied \in 0..1)
        <5>1. CASE program = "preloader" /\ Len(Options(program)) = 2
          <6>1. applied \in 0..2 /\ applied < 2
            BY <2>1, <5>1 DEF TypeOK
          <6> QED BY <5>1, <6>1
        <5>2. CASE program = "api" /\ Len(Options(program)) = 6
          <6>1. applied \in 0..6 /\ applied < 6
            BY <2>1, <5>2 DEF TypeOK
          <6> QED BY <5>2, <6>1
        <5> QED BY <1>length, <5>1, <5>2
      <4>3. \/ part.reads = {}
            \/ part.reads = {"DB"} /\ applied >= 1 /\ program = "api"
        <5>1. CASE program = "preloader"
          BY <4>1, <5>1, OptionsAre DEF Part, WithDB, WithEventProvider
        <5>2. CASE program = "api" /\ applied \in 0..3
          BY <5>2, OptionsAre DEF Part, WithDB, WithRiverQueue, WithEventProvider,
             WithPaymentGateway
        <5>3. CASE program = "api" /\ applied \in 4..5
          BY <5>3, OptionsAre DEF Part, WithAuthenticationService, WithResetService
        <5> QED BY <4>1, <5>1, <5>2, <5>3
      <4>2. applied >= 1 /\ program = "api" => "DB" \in deps
        BY OptionsAre DEF PartsOK, WithDB, Part, TypeOK
      <4> QED BY <4>2, <4>3
    <3> QED BY <2>1, <3>1, <3>2, <3>3 DEF PartsOK
  <2>2. CASE Abort /\ UNCHANGED <<applied, nils>>
    BY <2>2 DEF PartsOK
  <2>3. CASE applied = Len(Options(program)) /\ UNCHANGED <<applied, deps, nils>>
             /\ GoTo(IF program = "preloader" THEN "epClient" ELSE "workers")
    BY <2>3 DEF PartsOK
  <2> QED BY <2>1, <2>2, <2>3
<1>4. TelemetryOK' /\ GroupOK' /\ MigrationsOK'
  BY DEF TelemetryOK, GroupOK, MigrationsOK, MainOK, TypeOK
<1> QED
  BY <1>1, <1>2, <1>3, <1>4

LEMMA MainKeeps == Inductive /\ Main => Inductive'
BY GetConfigKeeps, StartTelemetryKeeps, ParseArgsKeeps, RunMigrationsKeeps, MigrateKeeps,
   NewDependenciesKeeps, AddAllWorkersKeeps, MakeRiverClientKeeps, StartGroupKeeps,
   NewPreloaderClientKeeps, PreloadKeeps, ReturnFromMainKeeps DEF Main

-----------------------------------------------------------------------------
(* The goroutines.                                                         *)

(* While one of them runs, main waits for all of them.                     *)
LEMMA Grouped ==
    ASSUME Inductive, NEW g \in Goroutines, gor[g] # "unborn"
    PROVE  step = "wait" /\ program = "api" /\ gor \in [Goroutines -> {"start", "wait", "stopping", "done"}]
BY DEF Inductive, TypeOK, MainOK

(* What they do not touch.                                                 *)
LEMMA StartStays ==
    ASSUME Inductive, UNCHANGED startVars
    PROVE  PartsOK' /\ MigrationsOK'
BY DEF Inductive, startVars, PartsOK, MigrationsOK

LEMMA ListenAndServeKeeps == Inductive /\ ListenAndServe => Inductive'
<1> SUFFICES ASSUME Inductive, ListenAndServe PROVE Inductive'
  OBVIOUS
<1>1. step = "wait" /\ program = "api" /\ gor \in [Goroutines -> {"start", "wait", "stopping", "done"}]
      /\ exit = "running"
  BY Grouped DEF ListenAndServe, GorAt, Goroutines
<1>2. PartsOK' /\ MigrationsOK'
  BY StartStays DEF ListenAndServe
<1> USE <1>1 DEF Inductive, ListenAndServe, ShutdownFuncs, GorAt, GorTo, Return, ReturnErr, startVars,
              telemetryVars, traffic, Goroutines
<1>3. gor' \in [Goroutines -> {"start", "wait", "stopping", "done"}]
  OBVIOUS
<1>4. CauseIsKept' /\ gCtx' \in BOOLEAN
  BY DEF TypeOK, CauseIsKept, Causes, GroupOK
<1>5. TypeOK'
  BY <1>3, <1>4 DEF TypeOK, CauseIsKept, Causes, TelemetryOK
<1>6. MainOK'
  BY <1>3 DEF MainOK
<1>7. TelemetryOK' /\ GroupOK'
  BY DEF TelemetryOK, GroupOK, TypeOK
<1> QED
  BY <1>2, <1>4, <1>5, <1>6, <1>7

LEMMA AcceptFailsKeeps == Inductive /\ AcceptFails => Inductive'
<1> SUFFICES ASSUME Inductive, AcceptFails PROVE Inductive'
  OBVIOUS
<1>1. step = "wait" /\ program = "api" /\ gor \in [Goroutines -> {"start", "wait", "stopping", "done"}]
      /\ exit = "running"
  BY Grouped DEF AcceptFails, GorAt, Goroutines
<1>2. PartsOK' /\ MigrationsOK'
  BY StartStays DEF AcceptFails
<1> USE <1>1 DEF Inductive, AcceptFails, ShutdownFuncs, GorAt, GorTo, Return, ReturnErr, startVars,
              telemetryVars, traffic, Goroutines
<1>3. gor' \in [Goroutines -> {"start", "wait", "stopping", "done"}]
  OBVIOUS
<1>4. CauseIsKept' /\ gCtx' \in BOOLEAN
  BY DEF TypeOK, CauseIsKept, Causes, GroupOK
<1>5. TypeOK'
  BY <1>3, <1>4 DEF TypeOK, CauseIsKept, Causes, TelemetryOK
<1>6. MainOK'
  BY <1>3 DEF MainOK
<1>7. TelemetryOK' /\ GroupOK'
  BY DEF TelemetryOK, GroupOK, TypeOK
<1> QED
  BY <1>2, <1>4, <1>5, <1>6, <1>7

LEMMA HandleSignalsKeeps == Inductive /\ HandleSignals => Inductive'
<1> SUFFICES ASSUME Inductive, HandleSignals PROVE Inductive'
  OBVIOUS
<1>1. step = "wait" /\ program = "api" /\ gor \in [Goroutines -> {"start", "wait", "stopping", "done"}]
      /\ exit = "running"
  BY Grouped DEF HandleSignals, GorAt, Goroutines
<1>2. PartsOK' /\ MigrationsOK'
  BY StartStays DEF HandleSignals
<1> USE <1>1 DEF Inductive, HandleSignals, ShutdownFuncs, GorAt, GorTo, Return, ReturnErr, startVars,
              telemetryVars, traffic, Goroutines
<1>3. gor' \in [Goroutines -> {"start", "wait", "stopping", "done"}]
  OBVIOUS
<1>4. CauseIsKept' /\ gCtx' \in BOOLEAN
  BY DEF TypeOK, CauseIsKept, Causes, GroupOK
<1>5. TypeOK'
  BY <1>3, <1>4 DEF TypeOK, CauseIsKept, Causes, TelemetryOK
<1>6. MainOK'
  BY <1>3 DEF MainOK
<1>7. TelemetryOK' /\ GroupOK'
  BY DEF TelemetryOK, GroupOK, TypeOK
<1> QED
  BY <1>2, <1>4, <1>5, <1>6, <1>7

LEMMA ShutdownTelemetryKeeps == Inductive /\ ShutdownTelemetry => Inductive'
<1> SUFFICES ASSUME Inductive, ShutdownTelemetry PROVE Inductive'
  OBVIOUS
<1>1. step = "wait" /\ program = "api" /\ gor \in [Goroutines -> {"start", "wait", "stopping", "done"}]
      /\ exit = "running"
  BY Grouped DEF ShutdownTelemetry, GorAt, Goroutines
<1>2. PartsOK' /\ MigrationsOK'
  BY StartStays DEF ShutdownTelemetry
<1> USE <1>1 DEF Inductive, ShutdownTelemetry, ShutdownFuncs, GorAt, GorTo, Return, ReturnErr, startVars,
              telemetryVars, traffic, Goroutines
<1>3. gor' \in [Goroutines -> {"start", "wait", "stopping", "done"}]
  OBVIOUS
<1>4. CauseIsKept' /\ gCtx' \in BOOLEAN
  BY DEF TypeOK, CauseIsKept, Causes, GroupOK
<1>cleaned. cleanups' = 0 /\ cleaned' \in 0..1
  <2>1. cleaned = 0 /\ cleanups \in 0..1
    BY DEF TelemetryOK, TypeOK
  <2> QED BY <2>1
<1>5. TypeOK'
  BY <1>3, <1>4, <1>cleaned DEF TypeOK, CauseIsKept, Causes
<1>6. MainOK'
  BY <1>3 DEF MainOK
<1>7. TelemetryOK'
  <2>1. cleaned = 0 /\ cleanups \in 0..1 /\ gor'["telemetry"] = "done"
    BY DEF TelemetryOK, TypeOK
  <2>2. cleanups' = 0 /\ cleaned' = cleanups
    BY <2>1
  <2>3. UNCHANGED <<conf, step>>
    OBVIOUS
  <2>4. cleanups = (IF conf.telemetry /\ step \notin {"config", "telemetry"} THEN 1 ELSE 0)
    BY <2>1 DEF TelemetryOK
  <2> HIDE DEF Inductive, ShutdownTelemetry
  <2> QED BY <2>1, <2>2, <2>3, <2>4 DEF TelemetryOK
<1>8. GroupOK'
  BY DEF GroupOK, TypeOK
<1> QED
  BY <1>2, <1>4, <1>5, <1>6, <1>7, <1>8

LEMMA ShutdownHttpKeeps == Inductive /\ ShutdownHttp => Inductive'
<1> SUFFICES ASSUME Inductive, ShutdownHttp PROVE Inductive'
  OBVIOUS
<1>1. step = "wait" /\ program = "api" /\ gor \in [Goroutines -> {"start", "wait", "stopping", "done"}]
      /\ exit = "running"
  BY Grouped DEF ShutdownHttp, GorAt, Goroutines
<1>2. PartsOK' /\ MigrationsOK'
  BY StartStays DEF ShutdownHttp
<1> USE <1>1 DEF Inductive, ShutdownHttp, ShutdownFuncs, GorAt, GorTo, Return, ReturnErr, startVars,
              telemetryVars, traffic, Goroutines
<1>3. gor' \in [Goroutines -> {"start", "wait", "stopping", "done"}]
  OBVIOUS
<1>4. CauseIsKept' /\ gCtx' \in BOOLEAN
  BY DEF TypeOK, CauseIsKept, Causes, GroupOK
<1>server. server' \in {"new", "listening", "failed", "shutdown"} /\ late' \in BOOLEAN
  BY DEF TypeOK
<1>5. TypeOK'
  <2>1. UNCHANGED <<startVars, telemetryVars, serving, queue, working, signalled>>
    OBVIOUS
  <2> HIDE DEF ShutdownHttp
  <2> QED BY <2>1, <1>3, <1>4, <1>server DEF TypeOK, CauseIsKept, Causes
<1>6. MainOK'
  BY <1>3 DEF MainOK
<1>7. TelemetryOK'
  BY DEF TelemetryOK, TypeOK
<1>8. GroupOK'
  <2>1. CASE gor["shutdown"] = "start"
    BY <2>1 DEF GroupOK, TypeOK
  <2>2. CASE gor["shutdown"] = "stopping" /\ serving = {} /\ Return("shutdown")
             /\ UNCHANGED <<server, late>>
    BY <2>2 DEF GroupOK, TypeOK
  <2>3. CASE gor["shutdown"] = "stopping" /\ late' = TRUE /\ ReturnErr("shutdown", "shutdown")
             /\ UNCHANGED server
    <3>1. gCtx /\ gErr # "none"
      BY <2>3 DEF GroupOK
    <3> QED BY <2>3, <3>1 DEF GroupOK, TypeOK
  <2> QED BY <2>1, <2>2, <2>3
<1> QED
  BY <1>2, <1>4, <1>5, <1>6, <1>7, <1>8

LEMMA RunRiverKeeps == Inductive /\ RunRiver => Inductive'
<1> SUFFICES ASSUME Inductive, RunRiver PROVE Inductive'
  OBVIOUS
<1>1. step = "wait" /\ program = "api" /\ gor \in [Goroutines -> {"start", "wait", "stopping", "done"}]
      /\ exit = "running"
  BY Grouped DEF RunRiver, GorAt, Goroutines
<1>2. PartsOK' /\ MigrationsOK'
  BY StartStays DEF RunRiver
<1> USE <1>1 DEF Inductive, RunRiver, ShutdownFuncs, GorAt, GorTo, Return, ReturnErr, startVars,
              telemetryVars, traffic, Goroutines
<1>3. gor' \in [Goroutines -> {"start", "wait", "stopping", "done"}]
  OBVIOUS
<1>4. CauseIsKept' /\ gCtx' \in BOOLEAN
  BY DEF TypeOK, CauseIsKept, Causes, GroupOK
<1>5. TypeOK'
  BY <1>3, <1>4 DEF TypeOK, CauseIsKept, Causes, TelemetryOK
<1>6. MainOK'
  BY <1>3 DEF MainOK
<1>7. TelemetryOK' /\ GroupOK'
  BY DEF TelemetryOK, GroupOK, TypeOK
<1> QED
  BY <1>2, <1>4, <1>5, <1>6, <1>7

-----------------------------------------------------------------------------
(* The surroundings.                                                       *)

(* Requests come only to a server that listens, and jobs are started only  *)
(* by a client that runs in a context that is not cancelled.               *)
LEMMA TrafficKeeps ==
    ASSUME Inductive,
           \/ \E c \in Clients : Accept(c) \/ Respond(c)
           \/ \E j \in Jobs : StartJob(j) \/ EndJob(j)
    PROVE  Inductive'
<1>1. UNCHANGED <<startVars, telemetryVars, server, queue, groupVars>>
  BY DEF Accept, Respond, StartJob, EndJob
<1>2. serving' \subseteq Clients /\ (serving' \subseteq serving \/ server = "listening")
  BY DEF Inductive, TypeOK, Accept, Respond, StartJob, EndJob
<1>3. working' \subseteq Jobs /\ (working' \subseteq working \/ (queue = "running" /\ ~gCtx))
  BY DEF Inductive, TypeOK, Accept, Respond, StartJob, EndJob
<1>4. PartsOK' /\ MigrationsOK'
  BY <1>1, StartStays
<1> USE <1>1, <1>2, <1>3 DEF startVars, telemetryVars, groupVars
<1>5. TypeOK' /\ CauseIsKept'
  BY DEF Inductive, TypeOK, CauseIsKept
<1>6. MainOK'
  <2>1. exit = "running"
    BY DEF Accept, Respond, StartJob, EndJob
  <2>2. step = "wait" \/ (serving' = {} /\ working' = {})
    BY DEF Inductive, MainOK
  <2> QED BY <2>1, <2>2 DEF Inductive, MainOK
<1>7. TelemetryOK'
  BY DEF Inductive, TelemetryOK
<1>8. GroupOK'
  BY DEF Inductive, GroupOK
<1> QED
  BY <1>4, <1>5, <1>6, <1>7, <1>8 DEF Inductive

(* The process may be killed at any point.                                 *)
LEMMA KillKeeps ==
    ASSUME Inductive, Signal \/ Kill
    PROVE  Inductive'
<1>1. /\ UNCHANGED <<program, conf, step, schema, applied, deps, nils, telemetryVars,
                     traffic, gor, gErr, gCtx, late>>
      /\ exit' \in {"running", "killed"} /\ exit = "running" /\ signalled' \in BOOLEAN
  BY DEF Signal, Kill, Inductive, TypeOK, groupVars
<1> USE <1>1 DEF telemetryVars, traffic
<1>2. TypeOK' /\ CauseIsKept'
  BY DEF Inductive, TypeOK, CauseIsKept
<1>3. MainOK' /\ PartsOK'
  BY DEF Inductive, MainOK, PartsOK
<1>4. TelemetryOK' /\ GroupOK' /\ MigrationsOK'
  BY DEF Inductive, TelemetryOK, GroupOK, MigrationsOK
<1> QED
  BY <1>2, <1>3, <1>4 DEF Inductive

LEMMA ConfigurationsAre ==
    \A c \in Configurations :
      /\ c.program \in {"api", "preloader"} /\ c.conf \in [telemetry: BOOLEAN, migrations: BOOLEAN]
      /\ c.program = "preloader" => c.conf = [telemetry |-> FALSE, migrations |-> FALSE]
<1> TAKE c \in Configurations
<1>1. CASE c = [program |-> "preloader", conf |-> [telemetry |-> FALSE, migrations |-> FALSE]]
  BY <1>1
<1>2. CASE c \in [program: {"api"}, conf: [telemetry: BOOLEAN, migrations: BOOLEAN]]
  BY <1>2
<1> QED
  BY <1>1, <1>2 DEF Configurations

(* A new process has nothing of the last one but the schema.               *)
LEMMA RestartKeeps == Inductive /\ Restart => Inductive'
<1> SUFFICES ASSUME Inductive, Restart PROVE Inductive'
  OBVIOUS
<1> USE DEF Restart
<1>1. program' \in {"api", "preloader"} /\ conf' \in [telemetry: BOOLEAN, migrations: BOOLEAN]
      /\ (program' = "preloader" => conf' = [telemetry |-> FALSE, migrations |-> FALSE])
  BY ConfigurationsAre
<1>2. applied' \in 0..Len(Options(program')) /\ schema' \in [version: 0..LastVersion, dirty: BOOLEAN]
  BY <1>1, OptionsAre DEF Inductive, TypeOK
<1>3. TypeOK' /\ CauseIsKept'
  <2>1. gor' \in [Goroutines -> {"unborn", "start", "wait", "stopping", "done"}]
    OBVIOUS
  <2>2. cleanups' \in 0..1 /\ cleaned' \in 0..1
    OBVIOUS
  <2> QED BY <1>1, <1>2, <2>1, <2>2 DEF TypeOK, Steps, CauseIsKept
<1>4. MainOK' /\ PartsOK'
  BY <1>1 DEF MainOK, PartsOK
<1>5. TelemetryOK' /\ GroupOK' /\ MigrationsOK'
  BY DEF TelemetryOK, GroupOK, MigrationsOK, Goroutines
<1> QED
  BY <1>3, <1>4, <1>5 DEF Inductive

LEMMA InitInductive == Init => Inductive
<1> SUFFICES ASSUME Init PROVE Inductive
  OBVIOUS
<1> USE DEF Init
<1>1. program \in {"api", "preloader"} /\ conf \in [telemetry: BOOLEAN, migrations: BOOLEAN]
      /\ (program = "preloader" => conf = [telemetry |-> FALSE, migrations |-> FALSE])
  BY ConfigurationsAre
<1>2. applied \in 0..Len(Options(program)) /\ schema \in [version: 0..LastVersion, dirty: BOOLEAN]
  BY <1>1, OptionsAre, ProcessAssumption
<1>3. TypeOK /\ CauseIsKept
  <2>1. gor \in [Goroutines -> {"unborn", "start", "wait", "stopping", "done"}]
    OBVIOUS
  <2>2. cleanups \in 0..1 /\ cleaned \in 0..1
    OBVIOUS
  <2> QED BY <1>1, <1>2, <2>1, <2>2 DEF TypeOK, Steps, CauseIsKept
<1>4. MainOK /\ PartsOK
  BY <1>1 DEF MainOK, PartsOK
<1>5. TelemetryOK /\ GroupOK /\ MigrationsOK
  BY DEF TelemetryOK, GroupOK, MigrationsOK, Goroutines
<1> QED
  BY <1>3, <1>4, <1>5 DEF Inductive

LEMMA NextKeeps == Inductive /\ [Next]_vars => Inductive'
<1> SUFFICES ASSUME Inductive, [Next]_vars PROVE Inductive'
  OBVIOUS
<1>1. CASE Next
  BY <1>1, MainKeeps, ListenAndServeKeeps, AcceptFailsKeeps, HandleSignalsKeeps,
     ShutdownTelemetryKeeps, ShutdownHttpKeeps, RunRiverKeeps, TrafficKeeps,
     KillKeeps, RestartKeeps DEF Next
<1>2. CASE UNCHANGED vars
  BY <1>2 DEF vars, startVars, telemetryVars, traffic, groupVars, Inductive, TypeOK,
     CauseIsKept, MainOK, PartsOK, TelemetryOK, GroupOK, MigrationsOK
<1> QED
  BY <1>1, <1>2

(* Whatever the configuration, however often the process is killed and     *)
(* started again: main, its parts, the telemetry, the goroutines and the   *)
(* migrations keep what each of them is to keep, and the state its type.   *)
THEOREM Invariance == Spec => []Inductive
BY InitInductive, NextKeeps, PTL DEF Spec

-----------------------------------------------------------------------------
(* What the process promises.                                              *)

(* The state of the process has its type: a schema never has a version     *)
(* beyond the last migration, and a cleanup is never run twice.            *)
THEOREM TypeInvariance == Spec => []TypeOK
<1>1. Inductive => TypeOK
  BY DEF Inductive
<1> QED
  BY <1>1, Invariance, PTL

(* A process started with the migrations serves only on a schema that has  *)
(* all of them, none half applied, however many there are and wherever     *)
(* earlier processes were killed.                                          *)
THEOREM ServesOnWholeSchema == Spec => []SchemaIsWhole
<1>1. Inductive => SchemaIsWhole
  BY DEF Inductive, MainOK, MigrationsOK, SchemaIsWhole
<1> QED
  BY <1>1, Invariance, PTL

(* Nothing that handles a request or a job was made from a field that was  *)
(* not yet set, but for the queue client of two workers.                   *)
THEOREM PartsExist == Spec => []BuiltFromWhatExists
<1>1. Inductive => BuiltFromWhatExists
  BY DEF Inductive, PartsOK, BuiltFromWhatExists
<1> QED
  BY <1>1, Invariance, PTL

(* When main of the api returns, the server is shut down, no job is cut    *)
(* off, a request only after the 20 seconds, and the cleanup of the        *)
(* telemetry was called once.                                              *)
THEOREM ExitIsGraceful == Spec => []GracefulExit
<1>1. Inductive => GracefulExit
  <2> SUFFICES ASSUME Inductive, exit = "returned", program = "api"
               PROVE  /\ server = "shutdown" /\ working = {}
                      /\ serving # {} => late
                      /\ cleaned = (IF conf.telemetry THEN 1 ELSE 0)
    BY DEF GracefulExit
  <2>1. step = "wait" /\ \A g \in Goroutines : gor[g] = "done"
    BY DEF Inductive, MainOK
  <2>2. server = "shutdown" /\ working = {} /\ (serving # {} => late)
    BY <2>1 DEF Inductive, GroupOK, Goroutines
  <2>3. cleanups = 0 /\ cleanups + cleaned = (IF conf.telemetry THEN 1 ELSE 0)
    BY <2>1 DEF Inductive, TelemetryOK, Goroutines
  <2>4. cleaned \in 0..1
    BY DEF Inductive, TypeOK
  <2> QED BY <2>2, <2>3, <2>4
<1> QED
  BY <1>1, Invariance, PTL

(* The error of the group is that of the goroutine that ended the process, *)
(* never one that the shutdown itself brings about.                        *)
THEOREM CauseOfTheEnd == Spec => []CauseIsKept
<1>1. Inductive => CauseIsKept
  BY DEF Inductive
<1> QED
  BY <1>1, Invariance, PTL
=============================================================================

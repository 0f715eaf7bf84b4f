---------------------------- MODULE SimulatorProofs ----------------------------
(***************************************************************************)
(* What the user of a Simulator finds after any sequence of calls, for     *)
(* every configuration, any number of simulations and of tabs.  In the     *)
(* second part, the log it reads: what the recorder of the telemetry has   *)
(* written, for every size of the chunks, of the header and of a line.     *)
(* Chunks are filled exactly, no line is cut, and what is read back is one *)
(* snapshot of the variables per line, in order: the recorder implements   *)
(* TelemetryLog.                                                           *)
(***************************************************************************)
EXTENDS Simulator, TelemetryRecorder, FiniteSetTheorems, SequenceTheorems, TLAPS

---------------------------------------------------------------------------
(* What simulate leaves: the engine stopped, the bar closed, the log whole *)

Engines == [running : BOOLEAN, t : Nat, buffer : Nat, by : {"start", "simulate"}]
Groups == StateGroups \cup SensorGroups
Logs == [lines : Nat, flexible : BOOLEAN, of : Nat, recorded : SUBSET Groups]
WrittenLogs == [lines : Nat, end : Nat, over : BOOLEAN]
Pcs == {"simulate", "done", "failed"}
Calls == [pc : Pcs, bar : BOOLEAN, path : {None, "data"}, end : 1 .. MaxTime]

\* While the engine runs there is one line for every step, and the last one is missing.  It is
\* there once simulate is done, since nothing else goes on in the meantime.
LogInv ==
    /\ engine \in Engines
    /\ options \in [Parts -> Configs]
    /\ log # None => log \in Logs
    /\ engine.running => log \in Logs /\ log.lines = engine.t
    /\ files.log # None => files.log \in WrittenLogs
    /\ files = [log |-> files.log, options |-> files.options]

CallInv ==
    /\ call.pc \in Pcs \cup {"user", "replay"}
    /\ call.pc = "user" => call.bar = FALSE
    /\ call.pc \in Pcs => call \in Calls
    /\ call.pc = "simulate" => engine.running
    /\ call.pc = "done" => /\ ~engine.running
                           /\ log \in Logs /\ log.lines = engine.t + 1

FilesInv ==
    files.log # None => files.log.over = TRUE /\ files.log.lines = files.log.end + 1

\* The viewer displays the buffer of the engine, unless it was made since or simulate started it.
ViewerInv ==
    viewer # None =>
      /\ viewer \in [open : BOOLEAN, made : Nat, forces : Nat]
      /\ (engine.running /\ engine.by = "start" /\ viewer.made < engine.buffer) =>
           viewer.forces = engine.buffer

\* The options are those of one configuration as long as they are not mixed, and so are those
\* that were exported meanwhile.
OptionFiles == [parts : [Parts -> Configs], mixed : BOOLEAN, known : BOOLEAN]

OptionsInv ==
    /\ mixed \in BOOLEAN
    /\ mixed \/ \E config \in Configs : options = Uniform(config)
    /\ files.options # None =>
         /\ files.options \in OptionFiles
         /\ files.options.mixed \/ \E config \in Configs : files.options.parts = Uniform(config)

\* A step of an engine and of the log, whatever the rest.
EngineRests == engine' = engine /\ log' = log
EngineStarts(by) == engine' = Started(by) /\ log' = NewLog
EngineStops == StopEngine /\ StopLog
EngineFails == engine' = [Started("start") EXCEPT !.running = FALSE] /\ log' = log
EngineAdvances == engine.running /\ engine' = [engine EXCEPT !.t = @ + 1] /\ log' = WithLine(log)

LEMMA EngineFields ==
  ASSUME NEW B, NEW T, NEW N, NEW S, NEW e \in [running : B, t : T, buffer : N, by : S],
         NEW running \in B, NEW t \in T
  PROVE  /\ e.running \in B /\ e.t \in T /\ e.buffer \in N /\ e.by \in S
         /\ [e EXCEPT !.running = running] \in [running : B, t : T, buffer : N, by : S]
         /\ [e EXCEPT !.running = running].running = running
         /\ [e EXCEPT !.running = running].t = e.t
         /\ [e EXCEPT !.running = running].buffer = e.buffer
         /\ [e EXCEPT !.running = running].by = e.by
         /\ [e EXCEPT !.t = t] \in [running : B, t : T, buffer : N, by : S]
         /\ [e EXCEPT !.t = t].running = e.running
         /\ [e EXCEPT !.t = t].t = t
         /\ [e EXCEPT !.t = t].buffer = e.buffer
         /\ [e EXCEPT !.t = t].by = e.by
OBVIOUS

LEMMA StartedFields ==
  ASSUME NEW B, NEW T, NEW N, NEW S, NEW running \in B, NEW t \in T, NEW buffer \in N, NEW by \in S
  PROVE  LET e == [running |-> running, t |-> t, buffer |-> buffer, by |-> by] IN
         /\ e \in [running : B, t : T, buffer : N, by : S]
         /\ e.running = running /\ e.t = t /\ e.buffer = buffer /\ e.by = by
OBVIOUS

LEMMA LogFields ==
  ASSUME NEW N, NEW F, NEW R, NEW l \in [lines : N, flexible : F, of : N, recorded : R], NEW n \in N
  PROVE  /\ l.lines \in N /\ l.flexible \in F /\ l.of \in N /\ l.recorded \in R
         /\ [l EXCEPT !.lines = n] \in [lines : N, flexible : F, of : N, recorded : R]
         /\ [l EXCEPT !.lines = n].lines = n
         /\ [l EXCEPT !.lines = n].of = l.of
OBVIOUS

LEMMA NewLogIsALog ==
  ASSUME options \in [Parts -> Configs], engine.buffer \in Nat
  PROVE  NewLog \in Logs /\ NewLog.lines = 0 /\ NewLog.of = engine.buffer + 1
<1>1. IsFlexible \in BOOLEAN
  BY SimulatorAssumption, SMT DEF IsFlexible, Parts
<1>2. \A A, B : (A \cap StateGroups) \cup (B \cap SensorGroups) \in SUBSET Groups
  BY DEF Groups
<1>3. \A f \in BOOLEAN, n \in Nat, r \in SUBSET Groups :
        /\ [lines |-> 0, flexible |-> f, of |-> n, recorded |-> r] \in Logs
        /\ [lines |-> 0, flexible |-> f, of |-> n, recorded |-> r].lines = 0
        /\ [lines |-> 0, flexible |-> f, of |-> n, recorded |-> r].of = n
  BY SMT DEF Logs
<1>4. engine.buffer + 1 \in Nat
  OBVIOUS
<1> QED
  BY <1>1, <1>2, <1>3, <1>4, Zenon DEF NewLog

LEMMA AfterStart ==
  ASSUME LogInv, NEW by \in {"start", "simulate"}, EngineStarts(by)
  PROVE  /\ engine' \in Engines /\ engine'.running = TRUE /\ engine'.t = 0
         /\ engine'.buffer = engine.buffer + 1 /\ engine'.by = by
         /\ log' \in Logs /\ log'.lines = 0 /\ log'.of = engine.buffer + 1
<1>1. engine.buffer \in Nat
  BY EngineFields, Zenon DEF LogInv, Engines
<1>2. engine' = [running |-> TRUE, t |-> 0, buffer |-> engine.buffer + 1, by |-> by]
  BY Zenon DEF EngineStarts, Started
<1>3. engine.buffer + 1 \in Nat /\ 0 \in Nat /\ TRUE \in BOOLEAN
  BY <1>1
<1>4. log' \in Logs /\ log'.lines = 0 /\ log'.of = engine.buffer + 1
  BY <1>1, NewLogIsALog, Zenon DEF LogInv, EngineStarts
<1> QED
  BY <1>2, <1>3, <1>4, StartedFields, Zenon DEF Engines

LEMMA AfterFail ==
  ASSUME LogInv, EngineFails
  PROVE  /\ engine' \in Engines /\ engine'.running = FALSE /\ engine'.buffer = engine.buffer + 1
         /\ log' = log
<1> DEFINE e == [running |-> TRUE, t |-> 0, buffer |-> engine.buffer + 1, by |-> "start"]
<1>1. engine.buffer \in Nat
  BY EngineFields, Zenon DEF LogInv, Engines
<1>2. Started("start") = e
  BY Zenon DEF Started
<1>3. /\ engine.buffer + 1 \in Nat /\ 0 \in Nat /\ TRUE \in BOOLEAN /\ FALSE \in BOOLEAN
      /\ "start" \in {"start", "simulate"}
  BY <1>1
<1>4. e \in Engines /\ e.buffer = engine.buffer + 1
  BY <1>3, StartedFields, Zenon DEF Engines
<1>5. engine' = [e EXCEPT !.running = FALSE] /\ log' = log
  BY <1>2, Zenon DEF EngineFails
<1> HIDE DEF e
<1>6. e.t \in Nat
  BY <1>3, <1>4, EngineFields, Zenon DEF Engines
<1> QED
  BY <1>3, <1>4, <1>5, EngineFields, Zenon DEF Engines

LEMMA AfterStop ==
  ASSUME LogInv, EngineStops
  PROVE  /\ engine' \in Engines /\ engine'.running = FALSE /\ engine'.t = engine.t
         /\ engine'.buffer = engine.buffer /\ engine'.by = engine.by
         /\ engine.running => log' \in Logs /\ log'.lines = engine.t + 1 /\ log'.of = log.of
         /\ ~engine.running => log' = log
         /\ log' # None => log' \in Logs
<1>1. engine \in Engines /\ FALSE \in BOOLEAN /\ 0 \in Nat
  BY Zenon DEF LogInv
<1>2. engine' = [engine EXCEPT !.running = FALSE]
  BY Zenon DEF EngineStops, StopEngine
<1>3. /\ engine' \in Engines /\ engine'.running = FALSE /\ engine'.t = engine.t
      /\ engine'.buffer = engine.buffer /\ engine'.by = engine.by /\ engine.t \in Nat
  BY <1>1, <1>2, EngineFields, Zenon DEF Engines
<1>4. ASSUME engine.running PROVE log' \in Logs /\ log'.lines = engine.t + 1 /\ log'.of = log.of
  <2>1. log' = [log EXCEPT !.lines = log.lines + 1]
    BY <1>4 DEF EngineStops, StopLog, WithLine
  <2>2. log \in Logs /\ log.lines = engine.t /\ log.lines + 1 \in Nat
    BY <1>3, <1>4 DEF LogInv
  <2> QED
    BY <2>1, <2>2, LogFields, Zenon DEF Logs
<1>5. ASSUME ~engine.running PROVE log' = log
  BY <1>5, Zenon DEF EngineStops, StopLog
<1> QED
  BY <1>3, <1>4, <1>5, Zenon DEF LogInv

LEMMA AfterAdvance ==
  ASSUME LogInv, EngineAdvances
  PROVE  /\ engine' \in Engines /\ engine'.running = engine.running /\ engine'.t = engine.t + 1
         /\ engine'.buffer = engine.buffer /\ engine'.by = engine.by
         /\ log' \in Logs /\ log'.lines = engine'.t /\ log'.of = log.of
<1>1. engine \in Engines /\ engine.running \in BOOLEAN /\ engine.t \in Nat
  BY EngineFields, Zenon DEF LogInv, Engines
<1>2. /\ engine' = [engine EXCEPT !.t = engine.t + 1] /\ engine.running
      /\ log' = [log EXCEPT !.lines = log.lines + 1]
  BY Zenon DEF EngineAdvances, WithLine
<1>3. log \in Logs /\ log.lines = engine.t /\ engine.t + 1 \in Nat
  BY <1>1, <1>2 DEF LogInv
<1>4. /\ engine' \in Engines /\ engine'.running = engine.running /\ engine'.t = engine.t + 1
      /\ engine'.buffer = engine.buffer /\ engine'.by = engine.by
  BY <1>1, <1>2, <1>3, EngineFields, Zenon DEF Engines
<1>5. log' \in Logs /\ log'.lines = engine.t + 1 /\ log'.of = log.of
  BY <1>2, <1>3, LogFields, Zenon DEF Logs
<1> QED
  BY <1>4, <1>5, Zenon

LEMMA WrittenFields ==
  ASSUME NEW lines \in Nat, NEW end \in Nat, NEW over \in BOOLEAN
  PROVE  LET w == [lines |-> lines, end |-> end, over |-> over] IN
         w \in WrittenLogs /\ w.lines = lines /\ w.end = end /\ w.over = over
BY DEF WrittenLogs

LEMMA FilesFields ==
  ASSUME NEW f, f = [log |-> f.log, options |-> f.options], NEW x
  PROVE  /\ [f EXCEPT !.log = x] = [log |-> x, options |-> f.options]
         /\ [f EXCEPT !.options = x] = [log |-> f.log, options |-> x]
OBVIOUS

LEMMA OptionFields ==
  ASSUME NEW P, NEW B, NEW o \in [parts : P, mixed : B, known : B], NEW b \in B
  PROVE  /\ o.parts \in P /\ o.mixed \in B /\ o.known \in B
         /\ [o EXCEPT !.known = b] \in [parts : P, mixed : B, known : B]
         /\ [o EXCEPT !.known = b].parts = o.parts
         /\ [o EXCEPT !.known = b].mixed = o.mixed
OBVIOUS

LEMMA UniformIsTyped == \A config \in Configs : Uniform(config) \in [Parts -> Configs]
BY DEF Uniform

---------------------------------------------------------------------------
(* The invariants, action by action *)

\* What the actions of the viewer, of the figure and of the call leave alone.
Rests == engine' = engine /\ options' = options /\ log' = log /\ files' = files /\ mixed' = mixed

EngineActions ==
    \/ Stop \/ Start \/ StartFails \/ Step
    \/ \E end \in 1 .. MaxTime, path \in {None, "data"}, bar \in BOOLEAN : Simulate(end, path, bar)
    \/ SimulateStep \/ SimulateStops

ViewerActions ==
    Render \/ CloseWindow \/ Close \/ Replay \/ PlayFile \/ ReplayReturns \/ SimulateRaises

FigureActions ==
    UseFigure \/ MakeFigure \/ ChangeFigure \/ \E block \in BOOLEAN : Plot(block)

OptionActions ==
    ExportOptions \/ EditOptions \/ ImportOptions \/ \E config \in Configs : SetOptions(config)

LEMMA NextCases ==
  SimulatorNext => EngineActions \/ SimulateReturns \/ ViewerActions \/ FigureActions \/ OptionActions
BY Zenon DEF SimulatorNext, Seed, EngineActions, ViewerActions, FigureActions, OptionActions

LEMMA FigureRests == ASSUME FigureActions PROVE Rests /\ viewer' = viewer /\ call' = call
BY Zenon DEF FigureActions, Plot, UseFigure, MakeFigure, ChangeFigure, simVars, Rests

LEMMA ViewerRests == ASSUME ViewerActions PROVE Rests
BY Zenon DEF ViewerActions, Render, CloseWindow, Close, Replay, PlayFile, ReplayReturns,
             SimulateRaises, Rests

LEMMA OptionsStep ==
  ASSUME LogInv, OptionsInv, [SimulatorNext]_allVars
  PROVE  OptionsInv' /\ options' \in [Parts -> Configs]
<1>0. engine.running \in BOOLEAN /\ options \in [Parts -> Configs]
  BY EngineFields, Zenon DEF LogInv, Engines
<1>1. CASE \/ Rests
           \/ options' = options /\ mixed' = mixed /\ files'.options = files.options
  <2>1. options' = options /\ mixed' = mixed /\ files'.options = files.options
    BY <1>1, Zenon DEF Rests
  <2> QED
    BY <1>0, <2>1, Zenon DEF OptionsInv
<1>2. ASSUME EngineActions PROVE options' = options /\ mixed' = mixed /\ files' = files
  BY <1>2, Zenon DEF EngineActions, Stop, Start, StartFails, Step, Simulate, SimulateStep,
                     SimulateStops, Advance
<1>3. ASSUME SimulateReturns
      PROVE  options' = options /\ mixed' = mixed /\ files'.options = files.options
  <2>1. /\ options' = options /\ mixed' = mixed
        /\ \/ files' = files
           \/ \E x : files' = [files EXCEPT !.log = x]
    BY <1>3, Zenon DEF SimulateReturns
  <2>2. files = [log |-> files.log, options |-> files.options]
    BY Zenon DEF LogInv
  <2>3. ASSUME NEW x, files' = [files EXCEPT !.log = x] PROVE files'.options = files.options
    <3>1. files' = [log |-> x, options |-> files.options]
      BY <2>2, <2>3, FilesFields, Zenon
    <3> QED
      BY <3>1
  <2> QED
    BY <2>1, <2>3, Zenon
<1>4. ASSUME NEW config \in Configs, SetOptions(config)
      PROVE  OptionsInv' /\ options' \in [Parts -> Configs]
  <2>1. options' = Accepted(config) /\ mixed' = engine.running /\ files' = files
    BY <1>4, Zenon DEF SetOptions
  <2>2. options' \in [Parts -> Configs]
    BY <1>0, <2>1 DEF Accepted
  <2>3. ASSUME ~engine.running PROVE options' = Uniform(config)
    BY <2>1, <2>3, Zenon DEF Accepted, Uniform
  <2> QED
    BY <1>0, <2>1, <2>2, <2>3, Zenon DEF OptionsInv
<1>5. ASSUME ExportOptions
      PROVE  OptionsInv' /\ options' \in [Parts -> Configs]
  <2> DEFINE f == [parts |-> options, mixed |-> mixed, known |-> TRUE]
  <2>1. options' = options /\ mixed' = mixed /\ files' = [files EXCEPT !.options = f]
    BY <1>5, Zenon DEF ExportOptions
  <2>2. mixed \in BOOLEAN
    BY Zenon DEF OptionsInv
  <2>3. f \in OptionFiles /\ f.mixed = mixed /\ f.parts = options
    BY <1>0, <2>2, Zenon DEF OptionFiles
  <2> HIDE DEF f
  <2>4. files'.options = f
    <3>1. files' = [log |-> files.log, options |-> f]
      BY <2>1, FilesFields, Zenon DEF LogInv
    <3> QED
      BY <3>1
  <2> QED
    BY <1>0, <2>1, <2>3, <2>4, Zenon DEF OptionsInv
<1>6. ASSUME EditOptions
      PROVE  OptionsInv' /\ options' \in [Parts -> Configs]
  <2> DEFINE f == [files.options EXCEPT !.known = FALSE]
  <2>1. /\ options' = options /\ mixed' = mixed /\ files.options # None
        /\ files' = [files EXCEPT !.options = f]
    BY <1>6 DEF EditOptions
  <2>2. files.options \in OptionFiles
    BY <2>1, Zenon DEF OptionsInv
  <2>3. f \in OptionFiles /\ f.mixed = files.options.mixed /\ f.parts = files.options.parts
    BY <2>2, OptionFields, Zenon DEF OptionFiles
  <2> HIDE DEF f
  <2>4. files'.options = f
    <3>1. files' = [log |-> files.log, options |-> f]
      BY <2>1, FilesFields, Zenon DEF LogInv
    <3> QED
      BY <3>1
  <2> QED
    BY <1>0, <2>1, <2>3, <2>4, Zenon DEF OptionsInv
<1>7. ASSUME ImportOptions
      PROVE  OptionsInv' /\ options' \in [Parts -> Configs]
  <2>1. /\ options' = Imported(files.options) /\ files.options # None /\ files' = files
        /\ mixed' = IF files.options.known THEN files.options.mixed ELSE mixed
    BY <1>7, Zenon DEF ImportOptions
  <2>2. /\ files.options.mixed \in BOOLEAN /\ files.options.parts \in [Parts -> Configs]
        /\ files.options.mixed \/ \E config \in Configs : files.options.parts = Uniform(config)
    BY <2>1, OptionFields, Zenon DEF OptionsInv, OptionFiles
  <2>3. CASE files.options.known
    <3>1. options' = files.options.parts /\ mixed' = files.options.mixed
      BY <2>1, <2>3, Zenon DEF Imported
    <3> QED
      BY <2>1, <2>2, <3>1, Zenon DEF OptionsInv
  <2>4. CASE ~files.options.known
    <3>1. options' = options /\ mixed' = mixed /\ files'.options = files.options
      BY <2>1, <2>4, Zenon DEF Imported
    <3> QED
      BY <1>1, <3>1
  <2> QED
    BY <2>3, <2>4
<1>8. CASE UNCHANGED allVars
  BY <1>1, <1>8, Zenon DEF allVars, simVars
<1> DEFINE Goal == OptionsInv' /\ options' \in [Parts -> Configs]
<1> HIDE DEF Goal
<1>9. (EngineActions \/ SimulateReturns) => Goal
  BY <1>1, <1>2, <1>3, Zenon DEF Goal
<1>10. (FigureActions \/ ViewerActions) => Goal
  BY <1>1, FigureRests, ViewerRests, Zenon DEF Goal
<1>11. (OptionActions \/ UNCHANGED allVars) => Goal
  BY <1>4, <1>5, <1>6, <1>7, <1>8, Zenon DEF Goal, OptionActions
<1>12. Goal
  BY <1>9, <1>10, <1>11, NextCases, Zenon
<1> QED
  BY <1>12 DEF Goal

LEMMA EngineCases ==
  ASSUME EngineActions
  PROVE  \/ EngineStarts("start") \/ EngineStarts("simulate")
         \/ EngineStops \/ EngineFails \/ EngineAdvances
BY Zenon DEF EngineActions, Stop, Start, StartFails, Step, Simulate, SimulateStep, SimulateStops,
             Advance, EngineStarts, EngineStops, EngineFails, EngineAdvances

LEMMA OptionActionsKeepLogs ==
  ASSUME LogInv, OptionActions
  PROVE  /\ engine' = engine /\ log' = log /\ call' = call /\ viewer' = viewer
         /\ files'.log = files.log /\ files' = [log |-> files'.log, options |-> files'.options]
<1>1. /\ engine' = engine /\ log' = log /\ call' = call /\ viewer' = viewer
      /\ files' = files \/ \E x : files' = [files EXCEPT !.options = x]
  BY Zenon DEF OptionActions, SetOptions, ExportOptions, ImportOptions, EditOptions
<1>2. files = [log |-> files.log, options |-> files.options]
  BY Zenon DEF LogInv
<1>3. ASSUME NEW x, files' = [files EXCEPT !.options = x]
      PROVE  files'.log = files.log /\ files' = [log |-> files'.log, options |-> files'.options]
  <2>1. files' = [log |-> files.log, options |-> x]
    BY <1>2, <1>3, FilesFields, Zenon
  <2> QED
    BY <2>1
<1> QED
  BY <1>1, <1>2, <1>3, Zenon

\* What simulate writes: nothing, or the log of a simulation that is done.
LEMMA AfterReturn ==
  ASSUME LogInv, CallInv, FilesInv, SimulateReturns
  PROVE  /\ engine' = engine /\ log' = log /\ call' = Idle /\ viewer' = viewer /\ options' = options
         /\ files' = [log |-> files'.log, options |-> files'.options]
         /\ files'.log # None =>
              /\ files'.log \in WrittenLogs
              /\ files'.log.over = TRUE /\ files'.log.lines = files'.log.end + 1
<1>1. /\ engine' = engine /\ log' = log /\ call' = Idle /\ viewer' = viewer /\ options' = options
      /\ files' = IF Written(call) THEN [files EXCEPT !.log = WrittenLog] ELSE files
  BY Zenon DEF SimulateReturns, Returned
<1>2. CASE ~Written(call)
  BY <1>1, <1>2, Zenon DEF LogInv, FilesInv
<1>3. CASE Written(call)
  <2> DEFINE w == [lines |-> log.lines, end |-> engine.t, over |-> ~engine.running]
  <2>1. log \in Logs /\ log.lines \in Nat /\ log.lines = engine.t + 1 /\ ~engine.running
    BY <1>3, LogFields, Zenon DEF Written, CallInv, Logs
  <2>2. engine.t \in Nat /\ (~engine.running) \in BOOLEAN
    BY EngineFields, Zenon DEF LogInv, Engines
  <2>3. w \in WrittenLogs /\ w.over = (~engine.running) /\ w.lines = w.end + 1
    BY <2>1, <2>2, WrittenFields, Zenon
  <2>4. WrittenLog = w
    BY Zenon DEF WrittenLog
  <2> HIDE DEF w
  <2>5. files' = [files EXCEPT !.log = w]
    BY <1>1, <1>3, <2>4, Zenon
  <2>6. files' = [log |-> w, options |-> files.options]
    BY <2>5, FilesFields, Zenon DEF LogInv
  <2>7. files'.log = w /\ files'.options = files.options
    BY <2>6
  <2> QED
    BY <1>1, <2>1, <2>3, <2>6, <2>7, Zenon
<1> QED
  BY <1>2, <1>3

LEMMA LogStep ==
  ASSUME LogInv, OptionsInv, CallInv, FilesInv, [SimulatorNext]_allVars
  PROVE  LogInv' /\ FilesInv'
<1> DEFINE Goal == LogInv' /\ FilesInv'
<1> SUFFICES Goal
  BY DEF Goal
<1> HIDE DEF Goal
<1>1. options' \in [Parts -> Configs]
  BY OptionsStep
<1>2. CASE EngineActions
  <2>1. files' = files
    BY <1>2, Zenon DEF EngineActions, Stop, Start, StartFails, Step, Simulate, SimulateStep,
                       SimulateStops, Advance
  <2>2. ASSUME /\ engine' \in Engines /\ (log' # None => log' \in Logs)
               /\ engine'.running => log' \in Logs /\ log'.lines = engine'.t
        PROVE  Goal
    BY <1>1, <2>1, <2>2, Zenon DEF Goal, LogInv, FilesInv
  <2>3. ASSUME NEW by \in {"start", "simulate"}, EngineStarts(by) PROVE Goal
    BY <2>2, <2>3, AfterStart
  <2>4. ASSUME EngineStops PROVE Goal
    BY <2>2, <2>4, AfterStop, Zenon
  <2>5. ASSUME EngineFails PROVE Goal
    BY <2>2, <2>5, AfterFail, Zenon DEF LogInv
  <2>6. ASSUME EngineAdvances PROVE Goal
    BY <2>2, <2>6, AfterAdvance, Zenon
  <2> QED
    BY <1>2, <2>3, <2>4, <2>5, <2>6, EngineCases, Zenon
<1>3. CASE SimulateReturns
  BY <1>1, <1>3, AfterReturn, Zenon DEF Goal, LogInv, FilesInv
<1>4. CASE FigureActions \/ ViewerActions \/ UNCHANGED allVars
  <2>1. Rests
    BY <1>4, FigureRests, ViewerRests, Zenon DEF Rests, allVars, simVars
  <2> QED
    BY <2>1, Zenon DEF Goal, LogInv, FilesInv, Rests
<1>5. CASE OptionActions
  BY <1>1, <1>5, OptionActionsKeepLogs, Zenon DEF Goal, LogInv, FilesInv
<1> QED
  BY <1>2, <1>3, <1>4, <1>5, NextCases, Zenon

LEMMA CallFields ==
  ASSUME NEW P, NEW B, NEW F, NEW E, NEW c \in [pc : P, bar : B, path : F, end : E], NEW pc \in P
  PROVE  /\ c.pc \in P
         /\ [c EXCEPT !.pc = pc] \in [pc : P, bar : B, path : F, end : E]
         /\ [c EXCEPT !.pc = pc].pc = pc
OBVIOUS

LEMMA NewCall ==
  ASSUME NEW P, NEW B, NEW F, NEW E, NEW pc \in P, NEW bar \in B, NEW path \in F, NEW end \in E
  PROVE  LET c == [pc |-> pc, bar |-> bar, path |-> path, end |-> end] IN
         c \in [pc : P, bar : B, path : F, end : E] /\ c.pc = pc
OBVIOUS

LEMMA IdleFields == Idle.pc = "user" /\ Idle.bar = FALSE
BY DEF Idle

LEMMA PlayingFields ==
  ASSUME NEW of, NEW forces
  PROVE  /\ Playing(of, forces).pc = "replay"
         /\ Playing(of, forces).of = of /\ Playing(of, forces).forces = forces
BY DEF Playing

LEMMA CallStep ==
  ASSUME LogInv, OptionsInv, CallInv, FilesInv, [SimulatorNext]_allVars
  PROVE  CallInv'
<1> DEFINE Goal == CallInv'
<1> SUFFICES Goal
  BY DEF Goal
<1> HIDE DEF Goal
<1>1. ASSUME call' = call, IsFree
      PROVE  Goal
  BY <1>1, Zenon DEF Goal, CallInv, IsFree, Pcs
<1>2. ASSUME call' = call, engine' = engine, log' = log
      PROVE  Goal
  BY <1>2, Zenon DEF Goal, CallInv
<1>3. ASSUME call'.pc = "replay" \/ call' = Idle
      PROVE  Goal
  <2>1. \A x : x \in Pcs => x # "user" /\ x # "replay"
    BY DEF Pcs
  <2>2. call'.pc = "replay" \/ (call'.pc = "user" /\ call'.bar = FALSE)
    BY <1>3, IdleFields, Zenon
  <2>3. call'.pc \notin {"simulate", "done"} /\ call'.pc \notin Pcs
    BY <2>2 DEF Pcs
  <2>4. call'.pc \in Pcs \cup {"user", "replay"} /\ (call'.pc = "user" => call'.bar = FALSE)
    BY <2>2 DEF Pcs
  <2> QED
    BY <2>3, <2>4, Zenon DEF Goal, CallInv
<1>4. ASSUME /\ call' \in Calls
             /\ \/ call'.pc = "failed"
                \/ call'.pc = "simulate" /\ engine'.running
                \/ call'.pc = "done" /\ ~engine'.running /\ log' \in Logs /\ log'.lines = engine'.t + 1
      PROVE  Goal
  <2>1. call'.pc \in Pcs \cup {"user", "replay"} /\ call'.pc # "user"
    BY <1>4, CallFields, SMT DEF Calls, Pcs
  <2>2. "failed" # "simulate" /\ "failed" # "done" /\ "simulate" # "done"
    OBVIOUS
  <2> QED
    BY <1>4, <2>1, <2>2, Zenon DEF Goal, CallInv
<1>5. ASSUME Stop \/ Start \/ StartFails \/ Step PROVE Goal
  <2>1. call' = call /\ IsFree
    BY <1>5, Zenon DEF Stop, Start, StartFails, Step, Advance
  <2> QED
    BY <1>1, <2>1
<1>6. ASSUME NEW end \in 1 .. MaxTime, NEW path \in {None, "data"}, NEW bar \in BOOLEAN,
             Simulate(end, path, bar)
      PROVE  Goal
  <2>1. CASE /\ EngineStarts("simulate")
             /\ call' = [pc |-> "simulate", bar |-> bar, path |-> path, end |-> end]
    <3>1. "simulate" \in Pcs /\ "simulate" \in {"start", "simulate"}
      BY DEF Pcs
    <3>2. call' \in Calls /\ call'.pc = "simulate"
      BY <2>1, <3>1, NewCall, Zenon DEF Calls
    <3>3. engine'.running
      BY <2>1, <3>1, AfterStart, Zenon
    <3> QED
      BY <1>4, <3>2, <3>3
  <2>2. CASE call' = [pc |-> "failed", bar |-> bar, path |-> path, end |-> end]
    <3>1. "failed" \in Pcs
      BY DEF Pcs
    <3>2. call' \in Calls /\ call'.pc = "failed"
      BY <2>2, <3>1, NewCall, Zenon DEF Calls
    <3> QED
      BY <1>4, <3>2
  <2> QED
    BY <1>6, <2>1, <2>2, Zenon DEF Simulate, EngineStarts
<1>7. ASSUME SimulateStep PROVE Goal
  <2>1. EngineAdvances /\ call' = call /\ call.pc = "simulate"
    BY <1>7, Zenon DEF SimulateStep, Advance, EngineAdvances
  <2>2. call' \in Calls /\ call'.pc = "simulate" /\ engine'.running
    <3>1. call.pc \in Pcs
      BY <2>1 DEF Pcs
    <3> QED
      BY <2>1, <3>1, AfterAdvance, Zenon DEF CallInv, EngineAdvances
  <2> QED
    BY <1>4, <2>2
<1>8. ASSUME SimulateStops \/ SimulateRaises PROVE Goal
  <2>1. call.pc = "simulate" /\ "done" \in Pcs /\ "failed" \in Pcs
    BY <1>8 DEF SimulateStops, SimulateRaises, Pcs
  <2>2. call \in Calls /\ engine.running
    <3>1. call.pc \in Pcs
      BY <2>1 DEF Pcs
    <3> QED
      BY <2>1, <3>1, Zenon DEF CallInv
  <2>3. CASE call' = [call EXCEPT !.pc = "failed"]
    <3>1. call' \in Calls /\ call'.pc = "failed"
      BY <2>1, <2>2, <2>3, CallFields, Zenon DEF Calls
    <3> QED
      BY <1>4, <3>1
  <2>4. CASE EngineStops /\ call' = [call EXCEPT !.pc = "done"]
    <3>1. call' \in Calls /\ call'.pc = "done"
      BY <2>1, <2>2, <2>4, CallFields, Zenon DEF Calls
    <3>2. ~engine'.running /\ log' \in Logs /\ log'.lines = engine'.t + 1
      BY <2>2, <2>4, AfterStop, Zenon
    <3> QED
      BY <1>4, <3>1, <3>2
  <2> QED
    BY <1>8, <2>3, <2>4, SMT DEF SimulateStops, SimulateRaises, EngineStops
<1>9. ASSUME SimulateReturns PROVE Goal
  BY <1>3, <1>9, AfterReturn, Zenon
<1>10. ASSUME Replay \/ PlayFile \/ ReplayReturns PROVE Goal
  <2>1. engine' = engine /\ log' = log /\ (call' = call \/ call' = Idle \/ call'.pc = "replay")
    <3>1. \A of, forces : Playing(of, forces).pc = "replay"
      BY PlayingFields, Zenon
    <3>2. ASSUME Replay PROVE engine' = engine /\ log' = log /\ (call' = call \/ call'.pc = "replay")
      BY <3>1, <3>2, Zenon DEF Replay
    <3>3. ASSUME PlayFile PROVE engine' = engine /\ log' = log /\ (call' = call \/ call'.pc = "replay")
      BY <3>1, <3>3, Zenon DEF PlayFile
    <3>4. ASSUME ReplayReturns PROVE engine' = engine /\ log' = log /\ call' = Idle
      BY <3>4, Zenon DEF ReplayReturns
    <3> QED
      BY <1>10, <3>2, <3>3, <3>4, Zenon
  <2> QED
    BY <1>2, <1>3, <2>1, Zenon
<1>11. ASSUME Render \/ CloseWindow \/ Close \/ FigureActions \/ OptionActions \/ UNCHANGED allVars
       PROVE  Goal
  <2>1. call' = call /\ engine' = engine /\ log' = log
    BY <1>11, FigureRests, OptionActionsKeepLogs, Zenon
       DEF Render, CloseWindow, Close, allVars, simVars, Rests
  <2> QED
    BY <1>2, <2>1
<1>12. EngineActions => Goal
  BY <1>5, <1>6, <1>7, <1>8, Zenon DEF EngineActions
<1>13. ViewerActions => Goal
  BY <1>8, <1>10, <1>11, Zenon DEF ViewerActions
<1> QED
  BY <1>9, <1>11, <1>12, <1>13, NextCases, Zenon

LEMMA ViewerFields ==
  ASSUME NEW B, NEW N, NEW v \in [open : B, made : N, forces : N], NEW open \in B, NEW forces \in N
  PROVE  /\ [v EXCEPT !.open = open] \in [open : B, made : N, forces : N]
         /\ [v EXCEPT !.open = open].made = v.made /\ [v EXCEPT !.open = open].forces = v.forces
         /\ [v EXCEPT !.forces = forces] \in [open : B, made : N, forces : N]
         /\ [v EXCEPT !.forces = forces].forces = forces
OBVIOUS

LEMMA NewViewer ==
  ASSUME NEW B, NEW N, NEW open \in B, NEW made \in N, NEW forces \in N
  PROVE  LET v == [open |-> open, made |-> made, forces |-> forces] IN
         v \in [open : B, made : N, forces : N] /\ v.made = made /\ v.forces = forces
OBVIOUS

LEMMA AvailableViewer ==
  ASSUME LogInv, ViewerInv, engine' = engine, viewer' = Available
  PROVE  ViewerInv'
<1>1. CASE IsViewerAvailable
  BY <1>1, Zenon DEF Available, ViewerInv
<1>2. CASE ~IsViewerAvailable
  <2> DEFINE v == [open |-> TRUE, made |-> engine.buffer, forces |-> 0]
  <2>1. viewer' = v
    BY <1>2, Zenon DEF Available, Sliced
  <2>2. engine.buffer \in Nat /\ TRUE \in BOOLEAN /\ 0 \in Nat
    BY EngineFields, Zenon DEF LogInv, Engines
  <2>3. v \in [open : BOOLEAN, made : Nat, forces : Nat] /\ v.made = engine.buffer
    BY <2>2, NewViewer, Zenon
  <2> HIDE DEF v
  <2>4. ~(viewer'.made < engine'.buffer)
    BY <2>1, <2>2, <2>3
  <2> QED
    BY <2>1, <2>3, <2>4, Zenon DEF ViewerInv
<1> QED
  BY <1>1, <1>2

LEMMA AvailableForces ==
    Available.forces = 0 \/ (viewer # None /\ Available.forces = viewer.forces)
<1>1. [open |-> TRUE, made |-> engine.buffer, forces |-> 0].forces = 0
  OBVIOUS
<1> QED
  BY <1>1, Zenon DEF Available, IsViewerAvailable, Sliced

LEMMA ViewerStep ==
  ASSUME LogInv, CallInv, FilesInv, ViewerInv, [SimulatorNext]_allVars
  PROVE  ViewerInv'
<1> DEFINE Goal == ViewerInv'
<1> SUFFICES Goal
  BY DEF Goal
<1> HIDE DEF Goal
<1>1. ASSUME engine' = engine, viewer' = viewer PROVE Goal
  BY <1>1, Zenon DEF Goal, ViewerInv
<1>2. ASSUME viewer' = viewer, ~engine'.running \/ engine'.by = "simulate" PROVE Goal
  <2>1. ~(engine'.running /\ engine'.by = "start")
    BY <1>2
  <2> QED
    BY <1>2, <2>1, Zenon DEF Goal, ViewerInv
<1>3. ASSUME Start PROVE Goal
  <2>1. EngineStarts("start") /\ viewer' = Shared(viewer, engine.buffer + 1)
    BY <1>3, Zenon DEF Start, EngineStarts
  <2>2. engine'.buffer = engine.buffer + 1
    BY <2>1, AfterStart
  <2>3. engine.buffer + 1 \in Nat
    <3>1. engine.buffer \in Nat
      BY EngineFields, Zenon DEF LogInv, Engines
    <3> QED
      BY <3>1
  <2>4. CASE viewer = None
    BY <2>1, <2>4, Zenon DEF Goal, ViewerInv, Shared
  <2>5. CASE viewer # None
    <3>1. viewer' = [viewer EXCEPT !.forces = engine.buffer + 1]
      BY <2>1, <2>5, Zenon DEF Shared
    <3>2. viewer \in [open : BOOLEAN, made : Nat, forces : Nat] /\ TRUE \in BOOLEAN
      BY <2>5, Zenon DEF ViewerInv
    <3>3. /\ viewer' \in [open : BOOLEAN, made : Nat, forces : Nat]
          /\ viewer'.forces = engine'.buffer
      BY <2>2, <2>3, <3>1, <3>2, ViewerFields, Zenon
    <3> QED
      BY <3>3, Zenon DEF Goal, ViewerInv
  <2> QED
    BY <2>4, <2>5
<1>4. ASSUME StartFails PROVE Goal
  <2>1. EngineFails /\ viewer' = viewer
    BY <1>4, Zenon DEF StartFails, EngineFails
  <2> QED
    BY <1>2, <2>1, AfterFail, Zenon
<1>5. ASSUME Stop \/ SimulateStops PROVE Goal
  <2>1. EngineStops /\ viewer' = viewer
    BY <1>5, Zenon DEF Stop, SimulateStops, EngineStops
  <2> QED
    BY <1>2, <2>1, AfterStop, Zenon
<1>6. ASSUME NEW end \in 1 .. MaxTime, NEW path \in {None, "data"}, NEW bar \in BOOLEAN,
             Simulate(end, path, bar)
      PROVE  Goal
  <2>1. (EngineStarts("simulate") \/ EngineStops) /\ viewer' = viewer
    BY <1>6, Zenon DEF Simulate, EngineStarts, EngineStops
  <2>2. "simulate" \in {"start", "simulate"}
    OBVIOUS
  <2>3. ~engine'.running \/ engine'.by = "simulate"
    BY <2>1, <2>2, AfterStart, AfterStop, Zenon
  <2> QED
    BY <1>2, <2>1, <2>3
<1>7. ASSUME Step \/ SimulateStep PROVE Goal
  <2>1. EngineAdvances /\ viewer' = viewer
    BY <1>7, Zenon DEF Step, SimulateStep, Advance, EngineAdvances
  <2>2. engine'.running = engine.running /\ engine'.by = engine.by /\ engine'.buffer = engine.buffer
    BY <2>1, AfterAdvance
  <2> QED
    BY <2>1, <2>2, Zenon DEF Goal, ViewerInv
<1>8. EngineActions => Goal
  BY <1>3, <1>4, <1>5, <1>6, <1>7, Zenon DEF EngineActions
<1>9. ASSUME SimulateReturns \/ FigureActions \/ OptionActions \/ UNCHANGED allVars PROVE Goal
  <2>1. engine' = engine /\ viewer' = viewer
    BY <1>9, AfterReturn, FigureRests, OptionActionsKeepLogs, Zenon DEF allVars, simVars, Rests
  <2> QED
    BY <1>1, <2>1
<1>10. ASSUME Render \/ Replay PROVE Goal
  <2>1. engine' = engine /\ (viewer' = Available \/ viewer' = viewer)
    BY <1>10, Zenon DEF Render, Replay
  <2> QED
    BY <1>1, <2>1, AvailableViewer DEF Goal
<1>11. ASSUME CloseWindow PROVE Goal
  <2>1. engine' = engine /\ viewer # None /\ viewer' = [viewer EXCEPT !.open = FALSE]
    BY <1>11, Zenon DEF CloseWindow, IsViewerAvailable
  <2>2. viewer \in [open : BOOLEAN, made : Nat, forces : Nat] /\ FALSE \in BOOLEAN /\ 0 \in Nat
    BY <2>1, Zenon DEF ViewerInv
  <2>3. /\ viewer' \in [open : BOOLEAN, made : Nat, forces : Nat]
        /\ viewer'.made = viewer.made /\ viewer'.forces = viewer.forces
    BY <2>1, <2>2, ViewerFields, Zenon
  <2> QED
    BY <2>1, <2>3, Zenon DEF Goal, ViewerInv
<1>12. ASSUME Close PROVE Goal
  <2>1. viewer' = None
    BY <1>12, Zenon DEF Close
  <2> QED
    BY <2>1, Zenon DEF Goal, ViewerInv
<1>13. ASSUME PlayFile \/ ReplayReturns \/ SimulateRaises PROVE Goal
  <2>1. engine' = engine /\ viewer' = viewer
    BY <1>13, Zenon DEF PlayFile, ReplayReturns, SimulateRaises
  <2> QED
    BY <1>1, <2>1
<1>14. ViewerActions => Goal
  BY <1>10, <1>11, <1>12, <1>13, Zenon DEF ViewerActions
<1> QED
  BY <1>8, <1>9, <1>14, NextCases, Zenon

---------------------------------------------------------------------------
(* Replays *)

\* The viewer knows no buffer that was not made yet, and if it knows that of the engine then the
\* last log is of the simulation that was started with it.
SharedInv ==
    viewer # None =>
      /\ viewer.forces \in 0 .. engine.buffer
      /\ (viewer.forces # Sliced /\ viewer.forces = engine.buffer) => log.of = engine.buffer

LEMMA SharedStep ==
  ASSUME LogInv, CallInv, FilesInv, ViewerInv, SharedInv, [SimulatorNext]_allVars
  PROVE  SharedInv'
<1> DEFINE Goal == SharedInv'
<1> SUFFICES Goal
  BY DEF Goal
<1> HIDE DEF Goal
<1>0. engine.buffer \in Nat
  BY EngineFields, Zenon DEF LogInv, Engines
\* The log is still of the same simulation, and the viewer is as it was, or new.
<1>1. ASSUME /\ engine'.buffer = engine.buffer /\ (log' = log \/ log'.of = log.of)
             /\ viewer' # None =>
                  \/ viewer'.forces = 0
                  \/ viewer # None /\ viewer'.forces = viewer.forces
      PROVE  Goal
  <2>1. log'.of = log.of
    BY <1>1
  <2>2. ASSUME viewer' # None
        PROVE  /\ viewer'.forces \in 0 .. engine'.buffer
               /\ (viewer'.forces # Sliced /\ viewer'.forces = engine'.buffer) =>
                    log'.of = engine'.buffer
    <3>1. CASE viewer'.forces = 0
      BY <1>0, <1>1, <3>1 DEF Sliced
    <3>2. CASE viewer # None /\ viewer'.forces = viewer.forces
      BY <1>1, <2>1, <3>2 DEF SharedInv
    <3> QED
      BY <1>1, <2>2, <3>1, <3>2
  <2> QED
    BY <2>2, Zenon DEF Goal, SharedInv, Sliced
\* There is a new buffer, of which the viewer is not told unless it is that of the log.
<1>2. ASSUME /\ engine'.buffer = engine.buffer + 1
             /\ viewer' # None =>
                  \/ viewer # None /\ viewer'.forces = viewer.forces
                  \/ viewer'.forces = engine'.buffer /\ log'.of = engine'.buffer
      PROVE  Goal
  <2>1. ASSUME viewer' # None
        PROVE  /\ viewer'.forces \in 0 .. engine'.buffer
               /\ (viewer'.forces # Sliced /\ viewer'.forces = engine'.buffer) =>
                    log'.of = engine'.buffer
    <3>1. CASE viewer # None /\ viewer'.forces = viewer.forces
      <4>1. viewer.forces \in 0 .. engine.buffer
        BY <3>1 DEF SharedInv
      <4> QED
        BY <1>0, <1>2, <3>1, <4>1
    <3>2. CASE viewer'.forces = engine'.buffer /\ log'.of = engine'.buffer
      BY <1>0, <1>2, <3>2
    <3> QED
      BY <1>2, <2>1, <3>1, <3>2
  <2> QED
    BY <2>1, Zenon DEF Goal, SharedInv, Sliced
<1>3. ASSUME Start PROVE Goal
  <2>1. EngineStarts("start") /\ viewer' = Shared(viewer, engine.buffer + 1)
    BY <1>3, Zenon DEF Start, EngineStarts
  <2>2. engine'.buffer = engine.buffer + 1 /\ log'.of = engine'.buffer
    BY <2>1, AfterStart
  <2>3. viewer' # None => viewer'.forces = engine'.buffer
    <3>1. ASSUME viewer' # None PROVE viewer # None /\ viewer' = [viewer EXCEPT !.forces = engine.buffer + 1]
      BY <2>1, <3>1, Zenon DEF Shared
    <3>2. engine.buffer + 1 \in Nat /\ TRUE \in BOOLEAN
      BY <1>0
    <3> QED
      BY <2>2, <3>1, <3>2, ViewerFields, Zenon DEF ViewerInv
  <2> QED
    BY <1>2, <2>1, <2>2, <2>3
<1>4. ASSUME StartFails PROVE Goal
  <2>1. EngineFails /\ viewer' = viewer
    BY <1>4, Zenon DEF StartFails, EngineFails
  <2>2. engine'.buffer = engine.buffer + 1
    BY <2>1, AfterFail, Zenon
  <2> QED
    BY <1>2, <2>1, <2>2
<1>5. ASSUME EngineStops, viewer' = viewer PROVE Goal
  <2>1. engine'.buffer = engine.buffer /\ (log' = log \/ log'.of = log.of)
    BY <1>5, AfterStop, Zenon
  <2> QED
    BY <1>1, <1>5, <2>1, Zenon
<1>6. ASSUME NEW end \in 1 .. MaxTime, NEW path \in {None, "data"}, NEW bar \in BOOLEAN,
             Simulate(end, path, bar)
      PROVE  Goal
  <2>1. (EngineStarts("simulate") \/ EngineStops) /\ viewer' = viewer
    BY <1>6, Zenon DEF Simulate, EngineStarts, EngineStops
  <2>2. ASSUME EngineStarts("simulate") PROVE Goal
    <3>1. "simulate" \in {"start", "simulate"}
      OBVIOUS
    <3>2. engine'.buffer = engine.buffer + 1
      BY <2>2, <3>1, AfterStart
    <3> QED
      BY <1>2, <2>1, <3>2
  <2> QED
    BY <1>5, <2>1, <2>2, Zenon
<1>7. ASSUME Stop \/ SimulateStops PROVE Goal
  <2>1. EngineStops /\ viewer' = viewer
    BY <1>7, Zenon DEF Stop, SimulateStops, EngineStops
  <2> QED
    BY <1>5, <2>1
<1>8. ASSUME Step \/ SimulateStep PROVE Goal
  <2>1. EngineAdvances /\ viewer' = viewer
    BY <1>8, Zenon DEF Step, SimulateStep, Advance, EngineAdvances
  <2>2. engine'.buffer = engine.buffer /\ log'.of = log.of
    BY <2>1, AfterAdvance, Zenon
  <2> QED
    BY <1>1, <2>1, <2>2, Zenon
<1>9. EngineActions => Goal
  BY <1>3, <1>4, <1>6, <1>7, <1>8, Zenon DEF EngineActions
<1>10. ASSUME SimulateReturns \/ FigureActions \/ OptionActions \/ UNCHANGED allVars PROVE Goal
  <2>1. engine' = engine /\ viewer' = viewer /\ log' = log
    BY <1>10, AfterReturn, FigureRests, OptionActionsKeepLogs, Zenon DEF allVars, simVars, Rests
  <2> QED
    BY <1>1, <2>1, Zenon
<1>11. ASSUME ViewerActions PROVE Goal
  <2>1. engine'.buffer = engine.buffer /\ log' = log
    BY <1>11, ViewerRests, Zenon DEF Rests
  <2>2. ASSUME viewer' # None
        PROVE  viewer'.forces = 0 \/ (viewer # None /\ viewer'.forces = viewer.forces)
    <3>1. CASE viewer' = viewer
      BY <2>2, <3>1
    <3>2. CASE viewer' = Available
      BY <3>2, AvailableForces, Zenon
    <3>3. CASE viewer # None /\ viewer' = [viewer EXCEPT !.open = FALSE]
      BY <3>3, ViewerFields, Zenon DEF ViewerInv
    <3>4. \/ viewer' = viewer \/ viewer' = Available \/ viewer' = None
          \/ viewer # None /\ viewer' = [viewer EXCEPT !.open = FALSE]
      BY <1>11, Zenon DEF ViewerActions, Render, CloseWindow, IsViewerAvailable, Close, Replay,
                          PlayFile, ReplayReturns, SimulateRaises
    <3> QED
      BY <2>2, <3>1, <3>2, <3>3, <3>4, Zenon
  <2> QED
    BY <1>1, <2>1, <2>2, Zenon
<1> QED
  BY <1>9, <1>10, <1>11, NextCases, Zenon

LEMMA ReplayStep ==
  ASSUME LogInv, CallInv, FilesInv, SharedInv, ReplayWritesItsOwn, [SimulatorNext]_allVars
  PROVE  ReplayWritesItsOwn'
<1> DEFINE Goal == ReplayWritesItsOwn'
<1> SUFFICES Goal
  BY DEF Goal
<1> HIDE DEF Goal
<1>0. engine.buffer \in Nat
  BY EngineFields, Zenon DEF LogInv, Engines
<1>1. ASSUME call'.pc # "replay" PROVE Goal
  BY <1>1, Zenon DEF Goal, ReplayWritesItsOwn
<1>2. ASSUME call' = call, engine' = engine PROVE Goal
  BY <1>2, Zenon DEF Goal, ReplayWritesItsOwn
<1>3. ASSUME Replay PROVE Goal
  <2>1. /\ log # None /\ engine' = engine
        /\ call' = Playing(log.of, Available.forces) \/ call' = call
    BY <1>3, Zenon DEF Replay
  <2>2. CASE call' = Playing(log.of, Available.forces)
    <3>1. call'.of = log.of /\ call'.forces = Available.forces
      BY <2>2, PlayingFields, Zenon
    <3>2. (Available.forces # Sliced /\ Available.forces = engine.buffer) => log.of = engine.buffer
      BY AvailableForces, SMT DEF SharedInv, Sliced
    <3> QED
      BY <2>1, <3>1, <3>2, Zenon DEF Goal, ReplayWritesItsOwn
  <2> QED
    BY <1>2, <2>1, <2>2
<1>4. ASSUME PlayFile PROVE Goal
  <2>1. call' = Playing(None, Sliced)
    BY <1>4, Zenon DEF PlayFile
  <2>2. call'.forces = Sliced
    BY <2>1, PlayingFields, Zenon
  <2> QED
    BY <2>2, Zenon DEF Goal, ReplayWritesItsOwn
<1>5. ASSUME ReplayReturns \/ SimulateReturns PROVE Goal
  <2>1. call' = Idle
    BY <1>5, Zenon DEF ReplayReturns, SimulateReturns, Returned
  <2> QED
    BY <1>1, <2>1 DEF Idle
<1>6. ASSUME EngineActions \/ SimulateRaises PROVE Goal
  <2>1. call.pc # "replay"
    BY <1>6 DEF EngineActions, Stop, Start, StartFails, Step, Simulate, SimulateStep, SimulateStops,
                SimulateRaises, IsFree
  <2>2. CASE call' = call
    BY <1>1, <2>1, <2>2
  <2>3. CASE call' # call
    <3>1. CASE SimulateStops \/ SimulateRaises
      <4>1. call.pc = "simulate" /\ call.pc \in Pcs
        BY <3>1 DEF SimulateStops, SimulateRaises, Pcs
      <4>2. call \in Calls /\ "done" \in Pcs /\ "failed" \in Pcs
        BY <4>1 DEF CallInv, Pcs
      <4>3. call' = [call EXCEPT !.pc = "done"] \/ call' = [call EXCEPT !.pc = "failed"]
        BY <3>1 DEF SimulateStops, SimulateRaises
      <4>4. call'.pc = "done" \/ call'.pc = "failed"
        <5>1. [call EXCEPT !.pc = "done"].pc = "done" /\ [call EXCEPT !.pc = "failed"].pc = "failed"
          BY <4>2, CallFields, Zenon DEF Calls
        <5> QED
          BY <4>3, <5>1, Zenon
      <4> QED
        BY <1>1, <4>4
    <3>2. ASSUME NEW end \in 1 .. MaxTime, NEW path \in {None, "data"}, NEW bar \in BOOLEAN,
                 Simulate(end, path, bar)
          PROVE  Goal
      <4>1. call'.pc = "simulate" \/ call'.pc = "failed"
        BY <3>2 DEF Simulate
      <4> QED
        BY <1>1, <4>1
    <3>3. ~(Stop \/ Start \/ StartFails \/ Step \/ SimulateStep)
      BY <2>3, Zenon DEF Stop, Start, StartFails, Step, SimulateStep, Advance
    <3> QED
      BY <1>6, <3>1, <3>2, <3>3, Zenon DEF EngineActions
  <2> QED
    BY <2>2, <2>3
<1>7. ASSUME Render \/ CloseWindow \/ Close \/ FigureActions \/ OptionActions \/ UNCHANGED allVars
      PROVE  Goal
  <2>1. call' = call /\ engine' = engine
    BY <1>7, FigureRests, OptionActionsKeepLogs, Zenon
       DEF Render, CloseWindow, Close, allVars, simVars, Rests
  <2> QED
    BY <1>2, <2>1
<1>8. ViewerActions => Goal
  BY <1>3, <1>4, <1>5, <1>6, <1>7, Zenon DEF ViewerActions
<1> QED
  BY <1>5, <1>6, <1>7, <1>8, NextCases, Zenon

---------------------------------------------------------------------------
(* The figure *)

TabNames == Names \cup StateGroups \cup SensorGroups
Tabs(n) == Seq([name : TabNames, id : 1 .. n])
Views == Seq(Nat \X Nat)

FigureTypes ==
    /\ isOpen \in BOOLEAN /\ reused \in BOOLEAN /\ broken \in BOOLEAN
    /\ created \in Nat /\ tabs \in Tabs(created)
    /\ active \in Nat \cup {None} /\ shown \subseteq Nat
    /\ views \in Views /\ saved \in [1 .. created -> Views] /\ zoomed \in [1 .. created -> Views]

IdsOf(ts) == {ts[i].id : i \in DOMAIN ts}
Distinct(ts) == \A i, j \in DOMAIN ts : ts[i].id = ts[j].id => i = j

\* A tab has the name `name' if it is that of the number `id'.
IsNamed(ts, id, name) == \A i \in DOMAIN ts : ts[i].id = id => ts[i].name = name

\* What the user set is in the toolbar for the tab that is displayed, and kept for the others.
KeepsViews(ids, current, nav, kept, set) ==
    IF SyncTabs THEN \A id \in ids : set[id] = nav
    ELSE \A id \in ids : set[id] = IF id = current THEN nav ELSE kept[id]

ShownInv ==
    (isOpen /\ ~reused) =>
      /\ ~broken /\ buttons = IdsOf(tabs) /\ Distinct(tabs)
      /\ tabs = <<>> => /\ shown = {} /\ title = None /\ legend = None /\ refAx = None
                        /\ active = None => views = <<>>
      /\ tabs # <<>> => /\ active \in IdsOf(tabs) /\ shown = {active} /\ legend = active
                        /\ IsNamed(tabs, active, title)
                        /\ refAx # None => refAx \in IdsOf(tabs)
                        /\ KeepsViews(IdsOf(tabs), active, views, saved, zoomed)

LEMMA RemovedAt ==
  ASSUME NEW S, NEW ts \in Seq(S), NEW p \in DOMAIN ts
  PROVE  /\ RemoveAt(ts, p) \in Seq(S) /\ Len(RemoveAt(ts, p)) = Len(ts) - 1
         /\ \A i \in 1 .. Len(ts) - 1 : RemoveAt(ts, p)[i] = IF i < p THEN ts[i] ELSE ts[i + 1]
<1> DEFINE n == Len(ts)  s1 == SubSeq(ts, 1, p - 1)  s2 == SubSeq(ts, p + 1, n)
<1>1. n \in Nat /\ p \in Int /\ 1 <= p /\ p <= n /\ p - 1 \in Int /\ p + 1 \in Int /\ \A i \in 1 .. n : ts[i] \in S
  OBVIOUS
<1> HIDE DEF n
<1>2. /\ s1 \in Seq(S) /\ Len(s1) = p - 1
      /\ \A i \in 1 .. p - 1 : s1[i] = ts[i]
  <2>1. \A i \in 1 .. p - 1 : ts[i] \in S
    BY <1>1
  <2>2. /\ s1 \in Seq(S) /\ Len(s1) = IF 1 <= p - 1 THEN p - 1 - 1 + 1 ELSE 0
        /\ \A i \in 1 .. p - 1 - 1 + 1 : s1[i] = ts[1 + i - 1]
    BY <1>1, <2>1, SubSeqProperties
  <2> HIDE DEF s1
  <2> QED
    BY <1>1, <2>2
<1>3. /\ s2 \in Seq(S) /\ Len(s2) = n - p
      /\ \A i \in 1 .. n - p : s2[i] = ts[p + i]
  <2>1. \A i \in p + 1 .. n : ts[i] \in S
    BY <1>1
  <2>2. /\ s2 \in Seq(S) /\ Len(s2) = IF p + 1 <= n THEN n - (p + 1) + 1 ELSE 0
        /\ \A i \in 1 .. n - (p + 1) + 1 : s2[i] = ts[p + 1 + i - 1]
    BY <1>1, <2>1, SubSeqProperties
  <2> HIDE DEF s2
  <2>3. n - (p + 1) + 1 = n - p /\ (p + 1 <= n => n - p >= 1) /\ (~(p + 1 <= n) => n - p = 0)
    BY <1>1
  <2>4. \A i \in 1 .. n - p : p + 1 + i - 1 = p + i
    BY <1>1
  <2>5. Len(s2) = n - p
    BY <2>2, <2>3, Zenon
  <2>6. \A i \in 1 .. n - p : s2[i] = ts[p + i]
    BY <2>2, <2>3, <2>4, Zenon
  <2> QED
    BY <2>2, <2>5, <2>6, Zenon
<1>4. RemoveAt(ts, p) = s1 \o s2
  BY DEF RemoveAt, n
<1> HIDE DEF s1, s2
<1>5. /\ s1 \o s2 \in Seq(S) /\ Len(s1 \o s2) = Len(s1) + Len(s2)
      /\ \A i \in 1 .. Len(s1) + Len(s2) : (s1 \o s2)[i] =
           IF i <= Len(s1) THEN s1[i] ELSE s2[i - Len(s1)]
  BY <1>2, <1>3, ConcatProperties
<1> DEFINE left == s1 \o s2
<1>6. /\ left \in Seq(S) /\ Len(left) = n - 1
      /\ \A i \in 1 .. n - 1 : left[i] = IF i <= p - 1 THEN s1[i] ELSE s2[i - (p - 1)]
  <2>1. p - 1 + (n - p) = n - 1
    BY <1>1
  <2> QED
    BY <1>2, <1>3, <1>5, <2>1, Zenon
<1> HIDE DEF left
<1>7. ASSUME NEW i \in 1 .. n - 1 PROVE left[i] = IF i < p THEN ts[i] ELSE ts[i + 1]
  <2>1. i \in Int /\ i >= 1 /\ i <= n - 1
    BY <1>1
  <2>2. CASE i < p
    <3>1. i <= p - 1 /\ i \in 1 .. p - 1
      BY <1>1, <2>1, <2>2
    <3> QED
      BY <1>2, <1>6, <2>2, <3>1, Zenon
  <2>3. CASE ~(i < p)
    <3>1. /\ i - (p - 1) \in 1 .. n - p /\ p + (i - (p - 1)) = i + 1
          /\ ~(i <= p - 1)
      BY <1>1, <2>1, <2>3
    <3> QED
      BY <1>3, <1>6, <2>3, <3>1, Zenon
  <2> QED
    BY <2>2, <2>3
<1> QED
  BY <1>4, <1>6, <1>7, Zenon DEF n, left

\* What is left of the tabs when the one at p is removed.
LEMMA LeftTabs ==
  ASSUME NEW n, NEW ts \in Tabs(n), NEW p \in DOMAIN ts
  PROVE  LET left == RemoveAt(ts, p) IN
         /\ left \in Tabs(n) /\ IdsOf(left) \subseteq IdsOf(ts)
         /\ Distinct(ts) => Distinct(left) /\ IdsOf(left) = IdsOf(ts) \ {ts[p].id}
         /\ \A id, name : IsNamed(ts, id, name) => IsNamed(left, id, name)
         /\ left # <<>> => 1 \in DOMAIN left
<1> DEFINE S == [name : TabNames, id : 1 .. n]  left == RemoveAt(ts, p)
<1>0. ts \in Seq(S)
  BY DEF Tabs
<1> HIDE DEF S
<1>1. /\ left \in Seq(S) /\ Len(left) = Len(ts) - 1
      /\ \A i \in 1 .. Len(ts) - 1 : left[i] = IF i < p THEN ts[i] ELSE ts[i + 1]
  BY <1>0, RemovedAt
<1> HIDE DEF left
<1>2. /\ DOMAIN ts = 1 .. Len(ts) /\ DOMAIN left = 1 .. Len(ts) - 1
      /\ Len(ts) \in Nat /\ p \in 1 .. Len(ts)
  BY <1>0, <1>1
<1>3. ASSUME NEW i \in DOMAIN left
      PROVE  \E j \in DOMAIN ts : /\ left[i] = ts[j] /\ j # p
                                   /\ j = IF i < p THEN i ELSE i + 1
  BY <1>1, <1>2
<1>4. ASSUME NEW j \in DOMAIN ts, j # p
      PROVE  \E i \in DOMAIN left : left[i] = ts[j]
  <2>1. CASE j < p
    <3>1. j \in DOMAIN left
      BY <1>2, <2>1
    <3> QED
      BY <1>1, <1>2, <2>1, <3>1
  <2>2. CASE j > p
    <3>1. j - 1 \in DOMAIN left /\ ~(j - 1 < p) /\ j - 1 + 1 = j
      BY <1>2, <2>2
    <3>2. left[j - 1] = ts[j - 1 + 1]
      BY <1>1, <1>2, <3>1
    <3> QED
      BY <3>1, <3>2
  <2> QED
    BY <1>2, <1>4, <2>1, <2>2
<1>5. IdsOf(left) \subseteq IdsOf(ts)
  BY <1>3 DEF IdsOf
<1>6. ASSUME Distinct(ts) PROVE IdsOf(left) = IdsOf(ts) \ {ts[p].id}
  <2>1. ASSUME NEW i \in DOMAIN left PROVE left[i].id # ts[p].id
    <3>1. PICK j \in DOMAIN ts : left[i] = ts[j] /\ j # p
      BY <1>3
    <3> QED
      BY <1>6, <3>1 DEF Distinct
  <2>2. ASSUME NEW j \in DOMAIN ts, ts[j].id # ts[p].id PROVE ts[j].id \in IdsOf(left)
    BY <1>4, <2>2 DEF IdsOf
  <2> QED
    BY <1>5, <2>1, <2>2 DEF IdsOf
<1>7. ASSUME Distinct(ts) PROVE Distinct(left)
  <2> SUFFICES ASSUME NEW a \in DOMAIN left, NEW b \in DOMAIN left, left[a].id = left[b].id
               PROVE  a = b
    BY DEF Distinct
  <2>1. PICK i \in DOMAIN ts : left[a] = ts[i] /\ i # p /\ i = IF a < p THEN a ELSE a + 1
    BY <1>3
  <2>2. PICK j \in DOMAIN ts : left[b] = ts[j] /\ j # p /\ j = IF b < p THEN b ELSE b + 1
    BY <1>3
  <2>3. i = j
    BY <1>7, <2>1, <2>2 DEF Distinct
  <2> QED
    BY <1>2, <2>1, <2>2, <2>3
<1>8. \A id, name : IsNamed(ts, id, name) => IsNamed(left, id, name)
  BY <1>3 DEF IsNamed
<1>9. left # <<>> => 1 \in DOMAIN left
  BY <1>1, <1>2
<1> SUFFICES /\ left \in Tabs(n) /\ IdsOf(left) \subseteq IdsOf(ts)
             /\ Distinct(ts) => Distinct(left) /\ IdsOf(left) = IdsOf(ts) \ {ts[p].id}
             /\ \A id, name : IsNamed(ts, id, name) => IsNamed(left, id, name)
             /\ left # <<>> => 1 \in DOMAIN left
  BY DEF left
<1> QED
  BY <1>1, <1>5, <1>6, <1>7, <1>8, <1>9, Zenon DEF S, Tabs

\* Making the tab `id' active keeps the views of the tab that is left, and brings back its own.
LEMMA BackedUpViews ==
  ASSUME NEW n, NEW nav \in Views, NEW kept \in [1 .. n -> Views],
         NEW ids \in SUBSET (1 .. n), NEW old, NEW id \in ids, NEW set
  PROVE  LET backed == BackedUp(old, kept, nav, ids) IN
         /\ backed \in [1 .. n -> Views] /\ backed[id] \in Views
         /\ KeepsViews(ids, old, nav, kept, set) => KeepsViews(ids, id, backed[id], backed, set)
<1> DEFINE backed == BackedUp(old, kept, nav, ids)
<1>1. \A i \in 1 .. n : backed[i] = IF i \in ids /\ (SyncTabs \/ i = old) THEN nav ELSE kept[i]
  BY DEF BackedUp
<1>2. backed \in [1 .. n -> Views]
  BY DEF BackedUp
<1> HIDE DEF backed
<1>3. ASSUME KeepsViews(ids, old, nav, kept, set)
      PROVE  KeepsViews(ids, id, backed[id], backed, set)
  <2>1. CASE SyncTabs
    <3>1. backed[id] = nav
      BY <1>1, <2>1
    <3> QED
      BY <1>3, <2>1, <3>1, Zenon DEF KeepsViews
  <2>2. CASE ~SyncTabs
    <3>1. \A i \in ids : set[i] = IF i = old THEN nav ELSE kept[i]
      BY <1>3, <2>2, Zenon DEF KeepsViews
    <3>2. \A i \in ids : backed[i] = IF i = old THEN nav ELSE kept[i]
      BY <1>1, <2>2
    <3>3. \A i \in ids : set[i] = backed[i]
      BY <3>1, <3>2, Zenon
    <3> QED
      BY <2>2, <3>3, Zenon DEF KeepsViews
  <2> QED
    BY <2>1, <2>2
<1> QED
  BY <1>2, <1>3 DEF backed

LEMMA TabsAreTyped ==
  ASSUME NEW n \in Nat, NEW ts \in Tabs(n)
  PROVE  /\ IdsOf(ts) \subseteq 1 .. n /\ IdsOf(ts) \subseteq Nat
         /\ \A i \in DOMAIN ts : ts[i].id \in 1 .. n /\ ts[i].id \in IdsOf(ts)
         /\ DOMAIN ts = 1 .. Len(ts) /\ Len(ts) \in Nat
         /\ ts # <<>> => 1 \in DOMAIN ts /\ Len(ts) \in DOMAIN ts
<1> DEFINE S == [name : TabNames, id : 1 .. n]
<1>1. ts \in Seq(S)
  BY DEF Tabs
<1> HIDE DEF S
<1>2. DOMAIN ts = 1 .. Len(ts) /\ Len(ts) \in Nat /\ \A i \in DOMAIN ts : ts[i] \in S
  BY <1>1
<1>3. ts # <<>> => 1 \in DOMAIN ts /\ Len(ts) \in DOMAIN ts
  BY <1>1, <1>2
<1>4. \A i \in DOMAIN ts : ts[i].id \in 1 .. n
  BY <1>2 DEF S
<1> QED
  BY <1>2, <1>3, <1>4 DEF IdsOf

\* The properties of the figure, of the values that its variables take.
ShownOf(ts, act, in, title_, legend_, ref, nav, kept, set, buttons_) ==
    /\ buttons_ = IdsOf(ts) /\ Distinct(ts)
    /\ ts = <<>> => /\ in = {} /\ title_ = None /\ legend_ = None /\ ref = None
                    /\ act = None => nav = <<>>
    /\ ts # <<>> => /\ act \in IdsOf(ts) /\ in = {act} /\ legend_ = act
                    /\ IsNamed(ts, act, title_)
                    /\ ref # None => ref \in IdsOf(ts)
                    /\ KeepsViews(IdsOf(ts), act, nav, kept, set)

LEMMA ShownIsShownOf ==
  ShownInv <=> ((isOpen /\ ~reused) =>
     ~broken /\ ShownOf(tabs, active, shown, title, legend, refAx, views, saved, zoomed, buttons))
BY Zenon DEF ShownInv, ShownOf

LEMMA SwitchTypes ==
  ASSUME FigureTypes, NEW ids \in SUBSET (1 .. created), NEW id \in ids, NEW name,
         Switched(id, name, ids)
  PROVE  /\ broken' \in BOOLEAN /\ active' \in Nat \cup {None} /\ shown' \subseteq Nat
         /\ views' \in Views /\ saved' \in [1 .. created -> Views]
         /\ zoomed' = zoomed
<1>1. CASE active \notin shown
  BY <1>1, Zenon DEF Switched, FigureTypes, display, history
<1>2. CASE active \in shown
  <2>1. /\ saved' = BackedUp(active, saved, views, ids) /\ views' = saved'[id]
        /\ active' = id /\ shown' = (shown \ {active}) \cup {id}
        /\ zoomed' = zoomed /\ broken' = broken
    BY <1>2, Zenon DEF Switched
  <2>2. saved' \in [1 .. created -> Views] /\ views' \in Views
    BY <2>1, BackedUpViews, Zenon DEF FigureTypes
  <2>3. id \in Nat
    BY DEF FigureTypes
  <2> QED
    BY <2>1, <2>2, <2>3, Zenon DEF FigureTypes
<1> QED
  BY <1>1, <1>2

LEMMA SwitchShows ==
  ASSUME FigureTypes, NEW ids \in SUBSET (1 .. created), NEW id \in ids, NEW name,
         Switched(id, name, ids), shown = {active}, KeepsViews(ids, active, views, saved, zoomed)
  PROVE  /\ broken' = broken /\ active' = id /\ shown' = {id} /\ title' = name /\ legend' = id
         /\ KeepsViews(ids, id, views', saved', zoomed')
<1>1. /\ saved' = BackedUp(active, saved, views, ids) /\ views' = saved'[id]
      /\ active' = id /\ shown' = (shown \ {active}) \cup {id} /\ title' = name /\ legend' = id
      /\ zoomed' = zoomed /\ broken' = broken
  BY Zenon DEF Switched
<1>2. KeepsViews(ids, id, views', saved', zoomed')
  BY <1>1, BackedUpViews, Zenon DEF FigureTypes
<1>3. shown' = {id}
  BY <1>1
<1> QED
  BY <1>1, <1>2, <1>3, Zenon

FigureInv == FigureTypes /\ ShownInv

LEMMA NoTabs ==
  /\ <<>> \in Tabs(0) /\ <<>> \in Views /\ <<>> \in [1 .. 0 -> Views]
  /\ IdsOf(<<>>) = {} /\ Distinct(<<>>)
BY DEF Tabs, Views, IdsOf, Distinct

LEMMA EmptyFigureInv == ASSUME EmptyFigure, isOpen' \in BOOLEAN PROVE FigureInv'
<1>1. /\ tabs' = <<>> /\ created' = 0 /\ active' = None /\ shown' = {} /\ buttons' = {}
      /\ title' = None /\ legend' = None /\ refAx' = None /\ views' = <<>> /\ saved' = <<>>
      /\ zoomed' = <<>> /\ reused' = FALSE /\ broken' = FALSE
  BY Zenon DEF EmptyFigure
<1>2. FigureTypes'
  <2>1. 0 \in Nat /\ FALSE \in BOOLEAN /\ {} \subseteq Nat
    OBVIOUS
  <2> QED
    BY <1>1, <2>1, NoTabs, Zenon DEF FigureTypes
<1>3. ShownInv'
  BY <1>1, NoTabs, Zenon DEF ShownInv
<1> QED
  BY <1>2, <1>3 DEF FigureInv

\* Where nothing of what the properties are about has changed.
LEMMA FigureKept == ASSUME FigureInv, UNCHANGED figure PROVE FigureInv'
BY Zenon DEF FigureInv, FigureTypes, ShownInv, figure, display, history

LEMMA SetActiveInv ==
  ASSUME FigureInv, NEW id \in TabIds, NEW name, Switched(id, name, TabIds),
         IsNamed(tabs, id, name) \/ reused,
         UNCHANGED <<isOpen, tabs, created, buttons, refAx, reused>>
  PROVE  FigureInv'
<1>1. TabIds = IdsOf(tabs) /\ IdsOf(tabs) \in SUBSET (1 .. created)
  <2>1. IdsOf(tabs) \subseteq 1 .. created
    BY TabsAreTyped, Zenon DEF FigureInv, FigureTypes
  <2> QED
    BY <2>1 DEF TabIds, IdsOf
<1>2. FigureTypes'
  BY <1>1, SwitchTypes, Zenon DEF FigureInv, FigureTypes
<1>3. ASSUME isOpen', ~reused' PROVE /\ ~broken' /\ ShownOf(tabs', active', shown', title', legend', refAx', views', saved', zoomed', buttons')
  <2>1. /\ ~broken
        /\ ShownOf(tabs, active, shown, title, legend, refAx, views, saved, zoomed, buttons)
        /\ IsNamed(tabs, id, name)
    BY <1>3, ShownIsShownOf, Zenon DEF FigureInv
  <2>2. tabs # <<>>
    BY <1>1, NoTabs
  <2>3. shown = {active} /\ KeepsViews(IdsOf(tabs), active, views, saved, zoomed)
    BY <2>1, <2>2, Zenon DEF ShownOf
  <2>4. /\ broken' = broken /\ active' = id /\ shown' = {id} /\ title' = name /\ legend' = id
        /\ KeepsViews(IdsOf(tabs), id, views', saved', zoomed')
    BY <1>1, <2>3, SwitchShows, Zenon DEF FigureInv
  <2> QED
    BY <1>1, <2>1, <2>2, <2>4, Zenon DEF ShownOf
<1>4. ShownInv'
  BY <1>3, Zenon DEF ShownInv, ShownOf
<1> QED
  BY <1>2, <1>4 DEF FigureInv

LEMMA NameOfTab ==
  ASSUME NEW id \in TabIds, Distinct(tabs)
  PROVE  IsNamed(tabs, id, NameOf(id))
<1> DEFINE p == CHOOSE i \in DOMAIN tabs : tabs[i].id = id
<1>1. p \in DOMAIN tabs /\ tabs[p].id = id
  BY DEF TabIds
<1>2. NameOf(id) = tabs[p].name
  BY DEF NameOf
<1> HIDE DEF p
<1> QED
  BY <1>1, <1>2 DEF Distinct, IsNamed

LEMMA IdOfTab ==
  ASSUME NEW name, HasName(name), Distinct(tabs)
  PROVE  IsNamed(tabs, IdOf(name), name)
<1> DEFINE p == CHOOSE i \in DOMAIN tabs : tabs[i].name = name
<1>1. p \in DOMAIN tabs /\ tabs[p].name = name
  BY DEF HasName
<1>2. IdOf(name) = tabs[p].id
  BY DEF IdOf
<1> HIDE DEF p
<1> QED
  BY <1>1, <1>2 DEF Distinct, IsNamed

LEMMA IdOfIsATab == ASSUME NEW name, HasName(name) PROVE IdOf(name) \in TabIds
BY DEF HasName, IdOf, TabIds

LEMMA ClickInv == ASSUME FigureInv, NEW id, Click(id) PROVE FigureInv'
<1>1. /\ id \in buttons /\ UNCHANGED <<isOpen, tabs, created, buttons, refAx, reused>>
      /\ IF id \in TabIds THEN Switched(id, NameOf(id), TabIds)
                          ELSE broken' = TRUE /\ UNCHANGED <<display, history>>
      /\ isOpen
  BY Zenon DEF Click
<1>2. ~reused => /\ buttons = IdsOf(tabs) /\ Distinct(tabs)
  BY <1>1, Zenon DEF FigureInv, ShownInv
<1>3. CASE id \in TabIds
  <2>1. IsNamed(tabs, id, NameOf(id)) \/ reused
    BY <1>2, <1>3, NameOfTab, Zenon
  <2> QED
    BY <1>1, <1>3, <2>1, SetActiveInv, Zenon
<1>4. CASE id \notin TabIds
  <2>1. reused
    BY <1>1, <1>2, <1>4 DEF TabIds, IdsOf
  <2>2. broken' = TRUE /\ UNCHANGED <<display, history>> /\ TRUE \in BOOLEAN
    BY <1>1, <1>4, Zenon
  <2> QED
    BY <1>1, <2>1, <2>2, Zenon DEF FigureInv, FigureTypes, ShownInv, display, history
<1> QED
  BY <1>3, <1>4

LEMMA SetActiveTabInv == ASSUME FigureInv, NEW name, SetActiveTab(name) PROVE FigureInv'
<1>1. /\ Switched(IdOf(name), name, TabIds) /\ HasName(name) /\ isOpen
      /\ UNCHANGED <<isOpen, tabs, created, buttons, refAx, reused>>
  BY Zenon DEF SetActiveTab
<1>2. ~reused => Distinct(tabs)
  BY <1>1, Zenon DEF FigureInv, ShownInv
<1>3. IsNamed(tabs, IdOf(name), name) \/ reused
  BY <1>1, <1>2, IdOfTab, Zenon
<1>4. IdOf(name) \in TabIds
  BY <1>1, IdOfIsATab, Zenon
<1> QED
  BY <1>1, <1>3, <1>4, SetActiveInv, Zenon

LEMMA ZoomInv == ASSUME FigureInv, Zoom PROVE FigureInv'
<1>1. /\ active \in shown /\ views' = Append(views, <<active, Len(views) + 1>>)
      /\ zoomed' = [id \in DOMAIN zoomed |->
                      IF SyncTabs \/ id = active THEN views' ELSE zoomed[id]]
      /\ isOpen' = isOpen /\ tabs' = tabs /\ created' = created /\ active' = active
      /\ shown' = shown /\ title' = title /\ legend' = legend /\ buttons' = buttons
      /\ refAx' = refAx /\ saved' = saved /\ reused' = reused /\ broken' = broken
  BY Zenon DEF Zoom, display
<1>2. views' \in Views
  <2>1. active \in Nat /\ views \in Seq(Nat \X Nat) /\ Len(views) + 1 \in Nat
    BY <1>1 DEF FigureInv, FigureTypes, Views
  <2>2. <<active, Len(views) + 1>> \in Nat \X Nat
    BY <2>1
  <2> QED
    BY <1>1, <2>1, <2>2, AppendProperties, Zenon DEF Views
<1>3. /\ zoomed' \in [1 .. created -> Views]
      /\ \A id \in 1 .. created : zoomed'[id] = IF SyncTabs \/ id = active THEN views' ELSE zoomed[id]
  <2>1. zoomed \in [1 .. created -> Views]
    BY Zenon DEF FigureInv, FigureTypes
  <2> QED
    BY <1>1, <1>2, <2>1
<1>4. FigureTypes'
  BY <1>1, <1>2, <1>3, Zenon DEF FigureInv, FigureTypes
<1>5. IdsOf(tabs) \subseteq 1 .. created
  BY TabsAreTyped, Zenon DEF FigureInv, FigureTypes
<1>6. ASSUME KeepsViews(IdsOf(tabs), active, views, saved, zoomed)
      PROVE  KeepsViews(IdsOf(tabs), active, views', saved, zoomed')
  <2>1. CASE SyncTabs
    BY <1>3, <1>5, <2>1 DEF KeepsViews
  <2>2. CASE ~SyncTabs
    BY <1>3, <1>5, <1>6, <2>2 DEF KeepsViews
  <2> QED
    BY <2>1, <2>2
<1>7. ShownInv'
  <2>1. shown # {}
    BY <1>1
  <2> QED
    BY <1>1, <1>6, <2>1, Zenon DEF FigureInv, ShownInv
<1> QED
  BY <1>4, <1>7 DEF FigureInv

LEMMA AppendedTab ==
  ASSUME NEW n \in Nat, NEW ts \in Tabs(n), NEW name \in TabNames
  PROVE  LET tab == [name |-> name, id |-> n + 1]
             more == Append(ts, tab)
         IN  /\ tab \in [name : TabNames, id : 1 .. n + 1]
             /\ ts \in Tabs(n + 1) /\ more \in Tabs(n + 1) /\ more # <<>>
             /\ IdsOf(more) = IdsOf(ts) \cup {n + 1}
             /\ Distinct(ts) => Distinct(more)
             /\ \A id \in IdsOf(ts) : \A title_ : IsNamed(ts, id, title_) => IsNamed(more, id, title_)
             /\ IsNamed(more, n + 1, name)
<1> DEFINE tab == [name |-> name, id |-> n + 1]  more == Append(ts, tab)
           S == [name : TabNames, id : 1 .. n + 1]
<1>1. tab \in S /\ tab.name = name /\ tab.id = n + 1
  OBVIOUS
<1>2. ts \in Seq(S)
  <2>1. ts \in Seq([name : TabNames, id : 1 .. n])
    BY DEF Tabs
  <2>2. [name : TabNames, id : 1 .. n] \subseteq S
    OBVIOUS
  <2> HIDE DEF S
  <2> QED
    BY <2>1, <2>2, SeqMonotonic
<1> HIDE DEF S, tab
<1>3. /\ more \in Seq(S) /\ more # <<>> /\ Len(more) = Len(ts) + 1
      /\ \A i \in 1 .. Len(ts) : more[i] = ts[i]
      /\ more[Len(ts) + 1] = tab
  BY <1>1, <1>2, AppendProperties
<1> HIDE DEF more
<1>4. /\ DOMAIN ts = 1 .. Len(ts) /\ DOMAIN more = 1 .. Len(ts) + 1 /\ Len(ts) \in Nat
  BY <1>2, <1>3
<1>5. \A i \in DOMAIN more : (i \in DOMAIN ts /\ more[i] = ts[i]) \/ (i = Len(ts) + 1 /\ more[i] = tab)
  BY <1>3, <1>4
<1>6. /\ \A i \in DOMAIN ts : i \in DOMAIN more /\ more[i] = ts[i]
      /\ Len(ts) + 1 \in DOMAIN more
  BY <1>3, <1>4
<1>7. \A i \in DOMAIN ts : ts[i].id \in 1 .. n
  BY TabsAreTyped, Zenon
<1>8. \A i \in DOMAIN ts : ts[i].id # n + 1
  BY <1>7
<1>9. IdsOf(more) = IdsOf(ts) \cup {n + 1}
  BY <1>1, <1>3, <1>5, <1>6 DEF IdsOf
<1>10. Distinct(ts) => Distinct(more)
  BY <1>1, <1>5, <1>8, Zenon DEF Distinct
<1>11. \A id \in IdsOf(ts) : \A title_ : IsNamed(ts, id, title_) => IsNamed(more, id, title_)
  <2> SUFFICES ASSUME NEW id \in IdsOf(ts), NEW title_, IsNamed(ts, id, title_)
               PROVE  IsNamed(more, id, title_)
    OBVIOUS
  <2>1. PICK j \in DOMAIN ts : ts[j].id = id
    BY DEF IdsOf
  <2>2. id # n + 1
    BY <1>8, <2>1
  <2> QED
    BY <1>1, <1>5, <2>2, Zenon DEF IsNamed
<1>12. IsNamed(more, n + 1, name)
  BY <1>1, <1>5, <1>8, Zenon DEF IsNamed
<1> SUFFICES /\ tab \in S /\ ts \in Seq(S) /\ more \in Seq(S) /\ more # <<>>
             /\ IdsOf(more) = IdsOf(ts) \cup {n + 1}
             /\ Distinct(ts) => Distinct(more)
             /\ \A id \in IdsOf(ts) : \A title_ : IsNamed(ts, id, title_) => IsNamed(more, id, title_)
             /\ IsNamed(more, n + 1, name)
  BY Zenon DEF S, tab, more, Tabs
<1> QED
  BY <1>1, <1>2, <1>3, <1>9, <1>10, <1>11, <1>12, Zenon

LEMMA AppendedViews ==
  ASSUME NEW n \in Nat, NEW f \in [1 .. n -> Views], NEW v \in Views
  PROVE  /\ Append(f, v) \in [1 .. n + 1 -> Views]
         /\ \A i \in 1 .. n : Append(f, v)[i] = f[i]
         /\ Append(f, v)[n + 1] = v
<1>1. f \in Seq(Views) /\ Len(f) = n
  OBVIOUS
<1>2. /\ Append(f, v) \in Seq(Views) /\ Len(Append(f, v)) = n + 1
      /\ \A i \in 1 .. n : Append(f, v)[i] = f[i]
      /\ Append(f, v)[n + 1] = v
  BY <1>1, AppendProperties
<1>3. \A g \in Seq(Views) : Len(g) = n + 1 => g \in [1 .. n + 1 -> Views]
  OBVIOUS
<1> QED
  BY <1>2, <1>3, Zenon

LEMMA AddTabInv == ASSUME FigureInv, NEW name \in Names, AddTab(name) PROVE FigureInv'
<1> DEFINE id == created + 1  tab == [name |-> name, id |-> created + 1]
           p == CHOOSE i \in DOMAIN tabs : tabs[i].name = name
<1>1. /\ created' = id /\ isOpen' = isOpen /\ views' = views /\ broken' = broken /\ ~broken
      /\ tabs' = IF HasName(name) THEN ReplaceAt(tabs, p, tab) ELSE Append(tabs, tab)
      /\ shown' = IF tabs = <<>> THEN shown \cup {id} ELSE shown
      /\ buttons' = buttons \cup {id}
      /\ refAx' = IF SyncTabs /\ refAx = None THEN id ELSE refAx
      /\ saved' = Append(saved, <<>>)
      /\ zoomed' = Append(zoomed, IF SyncTabs THEN views ELSE <<>>)
      /\ reused' = (reused \/ HasName(name) \/ (tabs = <<>> /\ active # None))
      /\ IF active = None THEN active' = id /\ title' = name /\ legend' = id
         ELSE active' = active /\ title' = title /\ legend' = legend
  <2>1. CASE HasName(name)
    BY <2>1, SMT DEF AddTab, FirstTab
  <2>2. CASE ~HasName(name)
    BY <2>2, SMT DEF AddTab, FirstTab
  <2> QED
    BY <2>1, <2>2
<1>2. /\ created \in Nat /\ tabs \in Tabs(created) /\ id \in Nat /\ id # None /\ None \notin Nat
      /\ saved \in [1 .. created -> Views] /\ zoomed \in [1 .. created -> Views]
      /\ views \in Views /\ <<>> \in Views /\ name \in TabNames
  BY NoTabs, FigureAssumption DEF FigureInv, FigureTypes, TabNames
<1>3. /\ tab \in [name : TabNames, id : 1 .. id]
      /\ tabs \in Tabs(id) /\ Append(tabs, tab) \in Tabs(id) /\ Append(tabs, tab) # <<>>
      /\ IdsOf(Append(tabs, tab)) = IdsOf(tabs) \cup {id}
      /\ Distinct(tabs) => Distinct(Append(tabs, tab))
      /\ \A a \in IdsOf(tabs) : \A title_ : IsNamed(tabs, a, title_) => IsNamed(Append(tabs, tab), a, title_)
      /\ IsNamed(Append(tabs, tab), id, name)
  BY <1>2, AppendedTab
<1> HIDE DEF tab
<1>4. tabs' \in Tabs(id)
  <2>1. CASE HasName(name)
    <3>1. p \in DOMAIN tabs
      BY <2>1 DEF HasName
    <3> DEFINE S == [name : TabNames, id : 1 .. id]
    <3>2. tabs \in Seq(S) /\ tab \in S
      BY <1>3, Zenon DEF Tabs
    <3> HIDE DEF S, p
    <3>3. p \in 1 .. Len(tabs)
      BY <3>1, <3>2
    <3>4. [tabs EXCEPT ![p] = tab] \in Seq(S)
      BY <3>2, <3>3, ExceptSeq
    <3> QED
      BY <1>1, <2>1, <3>4, Zenon DEF ReplaceAt, Tabs, S
  <2>2. CASE ~HasName(name)
    BY <1>1, <1>3, <2>2, Zenon
  <2> QED
    BY <2>1, <2>2
<1>5. /\ saved' \in [1 .. id -> Views] /\ zoomed' \in [1 .. id -> Views]
      /\ \A i \in 1 .. created : saved'[i] = saved[i] /\ zoomed'[i] = zoomed[i]
      /\ saved'[id] = <<>> /\ zoomed'[id] = IF SyncTabs THEN views ELSE <<>>
  <2> DEFINE v == IF SyncTabs THEN views ELSE <<>>
  <2>1. v \in Views
    BY <1>2, Zenon
  <2> HIDE DEF v
  <2>2. saved' = Append(saved, <<>>) /\ zoomed' = Append(zoomed, v)
    BY <1>1, Zenon DEF v
  <2>3. /\ saved' \in [1 .. id -> Views]
        /\ \A i \in 1 .. created : saved'[i] = saved[i]
        /\ saved'[id] = <<>>
    <3>1. /\ Append(saved, <<>>) \in [1 .. created + 1 -> Views]
          /\ \A i \in 1 .. created : Append(saved, <<>>)[i] = saved[i]
          /\ Append(saved, <<>>)[created + 1] = <<>>
      BY <1>2, AppendedViews
    <3> QED
      BY <2>2, <3>1
  <2>4. /\ zoomed' \in [1 .. id -> Views]
        /\ \A i \in 1 .. created : zoomed'[i] = zoomed[i]
        /\ zoomed'[id] = v
    <3>1. /\ Append(zoomed, v) \in [1 .. created + 1 -> Views]
          /\ \A i \in 1 .. created : Append(zoomed, v)[i] = zoomed[i]
          /\ Append(zoomed, v)[created + 1] = v
      BY <1>2, <2>1, AppendedViews
    <3> QED
      BY <2>2, <3>1
  <2> QED
    BY <2>3, <2>4, Zenon DEF v
<1>6. FigureTypes'
  <2>1. reused' \in BOOLEAN
    BY <1>1 DEF FigureInv, FigureTypes
  <2>2. active' \in Nat \cup {None} /\ shown' \subseteq Nat
    BY <1>1, <1>2 DEF FigureInv, FigureTypes
  <2> QED
    BY <1>1, <1>2, <1>4, <1>5, <2>1, <2>2, Zenon DEF FigureInv, FigureTypes
<1>7. ASSUME isOpen', ~reused'
      PROVE  /\ ~broken'
             /\ ShownOf(tabs', active', shown', title', legend', refAx', views', saved', zoomed', buttons')
  <2>1. /\ tabs' = Append(tabs, tab) /\ ~reused /\ isOpen /\ (tabs # <<>> \/ active = None)
    BY <1>1, <1>7, Zenon
  <2>2. ShownOf(tabs, active, shown, title, legend, refAx, views, saved, zoomed, buttons)
    BY <2>1, ShownIsShownOf, Zenon DEF FigureInv
  <2>3. IdsOf(tabs) \subseteq 1 .. created /\ IdsOf(tabs) \subseteq Nat
    BY <1>2, TabsAreTyped, Zenon
  <2> HIDE DEF id
  <2>4. CASE tabs = <<>>
    <3>1. /\ IdsOf(tabs) = {} /\ shown = {} /\ refAx = None /\ views = <<>> /\ active = None
      BY <2>1, <2>2, <2>4, NoTabs, Zenon DEF ShownOf
    <3>2. /\ active' = id /\ title' = name /\ legend' = id /\ shown' = {id} /\ buttons' = {id}
          /\ refAx' = id \/ refAx' = None
      BY <1>1, <2>1, <2>2, <2>4, <3>1 DEF ShownOf
    <3>3. IdsOf(tabs') = {id} /\ IsNamed(tabs', id, name) /\ Distinct(tabs') /\ tabs' # <<>>
      BY <1>3, <2>1, <2>2, <3>1 DEF ShownOf
    <3>4. KeepsViews({id}, id, views', saved', zoomed')
      BY <1>1, <1>5, <3>1 DEF KeepsViews
    <3> QED
      BY <1>1, <3>2, <3>3, <3>4 DEF ShownOf
  <2>5. CASE tabs # <<>>
    <3>1. /\ active \in IdsOf(tabs) /\ shown = {active} /\ legend = active /\ buttons = IdsOf(tabs)
          /\ IsNamed(tabs, active, title) /\ (refAx # None => refAx \in IdsOf(tabs))
          /\ Distinct(tabs) /\ KeepsViews(IdsOf(tabs), active, views, saved, zoomed)
      BY <2>2, <2>5, Zenon DEF ShownOf
    <3>2. active # None /\ active \in 1 .. created
      BY <1>2, <2>3, <3>1
    <3>3. /\ active' = active /\ title' = title /\ legend' = legend /\ shown' = shown
          /\ buttons' = IdsOf(tabs) \cup {id}
          /\ refAx' # None => refAx' \in IdsOf(tabs) \cup {id}
      BY <1>1, <2>5, <3>1, <3>2
    <3>4. /\ IdsOf(tabs') = IdsOf(tabs) \cup {id} /\ IsNamed(tabs', active, title)
          /\ Distinct(tabs') /\ tabs' # <<>>
      BY <1>3, <2>1, <3>1, Zenon
    <3>5. active # id
      BY <1>2, <3>2 DEF id
    <3>6. KeepsViews(IdsOf(tabs) \cup {id}, active, views', saved', zoomed')
      <4>1. CASE SyncTabs
        <5>1. \A i \in IdsOf(tabs) : zoomed[i] = views
          BY <3>1, <4>1, Zenon DEF KeepsViews
        <5>2. \A i \in IdsOf(tabs) \cup {id} : zoomed'[i] = views'
          BY <1>1, <1>5, <2>3, <4>1, <5>1
        <5> QED
          BY <4>1, <5>2, Zenon DEF KeepsViews
      <4>2. CASE ~SyncTabs
        <5>1. \A i \in IdsOf(tabs) : zoomed[i] = IF i = active THEN views ELSE saved[i]
          BY <3>1, <4>2, Zenon DEF KeepsViews
        <5>2. \A i \in IdsOf(tabs) : zoomed'[i] = IF i = active THEN views' ELSE saved'[i]
          BY <1>1, <1>5, <2>3, <5>1
        <5>3. zoomed'[id] = saved'[id]
          BY <1>5, <4>2
        <5>4. \A i \in IdsOf(tabs) \cup {id} : zoomed'[i] = IF i = active THEN views' ELSE saved'[i]
          BY <3>5, <5>2, <5>3
        <5> QED
          BY <4>2, <5>4, Zenon DEF KeepsViews
      <4> QED
        BY <4>1, <4>2
    <3> QED
      BY <1>1, <3>1, <3>3, <3>4, <3>6 DEF ShownOf
  <2> QED
    BY <1>1, <2>4, <2>5
<1>8. ShownInv'
  BY <1>7, Zenon DEF ShownInv, ShownOf
<1> QED
  BY <1>6, <1>8 DEF FigureInv

LEMMA FewerViews ==
  ASSUME NEW some, NEW ids, some \subseteq ids, NEW current, NEW nav, NEW kept, NEW set,
         KeepsViews(ids, current, nav, kept, set)
  PROVE  KeepsViews(some, current, nav, kept, set)
BY Zenon DEF KeepsViews

LEMMA RemoveTabInv == ASSUME FigureInv, NEW name, RemoveTab(name) PROVE FigureInv'
<1> DEFINE p == CHOOSE i \in DOMAIN tabs : tabs[i].name = name
           id == IdOf(name)  left == RemoveAt(tabs, p)  first == left[1]
<1>1. /\ ~broken /\ HasName(name) /\ isOpen' = isOpen /\ created' = created /\ reused' = reused
      /\ tabs' = left /\ NextActive(id, left) /\ buttons' = buttons \ {id}
      /\ refAx' = IF refAx = id THEN (IF left = <<>> THEN None ELSE active') ELSE refAx
  BY Zenon DEF RemoveTab
<1>2. p \in DOMAIN tabs /\ id = tabs[p].id
  BY <1>1 DEF HasName, IdOf
<1>3. created \in Nat /\ tabs \in Tabs(created) /\ None \notin Nat
  BY FigureAssumption, Zenon DEF FigureInv, FigureTypes
<1>4. /\ left \in Tabs(created) /\ IdsOf(left) \subseteq IdsOf(tabs)
      /\ Distinct(tabs) => Distinct(left) /\ IdsOf(left) = IdsOf(tabs) \ {id}
      /\ \A a, title_ : IsNamed(tabs, a, title_) => IsNamed(left, a, title_)
      /\ left # <<>> => 1 \in DOMAIN left
  <2>1. /\ left \in Tabs(created) /\ IdsOf(left) \subseteq IdsOf(tabs)
        /\ Distinct(tabs) => Distinct(left) /\ IdsOf(left) = IdsOf(tabs) \ {tabs[p].id}
        /\ \A a, title_ : IsNamed(tabs, a, title_) => IsNamed(left, a, title_)
        /\ left # <<>> => 1 \in DOMAIN left
    <3> HIDE DEF p
    <3> QED
      BY <1>2, <1>3, LeftTabs
  <2> QED
    BY <1>2, <2>1, Zenon
<1>5. /\ IdsOf(left) \subseteq 1 .. created /\ IdsOf(tabs) \subseteq Nat
      /\ left # <<>> => first.id \in IdsOf(left)
      /\ id \in IdsOf(tabs)
  BY <1>2, <1>3, <1>4, TabsAreTyped, Zenon
<1>6. {left[i].id : i \in DOMAIN left} = IdsOf(left)
  BY DEF IdsOf
<1>7. CASE id = active /\ left # <<>>
  <2>1. Switched(first.id, first.name, IdsOf(left))
    BY <1>1, <1>6, <1>7, Zenon DEF NextActive
  <2>2. IdsOf(left) \in SUBSET (1 .. created) /\ first.id \in IdsOf(left)
    BY <1>5, <1>7
  <2>3. FigureTypes'
    BY <1>1, <1>4, <2>1, <2>2, SwitchTypes, Zenon DEF FigureInv, FigureTypes
  <2>4. ASSUME isOpen', ~reused'
        PROVE  /\ ~broken'
               /\ ShownOf(tabs', active', shown', title', legend', refAx', views', saved', zoomed', buttons')
    <3>1. /\ ShownOf(tabs, active, shown, title, legend, refAx, views, saved, zoomed, buttons)
          /\ tabs # <<>>
      BY <1>1, <1>5, <2>4, ShownIsShownOf, NoTabs, Zenon DEF FigureInv
    <3>2. /\ shown = {active} /\ KeepsViews(IdsOf(tabs), active, views, saved, zoomed)
          /\ Distinct(tabs) /\ buttons = IdsOf(tabs) /\ (refAx # None => refAx \in IdsOf(tabs))
      BY <3>1, Zenon DEF ShownOf
    <3>3. KeepsViews(IdsOf(left), active, views, saved, zoomed)
      BY <1>4, <3>2, FewerViews, Zenon
    <3>4. /\ broken' = broken /\ active' = first.id /\ shown' = {first.id} /\ title' = first.name
          /\ legend' = first.id /\ KeepsViews(IdsOf(left), first.id, views', saved', zoomed')
      BY <2>1, <2>2, <3>2, <3>3, SwitchShows, Zenon DEF FigureInv
    <3>5. Distinct(left) /\ IdsOf(left) = IdsOf(tabs) \ {id}
      BY <1>4, <3>2, Zenon
    <3>6. IsNamed(left, first.id, first.name)
      BY <1>4, <1>7, <3>5, Zenon DEF IsNamed, Distinct
    <3> HIDE DEF left, first, id, p
    <3>7. refAx' # None => refAx' \in IdsOf(left)
      BY <1>1, <1>7, <2>2, <3>2, <3>4, <3>5
    <3>8. buttons' = IdsOf(left)
      BY <1>1, <3>2, <3>5
    <3> QED
      BY <1>1, <1>7, <2>2, <3>4, <3>5, <3>6, <3>7, <3>8, Zenon DEF ShownOf
  <2>5. ShownInv'
    BY <2>4, Zenon DEF ShownInv, ShownOf
  <2> QED
    BY <2>3, <2>5 DEF FigureInv
<1>8. CASE ~(id = active /\ left # <<>>)
  <2>1. /\ views' = views /\ saved' = saved /\ zoomed' = zoomed /\ broken' = broken /\ active' = active
        /\ IF left = <<>> THEN shown' = shown \ {id} /\ title' = None /\ legend' = None
                          ELSE shown' = shown /\ title' = title /\ legend' = legend
    BY <1>1, <1>8, SMT DEF NextActive, display, history
  <2> HIDE DEF left, first, id, p
  <2>2. FigureTypes'
    <3>1. shown' \subseteq Nat
      BY <2>1 DEF FigureInv, FigureTypes
    <3> QED
      BY <1>1, <1>4, <2>1, <3>1, Zenon DEF FigureInv, FigureTypes
  <2>3. ASSUME isOpen', ~reused'
        PROVE  /\ ~broken'
               /\ ShownOf(tabs', active', shown', title', legend', refAx', views', saved', zoomed', buttons')
    <3>1. /\ ShownOf(tabs, active, shown, title, legend, refAx, views, saved, zoomed, buttons)
          /\ tabs # <<>>
      BY <1>1, <1>5, <2>3, ShownIsShownOf, NoTabs, Zenon DEF FigureInv
    <3>2. /\ shown = {active} /\ KeepsViews(IdsOf(tabs), active, views, saved, zoomed)
          /\ active \in IdsOf(tabs) /\ legend = active /\ IsNamed(tabs, active, title)
          /\ Distinct(tabs) /\ buttons = IdsOf(tabs) /\ (refAx # None => refAx \in IdsOf(tabs))
      BY <3>1, Zenon DEF ShownOf
    <3>3. Distinct(left) /\ IdsOf(left) = IdsOf(tabs) \ {id}
      BY <1>4, <3>2, Zenon
    <3>4. buttons' = IdsOf(left)
      BY <1>1, <3>2, <3>3
    <3>5. CASE left = <<>>
      <4>1. IdsOf(left) = {}
        BY <3>5, NoTabs, Zenon
      <4>2. active = id /\ active # None
        BY <1>3, <1>5, <3>2, <3>3, <4>1
      <4>3. refAx' = None
        BY <1>1, <3>2, <3>3, <3>5, <4>1
      <4>4. shown' = {} /\ title' = None /\ legend' = None
        BY <2>1, <3>2, <3>5, <4>2
      <4> QED
        BY <1>1, <2>1, <3>3, <3>4, <3>5, <4>2, <4>3, <4>4, Zenon DEF ShownOf
    <3>6. CASE left # <<>>
      <4>1. active # id /\ active \in IdsOf(left)
        BY <1>8, <3>2, <3>3, <3>6
      <4>2. refAx' # None => refAx' \in IdsOf(left)
        BY <1>1, <2>1, <3>2, <3>3, <3>6, <4>1
      <4>3. KeepsViews(IdsOf(left), active, views, saved, zoomed)
        BY <1>4, <3>2, FewerViews, Zenon
      <4>4. IsNamed(left, active, title)
        BY <1>4, <3>2, Zenon
      <4> QED
        BY <1>1, <2>1, <3>2, <3>3, <3>4, <3>6, <4>1, <4>2, <4>3, <4>4, Zenon DEF ShownOf
    <3> QED
      BY <3>5, <3>6
  <2>4. ShownInv'
    BY <2>3, Zenon DEF ShownInv, ShownOf
  <2> QED
    BY <2>2, <2>4 DEF FigureInv
<1> QED
  BY <1>7, <1>8

\* The last tab, and the views of all of them once it is active.
LEMMA LastTab ==
  ASSUME FigureInv, tabs # <<>>, isOpen, ~reused
  PROVE  LET last == tabs[Len(tabs)]
             backed == BackedUp(active, saved, views, TabIds)
         IN  /\ TabIds = IdsOf(tabs) /\ last.id \in IdsOf(tabs) /\ last.id \in Nat
             /\ IsNamed(tabs, last.id, last.name)
             /\ backed \in [1 .. created -> Views] /\ backed[last.id] \in Views
             /\ KeepsViews(IdsOf(tabs), last.id, backed[last.id], backed, zoomed)
<1> DEFINE last == tabs[Len(tabs)]  backed == BackedUp(active, saved, views, TabIds)
<1>1. created \in Nat /\ tabs \in Tabs(created)
  BY Zenon DEF FigureInv, FigureTypes
<1>2. /\ IdsOf(tabs) \subseteq 1 .. created /\ IdsOf(tabs) \subseteq Nat
      /\ Len(tabs) \in DOMAIN tabs /\ last.id \in IdsOf(tabs)
  BY <1>1, TabsAreTyped, Zenon
<1>3. TabIds = IdsOf(tabs)
  BY DEF TabIds, IdsOf
<1>4. Distinct(tabs) /\ KeepsViews(IdsOf(tabs), active, views, saved, zoomed)
  BY Zenon DEF FigureInv, ShownInv
<1>5. IsNamed(tabs, last.id, last.name)
  BY <1>2, <1>4, Zenon DEF Distinct, IsNamed
<1>6. /\ views \in Views /\ saved \in [1 .. created -> Views]
      /\ IdsOf(tabs) \in SUBSET (1 .. created) /\ last.id \in Nat
  BY <1>2 DEF FigureInv, FigureTypes
<1>7. /\ BackedUp(active, saved, views, IdsOf(tabs)) \in [1 .. created -> Views]
      /\ BackedUp(active, saved, views, IdsOf(tabs))[last.id] \in Views
      /\ KeepsViews(IdsOf(tabs), last.id, BackedUp(active, saved, views, IdsOf(tabs))[last.id],
                    BackedUp(active, saved, views, IdsOf(tabs)), zoomed)
  BY <1>2, <1>4, <1>6, BackedUpViews
<1> QED
  BY <1>2, <1>3, <1>5, <1>6, <1>7

LEMMA ClearInv == ASSUME FigureInv, Clear PROVE FigureInv'
<1> DEFINE last == tabs[Len(tabs)]
<1>1. /\ tabs # <<>> /\ isOpen /\ ~reused /\ ~broken
      /\ active' = last.id /\ saved' = BackedUp(active, saved, views, TabIds)
      /\ views' = IF active = last.id THEN views ELSE saved'[last.id]
      /\ tabs' = <<>> /\ shown' = {} /\ title' = None /\ legend' = None
      /\ refAx' = None /\ buttons' = buttons \ TabIds
      /\ isOpen' = isOpen /\ created' = created /\ zoomed' = zoomed /\ reused' = reused /\ broken' = broken
  BY Zenon DEF Clear
<1>2. /\ TabIds = IdsOf(tabs) /\ last.id \in Nat
      /\ saved' \in [1 .. created -> Views] /\ saved'[last.id] \in Views
  BY <1>1, LastTab
<1> HIDE DEF last
<1>3. views' \in Views /\ active' # None /\ <<>> \in Tabs(created) /\ {} \subseteq Nat
  <2>1. views \in Views
    BY Zenon DEF FigureInv, FigureTypes
  <2> QED
    BY <1>1, <1>2, <2>1, FigureAssumption DEF Tabs
<1>4. FigureTypes'
  BY <1>1, <1>2, <1>3, Zenon DEF FigureInv, FigureTypes
<1>5. ShownInv'
  <2>1. buttons = IdsOf(tabs)
    BY <1>1, Zenon DEF FigureInv, ShownInv
  <2>2. buttons' = {}
    BY <1>1, <1>2, <2>1
  <2> QED
    BY <1>1, <1>3, <2>2, NoTabs, Zenon DEF ShownInv
<1> QED
  BY <1>4, <1>5 DEF FigureInv

LEMMA SaveAllTabsInv == ASSUME FigureInv, SaveAllTabs PROVE FigureInv'
<1> DEFINE last == tabs[Len(tabs)]
<1>1. /\ tabs # <<>> /\ isOpen /\ ~reused /\ ~broken
      /\ active' = last.id /\ shown' = {last.id} /\ title' = last.name /\ legend' = last.id
      /\ saved' = BackedUp(active, saved, views, TabIds) /\ views' = saved'[last.id]
      /\ isOpen' = isOpen /\ tabs' = tabs /\ created' = created /\ buttons' = buttons /\ refAx' = refAx
      /\ zoomed' = zoomed /\ reused' = reused /\ broken' = broken
  BY Zenon DEF SaveAllTabs
<1>2. /\ TabIds = IdsOf(tabs) /\ last.id \in IdsOf(tabs) /\ last.id \in Nat
      /\ IsNamed(tabs, last.id, last.name)
      /\ saved' \in [1 .. created -> Views] /\ views' \in Views
      /\ KeepsViews(IdsOf(tabs), last.id, views', saved', zoomed)
  BY <1>1, LastTab
<1> HIDE DEF last
<1>3. shown' \subseteq Nat
  BY <1>1, <1>2
<1>4. FigureTypes'
  BY <1>1, <1>2, <1>3, Zenon DEF FigureInv, FigureTypes
<1>5. ShownInv'
  BY <1>1, <1>2, Zenon DEF FigureInv, ShownInv
<1> QED
  BY <1>4, <1>5 DEF FigureInv

LEMMA SetToSeqOrders ==
  ASSUME NEW S, IsFiniteSet(S)
  PROVE  /\ SetToSeq(S) \in [1 .. Cardinality(S) -> S]
         /\ Cardinality(S) \in Nat
<1>1. Cardinality(S) \in Nat /\ ExistsBijection(1 .. Cardinality(S), S)
  BY FS_CardinalityType
<1>2. \E f \in [1 .. Cardinality(S) -> S] : IsInjective(f)
  BY <1>1 DEF ExistsBijection, Bijection, Injection
<1> QED
  BY <1>1, <1>2 DEF SetToSeq

LEMMA PlotLogInv ==
  ASSUME NEW names \in SUBSET (StateGroups \cup SensorGroups), PlotLog(names)
  PROVE  FigureInv'
<1> DEFINE order == SetToSeq(names)  n == Cardinality(names)
<1>1. order \in [1 .. n -> names] /\ n \in Nat
  <2>1. IsFiniteSet(StateGroups \cup SensorGroups)
    BY FigureAssumption, FS_Union
  <2>2. IsFiniteSet(names)
    BY <2>1, FS_Subset
  <2> QED
    BY <2>2, SetToSeqOrders
<1> HIDE DEF order, n
<1>2. Len(order) = n
  <2>1. order \in Seq(names)
    BY <1>1
  <2> QED
    BY <1>1, <2>1
<1>3. /\ isOpen' = TRUE /\ broken' = FALSE /\ reused' = FALSE
      /\ tabs' = [i \in 1 .. n |-> [name |-> order[i], id |-> i]]
      /\ created' = n /\ buttons' = 1 .. n
      /\ IF n = 0 THEN active' = None /\ shown' = {} /\ title' = None /\ legend' = None
                  ELSE active' = 1 /\ shown' = {1} /\ title' = order[1] /\ legend' = 1
      /\ refAx' = IF SyncTabs /\ n > 0 THEN 1 ELSE None
      /\ views' = <<>> /\ saved' = [i \in 1 .. n |-> <<>>] /\ zoomed' = [i \in 1 .. n |-> <<>>]
  BY <1>2, Zenon DEF PlotLog, order
<1>4. /\ tabs' \in Tabs(n) /\ DOMAIN tabs' = 1 .. n
      /\ \A i \in 1 .. n : tabs'[i].id = i /\ tabs'[i].name = order[i]
  <2>1. \A i \in 1 .. n : [name |-> order[i], id |-> i] \in [name : TabNames, id : 1 .. n]
    <3>1. \A i \in 1 .. n : order[i] \in TabNames
      BY <1>1 DEF TabNames
    <3> QED
      BY <3>1
  <2> DEFINE S == [name : TabNames, id : 1 .. n]
  <2>2. tabs' \in [1 .. n -> S]
    BY <1>3, <2>1, Zenon
  <2>3. \A i \in 1 .. n : tabs'[i].id = i /\ tabs'[i].name = order[i]
    BY <1>3
  <2> HIDE DEF S
  <2>4. tabs' \in Seq(S)
    BY <1>1, <2>2
  <2> QED
    BY <2>2, <2>3, <2>4, Zenon DEF Tabs, S
<1>5. FigureTypes'
  <2>1. /\ TRUE \in BOOLEAN /\ FALSE \in BOOLEAN /\ {} \subseteq Nat /\ {1} \subseteq Nat /\ 1 \in Nat
    OBVIOUS
  <2>2. saved' \in [1 .. n -> Views] /\ zoomed' \in [1 .. n -> Views]
    BY <1>3, NoTabs, Zenon
  <2>3. active' \in Nat \cup {None} /\ shown' \subseteq Nat
    <3>1. (active' = None /\ shown' = {}) \/ (active' = 1 /\ shown' = {1})
      BY <1>3, Zenon
    <3> QED
      BY <2>1, <3>1
  <2> QED
    BY <1>1, <1>3, <1>4, <2>1, <2>2, <2>3, NoTabs, Zenon DEF FigureTypes
<1>6. IdsOf(tabs') = 1 .. n /\ Distinct(tabs')
  BY <1>4 DEF IdsOf, Distinct
<1>7. (tabs' = <<>>) <=> (n = 0)
  <2>1. tabs' \in Seq([name : TabNames, id : 1 .. n])
    BY <1>4 DEF Tabs
  <2>2. tabs' = <<>> => 1 .. n = {}
    BY <1>4
  <2>3. n = 0 => Len(tabs') = 0
    BY <1>4, <2>1
  <2> QED
    BY <1>1, <2>1, <2>2, <2>3
<1>8. ShownInv'
  <2>1. CASE n = 0
    <3>1. 1 .. n = {} /\ ~(n > 0)
      BY <2>1
    <3> QED
      BY <1>3, <1>6, <1>7, <2>1, <3>1, Zenon DEF ShownInv
  <2>2. CASE n # 0
    <3>1. 1 \in 1 .. n /\ n > 0
      BY <1>1, <2>2
    <3>2. IsNamed(tabs', 1, order[1])
      BY <1>4 DEF IsNamed
    <3>3. KeepsViews(1 .. n, 1, views', saved', zoomed')
      BY <1>3 DEF KeepsViews
    <3>4. active' = 1 /\ shown' = {1} /\ title' = order[1] /\ legend' = 1 /\ (refAx' = 1 \/ refAx' = None)
      BY <1>3, <2>2, Zenon
    <3> QED
      BY <1>3, <1>6, <1>7, <2>2, <3>1, <3>2, <3>3, <3>4, Zenon DEF ShownInv
  <2> QED
    BY <2>1, <2>2
<1> QED
  BY <1>5, <1>8 DEF FigureInv

LEMMA FigureUserInv == ASSUME FigureInv, FigureUser PROVE FigureInv'
<1>1. CASE CloseFigure
  <2>1. EmptyFigure /\ isOpen' = FALSE
    BY <1>1, Zenon DEF CloseFigure
  <2>2. isOpen' \in BOOLEAN
    BY <2>1
  <2> QED
    BY <2>1, <2>2, EmptyFigureInv
<1> QED
  BY <1>1, ZoomInv, ClickInv, Zenon DEF FigureUser

LEMMA FigureProgramInv == ASSUME FigureInv, FigureProgram PROVE FigureInv'
BY AddTabInv, SetActiveTabInv, RemoveTabInv, ClearInv, SaveAllTabsInv, Zenon DEF FigureProgram

LEMMA FigureStep == ASSUME FigureInv, [SimulatorNext]_allVars PROVE FigureInv'
<1> DEFINE Goal == FigureInv'
<1> SUFFICES Goal
  BY DEF Goal
<1>1. ASSUME UNCHANGED figure PROVE Goal
  BY <1>1, FigureKept
<1> HIDE DEF Goal
<1>2. EngineActions \/ SimulateReturns \/ OptionActions \/ UNCHANGED allVars => Goal
  BY <1>1, Zenon DEF EngineActions, Stop, Start, StartFails, Step, Simulate, SimulateStep, SimulateStops,
     Advance, SimulateReturns, OptionActions, SetOptions, ExportOptions, ImportOptions, EditOptions, allVars
<1>3. Close => Goal
  <2>1. CloseFigure => Goal
    BY FigureUserInv, Zenon DEF FigureUser, Goal
  <2> QED
    BY <1>1, <2>1, Zenon DEF Close
<1>4. ViewerActions => Goal
  BY <1>1, <1>3, Zenon DEF ViewerActions, Render, CloseWindow, Replay, PlayFile, ReplayReturns, SimulateRaises
<1>5. UseFigure \/ ChangeFigure => Goal
  BY FigureUserInv, FigureProgramInv, Zenon DEF UseFigure, ChangeFigure, Goal
<1>6. MakeFigure => Goal
  <2> SUFFICES ASSUME MakeFigure PROVE Goal
    OBVIOUS
  <2>1. EmptyFigure /\ isOpen' = TRUE
    BY Zenon DEF MakeFigure, OpenFigure
  <2>2. isOpen' \in BOOLEAN
    BY <2>1
  <2> QED
    BY <2>1, <2>2, EmptyFigureInv DEF Goal
<1>7. ASSUME NEW block \in BOOLEAN, Plot(block) PROVE Goal
  <2>1. PlotLog(TabsOfLog(StatesOf(log), RobotHas))
    BY <1>7, Zenon DEF Plot
  <2>2. TabsOfLog(StatesOf(log), RobotHas) \in SUBSET (StateGroups \cup SensorGroups)
    BY DEF TabsOfLog
  <2> QED
    BY <2>1, <2>2, PlotLogInv DEF Goal
<1>8. FigureActions => Goal
  BY <1>5, <1>6, <1>7, Zenon DEF FigureActions
<1> QED
  BY <1>2, <1>4, <1>8, NextCases, Zenon

---------------------------------------------------------------------------
(* The theorems *)

SimulatorInv ==
    LogInv /\ CallInv /\ FilesInv /\ OptionsInv /\ ViewerInv /\ SharedInv /\ ReplayWritesItsOwn /\ FigureInv

LEMMA SimulatorInitially == SimulatorInit => SimulatorInv
<1> SUFFICES ASSUME SimulatorInit PROVE SimulatorInv
  OBVIOUS
<1>1. /\ engine = [running |-> FALSE, t |-> 0, buffer |-> 0, by |-> "start"]
      /\ options = Uniform(Default) /\ log = None /\ viewer = None /\ call = Idle
      /\ files = [log |-> None, options |-> None] /\ mixed = FALSE
  BY Zenon DEF SimulatorInit, AtRest, NoFiles
<1>2. engine \in Engines /\ engine.running = FALSE
  <2>1. /\ FALSE \in BOOLEAN /\ 0 \in Nat /\ "start" \in {"start", "simulate"}
    OBVIOUS
  <2> QED
    BY <1>1, <2>1, StartedFields, Zenon DEF Engines
<1>3. files.log = None /\ files.options = None
  BY <1>1
<1>4. LogInv
  <2>1. options \in [Parts -> Configs]
    BY <1>1, UniformIsTyped, SimulatorAssumption, Zenon
  <2> QED
    BY <1>1, <1>2, <1>3, <2>1, Zenon DEF LogInv
<1>5. CallInv
  <2>1. call.pc = "user" /\ call.bar = FALSE
    BY <1>1, IdleFields, Zenon
  <2>2. "user" \notin Pcs /\ "user" # "simulate" /\ "user" # "done"
    BY DEF Pcs
  <2> QED
    BY <2>1, <2>2, Zenon DEF CallInv
<1>6. FilesInv /\ ViewerInv /\ SharedInv
  BY <1>1, <1>3, Zenon DEF FilesInv, ViewerInv, SharedInv
<1>7. OptionsInv
  BY <1>1, <1>3, SimulatorAssumption, Zenon DEF OptionsInv
<1>8. ReplayWritesItsOwn
  BY <1>1, IdleFields DEF ReplayWritesItsOwn
<1>9. FigureInv
  <2>1. /\ isOpen = FALSE /\ tabs = <<>> /\ created = 0 /\ active = None /\ shown = {}
        /\ views = <<>> /\ saved = <<>> /\ zoomed = <<>> /\ reused = FALSE /\ broken = FALSE
    BY Zenon DEF SimulatorInit, FigureInit
  <2>2. FALSE \in BOOLEAN /\ {} \subseteq Nat /\ 0 \in Nat
    OBVIOUS
  <2>3. FigureTypes
    BY <2>1, <2>2, NoTabs, Zenon DEF FigureTypes
  <2>4. ShownInv
    BY <2>1, Zenon DEF ShownInv
  <2> QED
    BY <2>3, <2>4 DEF FigureInv
<1> QED
  BY <1>4, <1>5, <1>6, <1>7, <1>8, <1>9 DEF SimulatorInv

\* The properties below are inductive together.
THEOREM SimulatorInvariant == SimulatorSpec => []SimulatorInv
<1>1. SimulatorInit => SimulatorInv
  BY SimulatorInitially
<1>2. SimulatorInv /\ [SimulatorNext]_allVars => SimulatorInv'
  BY LogStep, CallStep, OptionsStep, ViewerStep, SharedStep, ReplayStep, FigureStep, Zenon DEF SimulatorInv
<1> QED
  BY <1>1, <1>2, PTL DEF SimulatorSpec

\* Whichever way simulate ends its bar is closed, what is done is stopped, and the log that is
\* written is that of a whole simulation.
THEOREM CleansUp == SimulatorSpec => []SimulateCleansUp
<1>1. SimulatorInv => SimulateCleansUp
  BY Zenon DEF SimulatorInv, CallInv, FilesInv, SimulateCleansUp
<1> QED
  BY <1>1, SimulatorInvariant, PTL

\* A viewer that was there at the start displays the forces of the engine until the end.
THEOREM SharesForces == SimulatorSpec => []ForcesAreShared
<1>1. SimulatorInv => ForcesAreShared
  BY Zenon DEF SimulatorInv, ViewerInv, ForcesAreShared
<1> QED
  BY <1>1, SimulatorInvariant, PTL

\* A replay that writes in the forces of the engine is that of the simulation it is at.
THEOREM WritesItsOwn == SimulatorSpec => []ReplayWritesItsOwn
<1>1. SimulatorInv => ReplayWritesItsOwn
  BY Zenon DEF SimulatorInv
<1> QED
  BY <1>1, SimulatorInvariant, PTL

\* The options are those of one configuration, unless they were set during a simulation.
THEOREM OneConfig == SimulatorSpec => []OptionsAreOfOneConfig
<1>1. SimulatorInv => OptionsAreOfOneConfig
  BY Zenon DEF SimulatorInv, OptionsInv, OptionsAreOfOneConfig
<1> QED
  BY <1>1, SimulatorInvariant, PTL

\* The window displays its active tab, with its title, its legend and its views.
THEOREM ShowsActive == SimulatorSpec => []ActiveIsShown
<1>1. SimulatorInv => ActiveIsShown
  <2> SUFFICES ASSUME ShownInv, FigureTypes, isOpen, ~reused
               PROVE  /\ ~broken /\ buttons = TabIds
                      /\ tabs = <<>> => shown = {} /\ title = None /\ legend = None
                      /\ tabs # <<>> => /\ active \in TabIds /\ shown = {active}
                                        /\ title = NameOf(active) /\ legend = active
                                        /\ refAx # None => refAx \in TabIds
                      /\ tabs # <<>> => views = zoomed[active]
    BY Zenon DEF SimulatorInv, FigureInv, ActiveIsShown
  <2>1. TabIds = IdsOf(tabs)
    BY DEF TabIds, IdsOf
  <2>2. ASSUME tabs # <<>> PROVE title = NameOf(active)
    <3>1. active \in TabIds /\ IsNamed(tabs, active, title) /\ Distinct(tabs)
      BY <2>1, <2>2, Zenon DEF ShownInv
    <3>2. IsNamed(tabs, active, NameOf(active))
      BY <3>1, NameOfTab
    <3>3. PICK i \in DOMAIN tabs : tabs[i].id = active
      BY <3>1 DEF TabIds
    <3> QED
      BY <3>1, <3>2, <3>3, Zenon DEF IsNamed
  <2>3. ASSUME tabs # <<>> PROVE views = zoomed[active]
    <3>1. active \in IdsOf(tabs) /\ KeepsViews(IdsOf(tabs), active, views, saved, zoomed)
      BY <2>3, Zenon DEF ShownInv
    <3> QED
      BY <3>1 DEF KeepsViews
  <2> QED
    BY <2>1, <2>2, <2>3, Zenon DEF ShownInv
<1> QED
  BY <1>1, SimulatorInvariant, PTL

-----------------------------------------------------------------------------
(* The recorder of the telemetry *)

\* What is left in the current chunk is a whole number of lines, and nothing if a line is
\* larger than a chunk; the limit is the size of the device, and what was recorded the position
\* in it, unless lines are too large to be written at all.
Current == flows[Len(flows)]
Accounting ==
    isInitialized =>
        /\ flows # <<>>
        /\ \E k \in Nat : Room(Current) = k * layout.line
        /\ ~Fits(layout) => Room(Current) = 0
        /\ recordedBytesLimits = Current.size
        /\ Fits(layout) => recordedBytes = Current.pos

IInv == TypeOK /\ NoLineIsCut /\ Accounting

-----------------------------------------------------------------------------
(* Arithmetic *)

\* A limit leaves room for a whole number of lines behind the header: none if they are
\* larger than a chunk, at least one in a chunk without header otherwise.
LEMMA LimitIsHeaderAndLines ==
    ASSUME NEW header \in Nat, NEW line \in Nat \ {0}
    PROVE  \E k \in Nat : /\ Limit(header, line) = header + k * line
                          /\ Limit(header, line) \in Nat
                          /\ line > MinBufferSize => k = 0
                          /\ line <= MinBufferSize /\ header = 0 => k > 0
<1> DEFINE space == Max2(MinBufferSize, header) - header
           k == space \div line
<1>1. /\ space \in Nat
      /\ space <= MinBufferSize
      /\ header = 0 => space = MinBufferSize
  BY LayoutAssumption DEF Max2
<1> HIDE DEF space
<1>2. /\ k \in Nat
      /\ line > space => k = 0
      /\ line <= space => k > 0
  BY <1>1, SMT
<1>3. k * line \in Nat
  <2> HIDE DEF k
  <2> QED BY <1>2, SMT
<1>4. Limit(header, line) = header + k * line
  BY DEF Limit, space
<1> HIDE DEF k
<1>5. /\ line > MinBufferSize => k = 0
      /\ line <= MinBufferSize /\ header = 0 => k > 0
  BY <1>1, <1>2, LayoutAssumption, SMT
<1> QED BY <1>2, <1>3, <1>4, <1>5

\* A chunk that is not full has room for one more line, and for a whole number after it.
LEMMA RoomForOneMore ==
    ASSUME NEW k \in Nat, NEW line \in Nat \ {0}
    PROVE  \/ k * line = 0 /\ k = 0
           \/ /\ line <= k * line
              /\ k - 1 \in Nat /\ k * line - line = (k - 1) * line
<1>1. CASE k = 0
  BY <1>1
<1>2. CASE k # 0
  <2>1. k - 1 \in Nat
    BY <1>2
  <2>2. k * line = (k - 1) * line + line
    BY <2>1, SMT
  <2>3. (k - 1) * line \in Nat
    BY <2>1, SMT
  <2> QED BY <2>1, <2>2, <2>3, SMT
<1> QED BY <1>1, <1>2

-----------------------------------------------------------------------------
(* Writing a line *)

\* A device that has room for a line, or for nothing, is written a whole line or nothing.
LEMMA WritesWholeLine ==
    ASSUME NEW flow \in Chunk, NEW line \in Values, NEW bytes \in Nat \ {0},
           Room(flow) = 0 \/ bytes <= Room(flow), flow.pos <= flow.size,
           Cut \notin Range(flow.lines)
    PROVE  /\ Write(flow, line, bytes) \in Chunk
           /\ Write(flow, line, bytes).size = flow.size
           /\ Write(flow, line, bytes).pos = flow.pos + (IF Room(flow) = 0 THEN 0 ELSE bytes)
           /\ Cut \notin Range(Write(flow, line, bytes).lines)
           /\ Write(flow, line, bytes).pos <= flow.size
<1> DEFINE new == Write(flow, line, bytes)
           lines == IF bytes <= Room(flow) THEN Append(flow.lines, line)
                    ELSE IF Room(flow) > 0 THEN Append(flow.lines, Cut) ELSE flow.lines
<1>1. flow.lines \in Seq(Values \cup {Cut}) /\ flow.size \in Nat /\ flow.pos \in Nat
  BY DEF Chunk
<1>2. new = [size |-> flow.size, pos |-> flow.pos + Min2(bytes, Room(flow)), lines |-> lines]
  <2> HIDE DEF lines
  <2>1. new = [flow EXCEPT !.pos = flow.pos + Min2(bytes, Room(flow)), !.lines = lines]
    BY DEF Write, lines
  <2> QED BY <2>1 DEF Chunk
<1>3. Room(flow) \in Nat
  BY <1>1 DEF Room
<1>4. Min2(bytes, Room(flow)) = IF Room(flow) = 0 THEN 0 ELSE bytes
  BY <1>3 DEF Min2
<1>5. lines \in {flow.lines, Append(flow.lines, line)}
  BY <1>3
<1>6. lines \in Seq(Values \cup {Cut})
  BY <1>1, <1>5
<1>7. Cut \notin Range(lines)
  <2>1. CASE lines = flow.lines
    BY <2>1
  <2>2. CASE lines = Append(flow.lines, line)
    BY <2>2, <1>1, ValuesAssumption DEF Range
  <2> QED BY <1>5, <2>1, <2>2
<1>8. flow.pos + Min2(bytes, Room(flow)) <= flow.size
  BY <1>1, <1>3, <1>4 DEF Room
<1> HIDE DEF lines
<1>9. new \in Chunk
  BY <1>1, <1>2, <1>3, <1>4, <1>6 DEF Chunk
<1> QED BY <1>2, <1>4, <1>7, <1>8, <1>9

-----------------------------------------------------------------------------
(* Reading the chunks back *)

\* Induction over a set of numbers, from the cardinality of what would be missing.
LEMMA Induction ==
    ASSUME NEW T, 0 \in T, \A n \in Nat : n \in T => n + 1 \in T
    PROVE  \A n \in Nat : n \in T
<1> SUFFICES ASSUME NEW n \in Nat, n \notin T PROVE FALSE
  OBVIOUS
<1> DEFINE U == {k \in 0 .. n : k \notin T}
           V == {k \in 0 .. n - 1 : k \notin T}
           pred == [k \in U |-> k - 1]
<1>1. IsFiniteSet(V) /\ Cardinality(V) \in Nat
  <2>1. IsFiniteSet(0 .. n - 1)
    BY FS_Interval
  <2>2. V \in SUBSET (0 .. n - 1)
    OBVIOUS
  <2> QED
    BY <2>1, <2>2, FS_Subset, FS_CardinalityType
<1>2. U = V \cup {n} /\ n \notin V
  OBVIOUS
<1>3. Cardinality(U) = Cardinality(V) + 1
  BY <1>1, <1>2, FS_AddElement
<1>4. pred \in Injection(U, V)
  <2>1. \A k \in U : k - 1 \in V
    <3> SUFFICES ASSUME NEW k \in U PROVE k - 1 \in V
      OBVIOUS
    <3>1. k \in Nat /\ k # 0 /\ k - 1 \in Nat /\ k = (k - 1) + 1
      OBVIOUS
    <3> QED
      BY <3>1
  <2>2. pred \in [U -> V]
    BY <2>1
  <2>3. \A k, l \in U : pred[k] = pred[l] => k = l
    OBVIOUS
  <2> QED
    BY <2>2, <2>3 DEF Injection, IsInjective
<1>5. Cardinality(U) <= Cardinality(V)
  BY <1>1, <1>4, FS_Injection
<1> QED
  BY <1>1, <1>3, <1>5

\* The function FlattenSeq is defined by: what the first n sequences make one after the other.
IsFlattening(f, seqs, n) ==
    f = [i \in 1 .. n |-> IF i = 1 THEN seqs[1] ELSE f[i - 1] \o seqs[i]]

\* There is one, however many the sequences.
LEMMA FlatteningExists ==
    ASSUME NEW seqs
    PROVE  \A n \in Nat : \E f : IsFlattening(f, seqs, n)
<1> DEFINE T == {n \in Nat : \E f : IsFlattening(f, seqs, n)}
<1>1. 0 \in T
  <2> DEFINE f == [i \in 1 .. 0 |-> seqs[1]]
  <2>1. IsFlattening(f, seqs, 0)
    BY DEF IsFlattening
  <2> QED BY <2>1
<1>2. ASSUME NEW n \in Nat, n \in T PROVE n + 1 \in T
  <2>1. PICK f : IsFlattening(f, seqs, n)
    BY <1>2
  <2> DEFINE g == [i \in 1 .. n + 1 |->
                     IF i = 1 THEN seqs[1] ELSE f[i - 1] \o seqs[i]]
  <2>2. \A i \in 1 .. n : g[i] = f[i]
    <3>1. \A i \in 1 .. n : i \in 1 .. n + 1
      OBVIOUS
    <3> QED BY <2>1, <3>1, Zenon DEF IsFlattening
  <2>3. \A i \in 1 .. n + 1 : i # 1 => i - 1 \in 1 .. n
    OBVIOUS
  <2>4. g = [i \in 1 .. n + 1 |-> IF i = 1 THEN seqs[1] ELSE g[i - 1] \o seqs[i]]
    <3> SUFFICES ASSUME NEW i \in 1 .. n + 1, i # 1 PROVE g[i - 1] = f[i - 1]
      OBVIOUS
    <3> QED BY <2>2, <2>3
  <2>5. IsFlattening(g, seqs, n + 1)
    BY <2>4 DEF IsFlattening
  <2> QED BY <2>5
<1> HIDE DEF T
<1>3. \A n \in Nat : n \in T
  BY <1>1, <1>2, Induction
<1> QED BY <1>3 DEF T

\* It satisfies the equation that defines it.
LEMMA FlatteningAt ==
    ASSUME NEW f, NEW seqs, NEW n \in Nat, IsFlattening(f, seqs, n), NEW i \in 1 .. n
    PROVE  /\ i = 1 => f[i] = seqs[1]
           /\ i # 1 => f[i] = f[i - 1] \o seqs[i]
BY Zenon DEF IsFlattening

\* The same, for the next one.
LEMMA FlatteningNext ==
    ASSUME NEW S, NEW seqs \in Seq(Seq(S)), NEW f, IsFlattening(f, seqs, Len(seqs))
    PROVE  \A i \in Nat : i + 1 \in 1 .. Len(seqs) =>
             /\ i + 1 = 1 => f[i + 1] = seqs[1]
             /\ i + 1 # 1 => f[i + 1] = f[i] \o seqs[i + 1]
<1> DEFINE n == Len(seqs)
<1> SUFFICES ASSUME NEW i \in Nat, i + 1 \in 1 .. n
             PROVE  /\ i + 1 = 1 => f[i + 1] = seqs[1]
                    /\ i + 1 # 1 => f[i + 1] = f[i] \o seqs[i + 1]
  OBVIOUS
<1>1. ASSUME NEW j \in 1 .. n
      PROVE  /\ j = 1 => f[j] = seqs[1]
             /\ j # 1 => f[j] = f[j - 1] \o seqs[j]
  <2>1. n \in Nat
    BY LenProperties
  <2> QED BY <2>1, FlatteningAt
<1>2. (i + 1) - 1 = i
  OBVIOUS
<1> QED BY <1>1, <1>2

\* What FlattenSeq returns is the last value of such a function.
LEMMA FlattenSeqIsIts ==
    ASSUME NEW S, NEW seqs \in Seq(Seq(S)), seqs # <<>>
    PROVE  \E f : IsFlattening(f, seqs, Len(seqs)) /\ FlattenSeq(seqs) = f[Len(seqs)]
<1> DEFINE Is(f) == f = [i \in 1 .. Len(seqs) |-> IF i = 1 THEN seqs[1] ELSE f[i - 1] \o seqs[i]]
           chosen == CHOOSE f : Is(f)
<1>1. Len(seqs) \in Nat /\ Len(seqs) # 0
  BY EmptySeq, LenProperties
<1>2. \E f : Is(f)
  BY <1>1, FlatteningExists DEF IsFlattening
<1>3. Is(chosen)
  <2> HIDE DEF Is
  <2> QED BY <1>2
<1>4. FlattenSeq(seqs) = chosen[Len(seqs)]
  BY <1>1, Zenon DEF FlattenSeq
<1> QED BY <1>3, <1>4 DEF IsFlattening

\* Sequences that start alike are flattened alike, into sequences.
LEMMA FlatteningsAgree ==
    ASSUME NEW S, NEW s \in Seq(Seq(S)), NEW t \in Seq(Seq(S)),
           NEW f, IsFlattening(f, s, Len(s)), NEW g, IsFlattening(g, t, Len(t)),
           NEW k \in Nat, k <= Len(s), k <= Len(t), \A i \in 1 .. k : s[i] = t[i]
    PROVE  \A i \in 1 .. k : f[i] = g[i] /\ f[i] \in Seq(S)
<1>0. \A i \in Nat :
        /\ i + 1 \in 1 .. Len(s) =>
             /\ i + 1 = 1 => f[i + 1] = s[1]
             /\ i + 1 # 1 => f[i + 1] = f[i] \o s[i + 1]
        /\ i + 1 \in 1 .. Len(t) =>
             /\ i + 1 = 1 => g[i + 1] = t[1]
             /\ i + 1 # 1 => g[i + 1] = g[i] \o t[i + 1]
  <2>2. \A i \in Nat : i + 1 \in 1 .. Len(s) =>
             /\ i + 1 = 1 => f[i + 1] = s[1]
             /\ i + 1 # 1 => f[i + 1] = f[i] \o s[i + 1]
    BY FlatteningNext
  <2>3. \A i \in Nat : i + 1 \in 1 .. Len(t) =>
             /\ i + 1 = 1 => g[i + 1] = t[1]
             /\ i + 1 # 1 => g[i + 1] = g[i] \o t[i + 1]
    BY FlatteningNext
  <2> QED BY <2>2, <2>3, Zenon
<1> DEFINE T == {n \in Nat : \A i \in 1 .. k : i <= n => f[i] = g[i] /\ f[i] \in Seq(S)}
<1>1. 0 \in T
  OBVIOUS
<1>2. ASSUME NEW n \in Nat, n \in T PROVE n + 1 \in T
  <2> SUFFICES ASSUME n + 1 \in 1 .. k
               PROVE  f[n + 1] = g[n + 1] /\ f[n + 1] \in Seq(S)
    BY <1>2
  <2>1. n + 1 \in 1 .. Len(s) /\ n + 1 \in 1 .. Len(t) /\ s[n + 1] = t[n + 1]
        /\ s[n + 1] \in Seq(S)
    <3>1. Len(s) \in Nat /\ Len(t) \in Nat
      BY LenProperties
    <3>2. n + 1 \in 1 .. Len(s) /\ n + 1 \in 1 .. Len(t)
      BY <3>1
    <3> HIDE DEF T
    <3>3. s[n + 1] \in Seq(S)
      BY <3>2, ElementOfSeq
    <3> QED BY <3>2, <3>3
  <2> HIDE DEF T
  <2>2. /\ n + 1 = 1 => f[n + 1] = s[1] /\ g[n + 1] = t[1]
        /\ n + 1 # 1 => f[n + 1] = f[n] \o s[n + 1] /\ g[n + 1] = g[n] \o t[n + 1]
    BY <1>0, <2>1, Zenon
  <2>3. CASE n = 0
    <3>1. f[n + 1] = s[n + 1] /\ g[n + 1] = t[n + 1]
      BY <2>2, <2>3
    <3> QED BY <2>1, <3>1, Zenon
  <2>4. CASE n # 0
    <3>1. n \in 1 .. k /\ f[n] = g[n] /\ f[n] \in Seq(S)
      BY <1>2, <2>4 DEF T
    <3>2. n + 1 # 1
      BY <2>4
    <3>3. f[n + 1] = f[n] \o s[n + 1] /\ g[n + 1] = g[n] \o t[n + 1]
      BY <2>2, <3>2, Zenon
    <3> QED BY <2>1, <3>1, <3>3, ConcatProperties, Zenon
  <2> QED BY <2>3, <2>4
<1> HIDE DEF T
<1>3. \A n \in Nat : n \in T
  BY <1>1, <1>2, Induction
<1>4. k \in T /\ \A i \in 1 .. k : i <= k
  BY <1>3
<1> QED BY <1>4, Zenon DEF T

\* A sequence alone is flattened into itself, and whatever comes last comes last.
LEMMA FlattenLast ==
    ASSUME NEW S, NEW seqs \in Seq(Seq(S)), seqs # <<>>
    PROVE  /\ FlattenSeq(seqs) \in Seq(S)
           /\ Len(seqs) = 1 => FlattenSeq(seqs) = seqs[1]
           /\ \A other \in Seq(Seq(S)) :
                 (/\ other # <<>> /\ Len(other) + 1 = Len(seqs)
                  /\ \A i \in 1 .. Len(other) : other[i] = seqs[i])
                 => FlattenSeq(seqs) = FlattenSeq(other) \o seqs[Len(seqs)]
<1> DEFINE n == Len(seqs)
<1>1. n \in Nat /\ n # 0
  BY EmptySeq, LenProperties
<1>2. PICK f : IsFlattening(f, seqs, n) /\ FlattenSeq(seqs) = f[n]
  BY FlattenSeqIsIts
<1>3. f[n] \in Seq(S)
  <2>1. n <= n /\ n \in 1 .. n
    BY <1>1
  <2> QED BY <1>1, <1>2, <2>1, FlatteningsAgree, Zenon
<1>4. (n = 1 => f[n] = seqs[1]) /\ (n # 1 => f[n] = f[n - 1] \o seqs[n])
  <2>1. n \in 1 .. n
    BY <1>1
  <2> QED BY <1>1, <1>2, <2>1, FlatteningAt, Zenon
<1>5. ASSUME NEW other \in Seq(Seq(S)), other # <<>>, Len(other) + 1 = Len(seqs),
             \A i \in 1 .. Len(other) : other[i] = seqs[i]
      PROVE  FlattenSeq(seqs) = FlattenSeq(other) \o seqs[n]
  <2>1. PICK g : IsFlattening(g, other, Len(other)) /\ FlattenSeq(other) = g[Len(other)]
    BY <1>5, FlattenSeqIsIts
  <2>2. n - 1 = Len(other) /\ Len(other) \in Nat /\ Len(other) # 0 /\ n # 1
    <3>1. Len(other) \in Nat /\ Len(other) # 0
      BY <1>5, EmptySeq, LenProperties
    <3>2. n = Len(other) + 1
      BY <1>5
    <3> HIDE DEF n
    <3> QED BY <3>1, <3>2
  <2> DEFINE m == Len(other)
  <2>3. /\ IsFlattening(g, other, Len(other)) /\ IsFlattening(f, seqs, Len(seqs))
        /\ m \in Nat /\ m <= Len(other) /\ m <= Len(seqs)
        /\ \A i \in 1 .. m : other[i] = seqs[i]
    BY <1>2, <1>5, <2>1, <2>2
  <2>4. m \in 1 .. m
    BY <2>2
  <2> HIDE DEF m
  <2>5. \A i \in 1 .. m : g[i] = f[i] /\ g[i] \in Seq(S)
    BY <1>5, <2>3, FlatteningsAgree
  <2>6. g[Len(other)] = f[n - 1]
    BY <2>2, <2>4, <2>5 DEF m
  <2> QED BY <1>2, <1>4, <2>1, <2>2, <2>6
<1> QED BY <1>2, <1>3, <1>4, <1>5

\* Appending commutes with what comes before.
LEMMA AppendLast ==
    ASSUME NEW S, NEW s \in Seq(S), NEW t \in Seq(S), NEW e \in S
    PROVE  s \o Append(t, e) = Append(s \o t, e)
BY SMT

\* A line appended to the last sequence is the last of all.
LEMMA FlattenAppend ==
    ASSUME NEW S, NEW s \in Seq(Seq(S)), s # <<>>, NEW e \in S, NEW t \in Seq(Seq(S)),
           Len(t) = Len(s), \A i \in 1 .. Len(s) : i # Len(s) => t[i] = s[i],
           t[Len(s)] = Append(s[Len(s)], e)
    PROVE  FlattenSeq(t) = Append(FlattenSeq(s), e)
<1> DEFINE n == Len(s)
<1>1. n \in Nat /\ n # 0 /\ t # <<>> /\ s[n] \in Seq(S) /\ t[n] = s[n] \o <<e>>
  <2>1. n \in Nat /\ n # 0 /\ Len(t) # 0
    BY EmptySeq, LenProperties
  <2>2. s[n] \in Seq(S)
    BY <2>1, ElementOfSeq
  <2> QED BY <2>1, <2>2, EmptySeq, AppendIsConcat, Zenon
<1>2. CASE n = 1
  <2>1. FlattenSeq(s) = s[n] /\ FlattenSeq(t) = t[n]
    BY <1>1, <1>2, FlattenLast, Zenon
  <2> QED BY <2>1, Zenon
<1>3. CASE n # 1
  <2> DEFINE front == SubSeq(s, 1, n - 1)
  <2>1. front \in Seq(Seq(S)) /\ Len(front) = n - 1 /\ \A i \in 1 .. n - 1 : front[i] = s[i]
    <3>1. 1 \in 1 .. n + 1 /\ n - 1 \in 1 - 1 .. n /\ (n - 1) - 1 + 1 = n - 1
          /\ \A i \in 1 .. n - 1 : 1 + i - 1 = i
      BY <1>1
    <3> QED BY <1>1, <1>3, <3>1, SubSeqProperties
  <2> HIDE DEF front
  <2>2. /\ front # <<>> /\ Len(front) + 1 = Len(s) /\ Len(front) + 1 = Len(t)
        /\ \A i \in 1 .. Len(front) : front[i] = s[i] /\ front[i] = t[i]
    <3>1. Len(front) # 0 /\ Len(front) + 1 = n /\ n - 1 = Len(front)
      BY <1>1, <1>3, <2>1
    <3>2. \A i \in 1 .. n - 1 : i \in 1 .. n /\ i # n
      BY <1>1
    <3>3. \A i \in 1 .. n - 1 : t[i] = s[i]
      BY <3>2, Zenon
    <3>4. front # <<>>
      BY <2>1, <3>1, EmptySeq, Zenon
    <3> QED BY <2>1, <3>1, <3>3, <3>4, Zenon
  <2>3. FlattenSeq(s) = FlattenSeq(front) \o s[Len(s)] /\ FlattenSeq(s) \in Seq(S)
    BY <2>1, <2>2, FlattenLast, Zenon
  <2>4. FlattenSeq(t) = FlattenSeq(front) \o t[Len(t)]
    BY <1>1, <2>1, <2>2, FlattenLast, Zenon
  <2>5. FlattenSeq(front) \in Seq(S)
    BY <2>1, <2>2, FlattenLast, Zenon
  <2>6. t[Len(t)] = Append(s[Len(s)], e) /\ s[Len(s)] \in Seq(S)
    BY <1>1
  <2>7. FlattenSeq(front) \o Append(s[Len(s)], e) = Append(FlattenSeq(front) \o s[Len(s)], e)
    <3> DEFINE f == FlattenSeq(front)
               l == s[Len(s)]
    <3>1. f \in Seq(S) /\ l \in Seq(S)
      BY <2>5, <2>6
    <3> HIDE DEF f, l
    <3>2. f \o Append(l, e) = Append(f \o l, e)
      BY <3>1, SMT
    <3> QED BY <3>2 DEF f, l
  <2> QED BY <2>3, <2>4, <2>6, <2>7, Zenon
<1> QED BY <1>2, <1>3

-----------------------------------------------------------------------------
(* The invariant is inductive *)

LEMMA InitEstablishes == Init => IInv
<1> SUFFICES ASSUME Init PROVE IInv
  OBVIOUS
<1>1. flows = <<>> /\ DOMAIN flows = {} /\ flows \in Seq(Chunk)
  BY DEF Init
<1>2. TypeOK
  BY <1>1 DEF Init, TypeOK
<1>3. NoLineIsCut /\ Accounting
  BY <1>1 DEF Init, NoLineIsCut, Accounting
<1> QED BY <1>2, <1>3 DEF IInv

LEMMA InitializePreserves ==
    ASSUME IInv, NEW newLayout \in Layouts, Initialize(newLayout)
    PROVE  IInv'
<1> DEFINE h == newLayout.header
           l == newLayout.line
           first == [size |-> Limit(h, l), pos |-> h, lines |-> <<>>]
<1>1. h \in Nat /\ l \in Nat \ {0}
  BY LayoutAssumption
<1>2. PICK k \in Nat : /\ Limit(h, l) = h + k * l
                       /\ Limit(h, l) \in Nat
                       /\ l > MinBufferSize => k = 0
  BY <1>1, LimitIsHeaderAndLines
<1>3. flows' = <<first>>
  BY DEF Initialize, NewChunk
<1>4. k * l \in Nat
  BY <1>1, SMT
<1>5. first \in Chunk /\ Room(first) = k * l /\ first.pos <= first.size
  BY <1>1, <1>2, <1>4 DEF Chunk, Room
<1>6. layout' = newLayout /\ isInitialized' = TRUE /\ data' \in Values /\ taken' = 0
      /\ recordedBytes' = h /\ recordedBytesLimits' = first.size
  BY DEF Initialize
<1> HIDE DEF first
<1>7. Len(flows') = 1 /\ flows'[1] = first /\ flows' # <<>> /\ flows' \in Seq(Chunk)
      /\ DOMAIN flows' = {1}
  BY <1>3, <1>5
<1>8. TypeOK'
  BY <1>1, <1>5, <1>6, <1>7 DEF TypeOK, Chunk
<1>9. NoLineIsCut'
  BY <1>7 DEF NoLineIsCut, first, Range
<1>10. Accounting'
  <2>1. Current' = first
    BY <1>7 DEF Current
  <2>2. ~Fits(newLayout) => Room(first) = 0
    BY <1>1, <1>2, <1>5, LayoutAssumption DEF Fits
  <2> QED BY <1>2, <1>5, <1>6, <1>7, <2>1, <2>2 DEF Accounting, first, Room, Fits
<1> QED BY <1>8, <1>9, <1>10 DEF IInv

\* Whether or not a chunk is added, the current one is well formed, and it has room for a line
\* if lines fit at all.
LEMMA ChunksFit ==
    ASSUME IInv, isInitialized
    PROVE  /\ Chunks \in Seq(Chunk) /\ Chunks # <<>>
           /\ \A i \in DOMAIN Chunks : /\ Chunks[i].pos <= Chunks[i].size
                                       /\ Cut \notin Range(Chunks[i].lines)
           /\ LET last == Chunks[Len(Chunks)] IN
              /\ \E k \in Nat : Room(last) = k * layout.line /\ (Fits(layout) => k > 0)
              /\ ~Fits(layout) => Room(last) = 0
              /\ (IF IsChunkFull THEN Limit(0, layout.line) ELSE recordedBytesLimits) = last.size
              /\ Fits(layout) => (IF IsChunkFull THEN 0 ELSE recordedBytes) = last.pos
<1> DEFINE l == layout.line
<1>1. l \in Nat \ {0} /\ layout \in Layouts
  BY LayoutAssumption DEF IInv, TypeOK
<1>2. flows \in Seq(Chunk) /\ flows # <<>>
  BY DEF IInv, TypeOK, Accounting
<1>3. CASE IsChunkFull
  <2>1. PICK k \in Nat : /\ Limit(0, l) = 0 + k * l
                         /\ Limit(0, l) \in Nat
                         /\ l > MinBufferSize => k = 0
                         /\ l <= MinBufferSize => k > 0
    BY <1>1, LimitIsHeaderAndLines
  <2> DEFINE new == NewChunk(0, l)
  <2>2. new \in Chunk /\ new.size = Limit(0, l) /\ new.pos = 0 /\ new.lines = <<>>
    BY <2>1 DEF NewChunk, Chunk
  <2>3. k * l \in Nat
    BY <1>1, SMT
  <2>4. Room(new) = k * l
    BY <2>1, <2>2, <2>3 DEF Room
  <2>5. Chunks = Append(flows, new)
    BY <1>3 DEF Chunks
  <2>6. Fits(layout) => k > 0
    BY <2>1 DEF Fits
  <2>7. ~Fits(layout) => Room(new) = 0
    BY <1>1, <2>1, <2>4, LayoutAssumption DEF Fits
  <2> HIDE DEF new
  <2>8. Chunks[Len(Chunks)] = new /\ Chunks \in Seq(Chunk) /\ Chunks # <<>>
    BY <1>2, <2>2, <2>5
  <2>9. \A i \in DOMAIN Chunks : /\ Chunks[i].pos <= Chunks[i].size
                                 /\ Cut \notin Range(Chunks[i].lines)
    <3> SUFFICES ASSUME NEW i \in DOMAIN Chunks
                 PROVE  /\ Chunks[i].pos <= Chunks[i].size
                        /\ Cut \notin Range(Chunks[i].lines)
      OBVIOUS
    <3>1. CASE i \in DOMAIN flows
      BY <1>2, <2>5, <3>1 DEF IInv, TypeOK, NoLineIsCut
    <3>2. CASE Chunks[i] = new
      BY <3>2, <2>1, <2>2 DEF Range
    <3> QED BY <1>2, <2>5, <3>1, <3>2
  <2> QED BY <1>3, <2>2, <2>4, <2>6, <2>7, <2>8, <2>9
<1>4. CASE ~IsChunkFull
  <2>1. Chunks = flows /\ Chunks[Len(Chunks)] = Current
    BY <1>4 DEF Chunks, Current
  <2>2. PICK k \in Nat : Room(Current) = k * l
    BY DEF IInv, Accounting
  <2>3. Fits(layout) => k > 0
    <3> SUFFICES ASSUME Fits(layout), k = 0 PROVE FALSE
      OBVIOUS
    <3>1. Room(Current) = 0
      BY <1>1, <2>2
    <3>2. Current \in Chunk
      BY <1>2 DEF Current
    <3>3. recordedBytes = Current.pos /\ recordedBytesLimits = Current.size
      BY DEF IInv, Accounting
    <3> QED BY <1>4, <3>1, <3>2, <3>3 DEF IsChunkFull, Room, Chunk
  <2> QED BY <1>2, <1>4, <2>1, <2>2, <2>3 DEF IInv, TypeOK, NoLineIsCut, Accounting
<1> QED BY <1>3, <1>4

LEMMA FlushPreserves ==
    ASSUME IInv, FlushDataSnapshot
    PROVE  IInv'
<1> DEFINE l == layout.line
           n == Len(Chunks)
           last == Chunks[n]
           new == Write(last, data, l)
<1>1. isInitialized /\ l \in Nat \ {0} /\ layout \in Layouts /\ data \in Values
  BY LayoutAssumption DEF FlushDataSnapshot, IInv, TypeOK
<1>2. Chunks \in Seq(Chunk) /\ n \in DOMAIN Chunks /\ n \in Nat /\ last \in Chunk
  BY <1>1, ChunksFit
<1>3. PICK k \in Nat : Room(last) = k * l /\ (Fits(layout) => k > 0)
  BY <1>1, ChunksFit
<1>4. \/ Room(last) = 0 /\ k = 0
      \/ /\ l <= Room(last)
         /\ k - 1 \in Nat /\ Room(last) - l = (k - 1) * l
  BY <1>1, <1>3, RoomForOneMore
<1>5. Room(last) \in Int /\ last.pos \in Nat /\ last.size \in Nat
  BY <1>2 DEF Room, Chunk
<1>6. Room(last) = 0 \/ l <= Room(last)
  BY <1>4
<1>7. last.pos <= last.size /\ Cut \notin Range(last.lines)
  BY <1>1, <1>2, ChunksFit
<1>8. /\ new \in Chunk /\ new.size = last.size
      /\ new.pos = last.pos + (IF Room(last) = 0 THEN 0 ELSE l)
      /\ Cut \notin Range(new.lines) /\ new.pos <= new.size
  BY <1>1, <1>2, <1>6, <1>7, WritesWholeLine
<1>9. flows' = [Chunks EXCEPT ![n] = new]
  BY DEF FlushDataSnapshot
<1>10. /\ recordedBytesLimits' = last.size
       /\ Fits(layout) => recordedBytes' = last.pos + l
       /\ ~Fits(layout) => Room(last) = 0
  BY <1>1, ChunksFit DEF FlushDataSnapshot, Recorded
<1>11. UNCHANGED <<data, isInitialized, layout>> /\ taken' = taken + 1 /\ recordedBytes' \in Nat
  BY <1>1 DEF FlushDataSnapshot, Recorded, IInv, TypeOK
<1> HIDE DEF new
<1>12. flows' \in Seq(Chunk) /\ Len(flows') = n /\ flows'[n] = new
       /\ DOMAIN flows' = DOMAIN Chunks /\ flows' # <<>>
       /\ \A i \in DOMAIN Chunks : i # n => flows'[i] = Chunks[i]
  BY <1>2, <1>8, <1>9
<1>13. TypeOK'
  <2>1. \A i \in DOMAIN flows' : flows'[i].pos <= flows'[i].size
    BY <1>1, <1>8, <1>12, ChunksFit
  <2> QED BY <1>5, <1>10, <1>11, <1>12, <2>1 DEF TypeOK, IInv
<1>14. NoLineIsCut'
  BY <1>1, <1>8, <1>12, ChunksFit DEF NoLineIsCut
<1>15. Current' = new
  BY <1>12 DEF Current
<1>16. Room(new) = Room(last) - (IF Room(last) = 0 THEN 0 ELSE l)
  BY <1>1, <1>5, <1>8 DEF Room
<1>17. \E j \in Nat : Room(new) = j * l
  <2>1. CASE Room(last) = 0
    BY <1>1, <1>3, <1>16, <2>1
  <2>2. CASE Room(last) # 0
    BY <1>4, <1>16, <2>2
  <2> QED BY <2>1, <2>2
<1>18. Fits(layout) => Room(last) # 0
  BY <1>1, <1>3, <1>4
<1>19. Accounting'
  BY <1>8, <1>10, <1>11, <1>12, <1>15, <1>16, <1>17, <1>18 DEF Accounting
<1> QED BY <1>13, <1>14, <1>19 DEF IInv

LEMMA SeekingBackRestores ==
    ASSUME NEW flow \in Chunk, flow.pos <= flow.size
    PROVE  Seek(ReadThrough(Seek(flow, 0)), flow.pos) = flow
<1> DEFINE start == [flow EXCEPT !.pos = 0]
           end == [flow EXCEPT !.pos = flow.size]
<1>1. flow.pos \in Nat /\ flow.size \in Nat
  BY DEF Chunk
<1>2. Seek(flow, 0) = start
  BY <1>1 DEF Seek
<1>3. start.pos = 0 /\ start.size = flow.size
  BY DEF Chunk
<1>4. ReadThrough(start) = [start EXCEPT !.pos = flow.size]
  <2> HIDE DEF start
  <2>1. start.pos + Room(start) = flow.size
    BY <1>1, <1>3 DEF Room
  <2> QED BY <2>1 DEF ReadThrough
<1>5. [start EXCEPT !.pos = flow.size] = end
  BY DEF Chunk
<1>6. end.size = flow.size
  BY DEF Chunk
<1>7. Seek(end, flow.pos) = [end EXCEPT !.pos = flow.pos]
  <2> HIDE DEF end
  <2> QED BY <1>1, <1>6 DEF Seek
<1>8. [end EXCEPT !.pos = flow.pos] = flow
  BY DEF Chunk
<1> QED BY <1>2, <1>4, <1>5, <1>7, <1>8

\* Reading a log leaves every device as it was.
LEMMA ReadingRestores ==
    ASSUME IInv
    PROVE  AllRestored = flows
<1>1. flows \in Seq(Chunk) /\ \A i \in DOMAIN flows : flows[i].pos <= flows[i].size
  BY DEF IInv, TypeOK
<1>2. ASSUME NEW i \in DOMAIN flows
      PROVE  Seek(ReadThrough(Seek(flows[i], 0)), flows[i].pos) = flows[i]
  BY <1>1, <1>2, SeekingBackRestores
<1> QED BY <1>1, <1>2 DEF AllRestored

LEMMA NextPreserves == IInv /\ [Next]_vars => IInv'
<1> SUFFICES ASSUME IInv, [Next]_vars
             PROVE  IInv'
  OBVIOUS
<1>1. ASSUME NEW newLayout \in Layouts, Initialize(newLayout) PROVE IInv'
  BY <1>1, InitializePreserves
<1>2. CASE FlushDataSnapshot
  BY <1>2, FlushPreserves
<1>3. CASE UpdateValue
  BY <1>3 DEF UpdateValue, sizes, IInv, TypeOK, NoLineIsCut, Accounting, Current
<1>4. CASE ResetRecorder
  BY <1>4 DEF ResetRecorder, sizes, IInv, TypeOK, NoLineIsCut, Accounting
<1>5. CASE GetLog \/ WriteLog
  BY <1>5, ReadingRestores
     DEF GetLog, WriteLog, sizes, IInv, TypeOK, NoLineIsCut, Accounting, Current
<1>6. CASE UNCHANGED vars
  BY <1>6 DEF vars, sizes, IInv, TypeOK, NoLineIsCut, Accounting, Current
<1> QED BY <1>1, <1>2, <1>3, <1>4, <1>5, <1>6 DEF Next

-----------------------------------------------------------------------------
(* Theorems *)

\* The registers of the recorder keep their types, and no device is written past its end.
THEOREM RecorderTypes == Spec => []TypeOK
<1>1. IInv => TypeOK
  BY DEF IInv
<1> QED BY <1>1, InitEstablishes, NextPreserves, PTL DEF Spec

\* No line of the log is ever cut, for every size of the chunks, of the header and of a line.
THEOREM LinesAreWhole == Spec => []NoLineIsCut
<1>1. IInv => NoLineIsCut
  BY DEF IInv
<1> QED BY <1>1, InitEstablishes, NextPreserves, PTL DEF Spec

\* What the recorder counts is where its device is, so that it never misses a full chunk.
THEOREM AccountingIsExact == Spec => []CountsWhatIsWritten
<1>1. IInv => CountsWhatIsWritten
  <2> SUFFICES ASSUME IInv, isInitialized, Fits(layout)
               PROVE  /\ recordedBytes = Last(flows).pos
                      /\ recordedBytesLimits = Last(flows).size
                      /\ recordedBytes <= recordedBytesLimits
    BY DEF CountsWhatIsWritten
  <2>1. flows \in Seq(Chunk) /\ flows # <<>> /\ Last(flows) = Current
    BY DEF IInv, TypeOK, Accounting, Last, Current
  <2>2. Current.pos <= Current.size
    BY <2>1 DEF IInv, TypeOK, Current
  <2> QED BY <2>1, <2>2 DEF IInv, Accounting
<1> QED BY <1>1, InitEstablishes, NextPreserves, PTL DEF Spec
-----------------------------------------------------------------------------
(* The log is the sequence of the snapshots *)

\* The lines of each chunk, as they are read back.
LinesOf(chunks) == [i \in DOMAIN chunks |-> chunks[i].lines]

\* Chunks hold sequences of lines, one per chunk.
LEMMA LinesAreSequences ==
    ASSUME NEW chunks \in Seq(Chunk)
    PROVE  /\ LinesOf(chunks) \in Seq(Seq(Values \cup {Cut}))
           /\ Len(LinesOf(chunks)) = Len(chunks)
           /\ \A i \in 1 .. Len(chunks) : LinesOf(chunks)[i] = chunks[i].lines
           /\ ReadBack(chunks) = FlattenSeq(LinesOf(chunks))
<1>1. \A i \in 1 .. Len(chunks) : chunks[i].lines \in Seq(Values \cup {Cut})
  <2> SUFFICES ASSUME NEW i \in 1 .. Len(chunks)
               PROVE  chunks[i].lines \in Seq(Values \cup {Cut})
    OBVIOUS
  <2> DEFINE lines == Seq(Values \cup {Cut})
  <2>1. chunks[i] \in [size : Nat, pos : Nat, lines : lines]
    BY ElementOfSeq DEF Chunk
  <2> HIDE DEF lines
  <2>2. chunks[i].lines \in lines
    BY <2>1
  <2> QED BY <2>2 DEF lines
<1>2. DOMAIN chunks = 1 .. Len(chunks) /\ Len(chunks) \in Nat
  OBVIOUS
<1>3. LinesOf(chunks) \in [1 .. Len(chunks) -> Seq(Values \cup {Cut})]
  BY <1>1, <1>2 DEF LinesOf
<1> QED BY <1>1, <1>2, <1>3 DEF LinesOf, ReadBack

\* A new chunk adds nothing to what is read back.
LEMMA NewChunkIsEmpty ==
    ASSUME IInv, isInitialized
    PROVE  ReadBack(Chunks) = ReadBack(flows)
<1> DEFINE new == NewChunk(0, layout.line)
<1>1. flows \in Seq(Chunk) /\ Chunks \in Seq(Chunk) /\ flows # <<>> /\ Chunks # <<>>
  BY ChunksFit DEF IInv, TypeOK, Accounting
<1>2. CASE IsChunkFull
  <2>1. Chunks = Append(flows, new) /\ new.lines = <<>>
    BY <1>2 DEF Chunks, NewChunk
  <2> HIDE DEF new
  <2>2. Len(Chunks) = Len(flows) + 1 /\ Chunks[Len(Chunks)] = new
        /\ \A i \in 1 .. Len(flows) : Chunks[i] = flows[i]
    BY <1>1, <2>1
  <2> DEFINE S == Values \cup {Cut}
             s == LinesOf(flows)
             t == LinesOf(Chunks)
  <2>3. /\ t \in Seq(Seq(S)) /\ Len(t) = Len(Chunks)
        /\ \A i \in 1 .. Len(Chunks) : t[i] = Chunks[i].lines
        /\ ReadBack(Chunks) = FlattenSeq(t)
    BY <1>1, LinesAreSequences, Zenon
  <2>4. /\ s \in Seq(Seq(S)) /\ Len(s) = Len(flows)
        /\ \A i \in 1 .. Len(flows) : s[i] = flows[i].lines
        /\ ReadBack(flows) = FlattenSeq(s)
    BY <1>1, LinesAreSequences, Zenon
  <2> HIDE DEF S, s, t
  <2>5. Len(flows) \in Nat /\ Len(flows) # 0
    BY <1>1, EmptySeq, LenProperties
  <2>6. s # <<>> /\ t # <<>> /\ Len(s) + 1 = Len(t) /\ Len(t) \in 1 .. Len(Chunks)
    BY <2>2, <2>3, <2>4, <2>5, EmptySeq
  <2>7. \A i \in 1 .. Len(s) : s[i] = t[i]
    BY <2>2, <2>3, <2>4, <2>5
  <2>8. t[Len(t)] = <<>>
    BY <2>1, <2>2, <2>3, <2>6
  <2>9. FlattenSeq(t) = FlattenSeq(s) \o <<>>
    BY <2>3, <2>4, <2>6, <2>7, <2>8, FlattenLast, Zenon
  <2>10. FlattenSeq(s) \in Seq(S)
    BY <2>4, <2>6, FlattenLast, Zenon
  <2> QED BY <2>3, <2>4, <2>9, <2>10, ConcatEmptySeq, Zenon
<1>3. CASE ~IsChunkFull
  BY <1>3 DEF Chunks
<1> QED BY <1>2, <1>3

\* A snapshot that fits is appended to what is read back.
LEMMA FlushTakesSnapshot ==
    ASSUME IInv, FlushDataSnapshot, Fits(layout)
    PROVE  ReadBack(flows)' = Append(ReadBack(flows), data)
<1> DEFINE l == layout.line
           n == Len(Chunks)
           last == Chunks[n]
           new == Write(last, data, l)
           S == Values \cup {Cut}
<1>1. isInitialized /\ l \in Nat \ {0} /\ data \in Values
  BY LayoutAssumption DEF FlushDataSnapshot, IInv, TypeOK
<1>2. Chunks \in Seq(Chunk) /\ n \in Nat /\ n # 0 /\ n \in DOMAIN Chunks /\ last \in Chunk
  BY <1>1, ChunksFit
<1>3. PICK k \in Nat : Room(last) = k * l /\ k > 0
  BY <1>1, ChunksFit
<1>4. l <= Room(last)
  BY <1>1, <1>3, RoomForOneMore
<1>5. new.lines = Append(last.lines, data)
  BY <1>2, <1>4 DEF Write, Chunk
<1>6. flows' = [Chunks EXCEPT ![n] = new]
  BY DEF FlushDataSnapshot
<1>7. flows' \in Seq(Chunk)
  BY FlushPreserves DEF IInv, TypeOK
<1> HIDE DEF new
<1>8. Len(flows') = n /\ flows'[n] = new /\ \A i \in 1 .. n : i # n => flows'[i] = Chunks[i]
  BY <1>2, <1>6
<1> DEFINE s == LinesOf(Chunks)
           t == LinesOf(flows')
<1>9. /\ s \in Seq(Seq(S)) /\ Len(s) = Len(Chunks)
      /\ \A i \in 1 .. Len(Chunks) : s[i] = Chunks[i].lines
      /\ ReadBack(Chunks) = FlattenSeq(s)
  BY <1>2, LinesAreSequences, Zenon
<1>10. /\ t \in Seq(Seq(S)) /\ Len(t) = Len(flows')
       /\ \A i \in 1 .. Len(flows') : t[i] = flows'[i].lines
       /\ ReadBack(flows') = FlattenSeq(t)
  BY <1>7, LinesAreSequences, Zenon
<1> HIDE DEF s, t
<1>11. data \in S /\ n \in 1 .. n
  BY <1>1, <1>2
<1> HIDE DEF S, last
<1>12. t[Len(s)] = Append(s[Len(s)], data)
  BY <1>5, <1>8, <1>9, <1>10, <1>11 DEF last
<1>13. /\ s # <<>> /\ Len(t) = Len(s)
       /\ \A i \in 1 .. Len(s) : i # Len(s) => t[i] = s[i]
  BY <1>2, <1>8, <1>9, <1>10, EmptySeq
<1>14. FlattenSeq(t) = Append(FlattenSeq(s), data)
  BY <1>9, <1>10, <1>11, <1>12, <1>13, FlattenAppend, Zenon
<1>15. ReadBack(flows') = Append(ReadBack(flows), data)
  BY <1>1, <1>9, <1>10, <1>14, NewChunkIsEmpty
<1> QED BY <1>15 DEF ReadBack

\* What is read back of a simulation that starts is empty.
LEMMA InitializeEmpties ==
    ASSUME IInv, NEW newLayout \in Layouts, Initialize(newLayout)
    PROVE  ReadBack(flows)' = <<>>
<1> DEFINE first == [NewChunk(newLayout.header, newLayout.line) EXCEPT !.pos = newLayout.header]
<1>1. flows' = <<first>> /\ first.lines = <<>>
  BY DEF Initialize, NewChunk
<1>2. flows' \in Seq(Chunk)
  BY InitializePreserves DEF IInv, TypeOK
<1> HIDE DEF first
<1>3. Len(flows') = 1 /\ flows'[1] = first
  BY <1>1
<1> DEFINE S == Values \cup {Cut}
           t == LinesOf(flows')
<1>4. /\ t \in Seq(Seq(S)) /\ Len(t) = Len(flows')
      /\ \A i \in 1 .. Len(flows') : t[i] = flows'[i].lines
      /\ ReadBack(flows') = FlattenSeq(t)
  BY <1>2, LinesAreSequences, Zenon
<1> HIDE DEF S, t
<1>5. t # <<>> /\ Len(t) = 1 /\ t[1] = <<>>
  BY <1>1, <1>3, <1>4, EmptySeq
<1>6. ReadBack(flows') = <<>>
  BY <1>4, <1>5, FlattenLast, Zenon
<1> QED BY <1>6 DEF ReadBack

\* If lines fit in chunks, the recorder implements the log it promises: in every simulation,
\* what is read back of the chunks is the sequence of the snapshots, whole and in order,
\* whatever is read in between, and a file is a copy of it.
THEOREM RecorderImplementsLog ==
    ASSUME \A l \in Layouts : Fits(l)
    PROVE  Spec => LogIsSnapshots
<1>1. Init => Log!Init
  <2> SUFFICES ASSUME Init PROVE Log!Init
    OBVIOUS
  <2>1. LinesOf(flows) = <<>> /\ ReadBack(flows) = FlattenSeq(LinesOf(flows))
    BY DEF Init, ReadBack, LinesOf
  <2>2. ReadBack(flows) = <<>>
    BY <2>1 DEF FlattenSeq
  <2> QED BY <2>2 DEF Init, Log!Init
<1>2. IInv /\ [Next]_vars => [Log!Next]_(Log!vars)
  <2> SUFFICES ASSUME IInv, [Next]_vars PROVE Log!Next \/ UNCHANGED Log!vars
    OBVIOUS
  <2>1. ASSUME NEW newLayout \in Layouts, Initialize(newLayout) PROVE Log!Begin
    BY <2>1, InitializeEmpties DEF Initialize, Log!Begin
  <2>2. CASE UpdateValue
    <3>1. Log!Update
      BY <2>2 DEF UpdateValue, Log!Update, ReadBack
    <3> QED BY <3>1 DEF Log!Next
  <2>3. CASE FlushDataSnapshot
    <3>1. Fits(layout)
      BY DEF IInv, TypeOK
    <3>2. Log!TakeSnapshot
      BY <2>3, <3>1, FlushTakesSnapshot DEF FlushDataSnapshot, Log!TakeSnapshot
    <3> QED BY <3>2 DEF Log!Next
  <2>4. CASE GetLog
    BY <2>4, ReadingRestores DEF GetLog, Log!vars, ReadBack
  <2>5. CASE WriteLog
    <3>1. Log!WriteLog
      BY <2>5, ReadingRestores DEF WriteLog, Log!WriteLog, ReadBack
    <3> QED BY <3>1 DEF Log!Next
  <2>6. CASE ResetRecorder
    BY <2>6 DEF ResetRecorder, Log!vars, ReadBack
  <2>7. CASE UNCHANGED vars
    BY <2>7 DEF vars, Log!vars, ReadBack
  <2> QED BY <2>1, <2>2, <2>3, <2>4, <2>5, <2>6, <2>7 DEF Next, Log!Next
<1> QED BY <1>1, <1>2, InitEstablishes, NextPreserves, PTL DEF Spec, LogIsSnapshots, Log!Spec
=============================================================================

-------------------------------- MODULE Startup --------------------------------
(***************************************************************************)
(* From a command line to a running engine: the four verbs of              *)
(* entrypoints/cli.py, the file entrypoints/config.py reads, the narrowing *)
(* the flags ask for, and the graph build_pipeline() composes              *)
(* (entrypoints/pipeline.py) -- with everything that can be refused on the *)
(* way, and what has been opened by then.                                  *)
(*                                                                         *)
(* Data: a table of the file is absent, good, or bad (a key missing, of    *)
(* the wrong shape, or of a value its domain type refuses); an adapter is  *)
(* its name; a position is its underlying.                                 *)
(***************************************************************************)
EXTENDS Integers, SequencesExt, Selection

CONSTANTS
  NoFlag,          \* an option that was not given
  Files,           \* configuration files
  MarketFlags,     \* values of --market, NoFlag among them
  NamesFlags,      \* values of --calibrators, as sequences, NoFlag among them
  Recordings       \* headers of recordings that open

\* A [[market]] of a file, or a market narrowed to.
MarketTable ==
  [id : STRING, underlying : STRING, provider : STRING,
   settings : [{"synthetic", "deribit"} -> {"absent", "good", "bad"}],
   quiet : BOOLEAN, rediscovery : BOOLEAN]

ASSUME StartupAssumption ==
  /\ \A f \in Files : f.markets \in Seq(MarketTable) /\ f.names \in Seq(STRING)
  /\ \A names \in NamesFlags : names = NoFlag \/ names \in Seq(STRING)
  /\ \A found \in Recordings : found.market # NoFlag

VARIABLES
  verb, file, installed,          \* the command, its file, the extras of the environment
  onlyMarket, onlyNames, limit,   \* --market, --calibrators, --duration or --count
  at,          \* what runs next
  config,      \* the AppConfig as narrowed: its markets, producers and book
  header,      \* header of the recording to replay, or NoFlag
  sink,        \* the CSV metrics sink
  tapes,       \* times the file of --recording has been truncated
  loops,       \* the _MarketLoops built
  producers,   \* the _Producers built: [market, name]
  comparisons, \* the _Comparisons built: [market, baseline, challenger]
  exit         \* exit status, or Running

command == <<verb, file, installed, onlyMarket, onlyNames, limit>>
startupVars == <<command, at, config, header, sink, tapes, loops, producers, comparisons, exit>>

Running == -1
CONFIG_EXIT_CODE == 2

Extras == {"jax", "torch", "deribit"}
Feeds == {"constant", "synthetic", "deribit"}
Calibrators == {"flat-vol", "svi-scipy", "svi-jax"}
Learners == {"mlp-torch"}
Writers == {"console", "csv"}

--------------------------------------------------------------------------------
(* The file.                                                               *)

MarketTables == {"conventions"}
PolicyTables == {"admissibility", "snapshot"}
CalibrationTables == {"calibration", "grid", "weighting", "acceptance"}
RiskTables == {"risk", "freshness", "report", "bumps"}
PositionTables == {"position"}
NeuralTables == {"buffer", "gate", "schedule"}
MeshTables == {"mesh"}
ScipyTables == {"fit"}
JaxTables == {"jax"}
TorchTables == {"network", "neural.fit"}
MetricsTables == {"metrics"}
OptionalTables ==
  ScipyTables \cup JaxTables \cup TorchTables \cup MetricsTables \cup {"neural"}
FileTables ==
  MarketTables \cup PolicyTables \cup CalibrationTables \cup RiskTables \cup PositionTables
    \cup NeuralTables \cup MeshTables \cup OptionalTables

\* Tables only asked for when another is there.
Holder(t) == IF t \in NeuralTables \cup MeshTables \cup TorchTables THEN {"neural"} ELSE {}

\* The readers of one key: each refuses what is missing, of another type or out of range.
Wellformed(f, t) == f.tables[t] # "bad"

\* _table(), _tables() and _optional_table()
Present(f, t) == f.tables[t] # "absent" \/ t \in OptionalTables

\* _built(): a table that is there is good.
TableRead(f, t) ==
  (\A h \in Holder(t) : f.tables[h] # "absent") => Present(f, t) /\ Wellformed(f, t)

\* The settings of an extra are of a class only its library can define.
SettingsNeed(t) ==
  IF t \in JaxTables THEN {"jax"} ELSE IF t \in TorchTables THEN {"torch"} ELSE {}

SettingsImportable(f, t) ==
  f.tables[t] # "absent" /\ (\A h \in Holder(t) : f.tables[h] # "absent") =>
    SettingsNeed(t) \subseteq installed

Distinct(seq) == IsInjective(seq)

\* _synthetic() and _deribit(): optional, and read whole.
SettingsRead(m) == \A t \in {"synthetic", "deribit"} : m.settings[t] # "bad"

\* MarketConfig.__post_init__: only its own provider's settings.
MarketTaken(m) ==
  /\ m.provider # ""
  /\ {t \in {"synthetic", "deribit"} : m.settings[t] # "absent"} \subseteq {m.provider}

CalibrationTaken(f) == f.names # <<>> /\ Distinct(f.names)

\* MetricsConfig.__post_init__: a path for the sink that writes one, and for no other.
MetricsTaken(f) == f.tables["metrics"] # "absent" => (f.sink = "csv" <=> f.sinkPath)

\* AppConfig.__post_init__
MarketsTaken(f) ==
  /\ f.markets # <<>>
  /\ Distinct([i \in DOMAIN f.markets |-> f.markets[i].id])

\* load_config()
Loads(f) ==
  /\ f.toml
  /\ \A t \in FileTables : TableRead(f, t) /\ SettingsImportable(f, t)
  /\ \A i \in DOMAIN f.markets : SettingsRead(f.markets[i]) /\ MarketTaken(f.markets[i])
  /\ CalibrationTaken(f) /\ MetricsTaken(f) /\ MarketsTaken(f)

--------------------------------------------------------------------------------
(* The command line.                                                       *)

StartupInit ==
  /\ verb \in {"run", "report", "record", "replay"}
  /\ file \in Files
  /\ installed \in {Extras} \cup {Extras \ {e} : e \in Extras}
  /\ onlyMarket \in (IF verb = "replay" THEN {NoFlag} ELSE MarketFlags)
  /\ onlyNames \in NamesFlags
  /\ limit \in {"absent", "good", "bad"}
  /\ at = "typed"
  /\ config = [markets |-> <<>>, names |-> <<>>, book |-> {}]
  /\ header = NoFlag
  /\ sink = "none"
  /\ tapes = 0
  /\ loops = <<>> /\ producers = <<>> /\ comparisons = <<>>
  /\ exit = Running

\* _metrics_sink(): closed in the finally every way out of _drive passes through.
ReleaseSink == sink' = IF sink = "open" THEN "closed" ELSE sink

\* _fail(), or an exception nobody catches.
Leave(status) ==
  /\ exit' = status
  /\ at' = "over"
  /\ ReleaseSink
  /\ UNCHANGED <<command, config, header, tapes, loops, producers, comparisons>>

Refuse == Leave(CONFIG_EXIT_CODE)

CheckLimit ==
  /\ at = "typed"
  /\ IF limit = "bad" THEN Refuse
     ELSE /\ at' = IF verb = "replay" THEN "opening" ELSE "loading"
          /\ UNCHANGED <<command, config, header, sink, tapes, loops, producers, comparisons, exit>>

\* _open(): no file, or one that is not a recording, or the session it holds.
OpenRecording ==
  /\ at = "opening"
  /\ \/ Refuse
     \/ \E found \in Recordings :
          /\ header' = found
          /\ at' = "loading"
          /\ UNCHANGED <<command, config, sink, tapes, loops, producers, comparisons, exit>>

WantedMarket == IF verb = "replay" THEN header.market ELSE onlyMarket

\* _only_market()
MarketsLeft ==
  IF WantedMarket = NoFlag THEN file.markets
  ELSE Where(file.markets, {i \in DOMAIN file.markets : file.markets[i].id = WantedMarket})

\* _only_calibrators()
NamesLeft == IF onlyNames = NoFlag THEN file.names ELSE onlyNames

NamesKnown == NamesLeft # <<>> /\ ToSet(NamesLeft) \subseteq ToSet(file.names)

Narrowed == [markets |-> MarketsLeft, names |-> NamesLeft, book |-> file.book]

\* _configure(): read, then narrow.  replace() runs __post_init__ again, whose ValueError
\* for a name given twice nobody turns into a ConfigError.
Configure ==
  /\ at = "loading"
  /\ IF ~Loads(file) \/ MarketsLeft = <<>> \/ ~NamesKnown THEN Refuse
     ELSE IF ~Distinct(NamesLeft) THEN Leave(1)
     ELSE /\ config' = Narrowed
          /\ at' = "checking"
          /\ UNCHANGED <<command, header, sink, tapes, loops, producers, comparisons, exit>>

SomeMarket == verb = "record" => Len(config.markets) > 0

\* _one_market()
NamesOneMarket == verb = "record" => Len(config.markets) = 1

\* _require_same_underlying()
SameUnderlying == verb = "replay" => config.markets[1].underlying = header.underlying

CheckMarkets ==
  /\ at = "checking"
  /\ IF ~NamesOneMarket \/ ~SameUnderlying THEN Refuse
     ELSE /\ at' = "driving"
          /\ UNCHANGED <<command, config, header, sink, tapes, loops, producers, comparisons, exit>>

--------------------------------------------------------------------------------
(* _drive() and build_pipeline().                                          *)

\* _metrics_choice() and the opening half of _metrics_sink(): the flag overrides the file,
\* and never chooses the file sink.
OpenSink ==
  /\ at = "driving"
  /\ \E flag \in BOOLEAN :
       IF flag \/ file.tables["metrics"] = "absent" \/ file.sink # "csv"
         THEN /\ at' = "writer"
              /\ UNCHANGED <<command, config, header, sink, tapes, loops, producers, comparisons, exit>>
         ELSE \/ Refuse
              \/ /\ sink' = "open"
                 /\ at' = "writer"
                 /\ UNCHANGED <<command, config, header, tapes, loops, producers, comparisons, exit>>

\* _csv_report_writer(): a path, and one that can be opened.
WriterBuilds(openable) == file.writer = "csv" => file.output /\ openable

SomePositionQuoted ==
  \E i \in DOMAIN config.markets : config.markets[i].underlying \in config.book

\* _require_every_position_is_quoted()
EveryPositionQuoted ==
  config.book \subseteq {config.markets[i].underlying : i \in DOMAIN config.markets}

MakeWriter ==
  /\ at = "writer"
  /\ \E openable \in BOOLEAN :
       IF file.writer \notin Writers \/ ~WriterBuilds(openable) \/ ~EveryPositionQuoted
         THEN Refuse
         ELSE /\ at' = "market"
              /\ UNCHANGED <<command, config, header, sink, tapes, loops, producers, comparisons, exit>>

Market == config.markets[Len(loops) + 1]

\* _book_for()
BookFor(m) == {p \in config.book : p = m.underlying}

\* The live provider of a market, its library found and its chain one it can list.
FeedBuilds(m, lists) ==
  /\ m.provider = "deribit" => "deribit" \in installed
  /\ m.provider = "synthetic" => lists

\* with_recording(): the file is opened, and emptied, before the feed behind it is built;
\* with_replay(): whichever provider is named, the recording answers for it.
Feed(m) == IF verb = "replay" THEN "recorded" ELSE m.provider

HasTimers == verb # "replay"

Loop(m) ==
  [market |-> m.id, feed |-> Feed(m), book |-> BookFor(m),
   heartbeat |-> HasTimers /\ m.quiet, rediscovery |-> HasTimers /\ m.rediscovery]

BuildMarket ==
  /\ at = "market" /\ Len(loops) < Len(config.markets)
  /\ IF BookFor(Market) = {} \/ Market.provider \notin Feeds THEN Refuse
     ELSE \E writable, lists \in BOOLEAN :
       IF verb = "record" /\ ~writable THEN Refuse
       ELSE IF verb # "replay" /\ ~FeedBuilds(Market, lists)
         THEN /\ tapes' = IF verb = "record" THEN tapes + 1 ELSE tapes
              /\ exit' = CONFIG_EXIT_CODE /\ at' = "over"
              /\ ReleaseSink
              /\ UNCHANGED <<command, config, header, loops, producers, comparisons>>
         ELSE /\ tapes' = IF verb = "record" THEN tapes + 1 ELSE tapes
              /\ loops' = Append(loops, Loop(Market))
              /\ at' = "producer"
              /\ UNCHANGED <<command, config, header, sink, producers, comparisons, exit>>

Built(id) == Where(producers, {i \in DOMAIN producers : producers[i].market = id})
NextName == config.names[Len(Built(Last(loops).market)) + 1]

\* _producer_for(), with the factories of default_adapters().
ProducerBuilds(name) ==
  /\ name \in Calibrators \cup Learners
  /\ name \in Learners => file.tables["neural"] # "absent" /\ "torch" \in installed
  /\ name = "svi-jax" => "jax" \in installed

BuildProducer ==
  /\ at = "producer" /\ Len(Built(Last(loops).market)) < Len(config.names)
  /\ IF ~ProducerBuilds(NextName) THEN Refuse
     ELSE /\ producers' = Append(producers, [market |-> Last(loops).market, name |-> NextName])
          /\ UNCHANGED <<command, at, config, header, sink, tapes, loops, comparisons, exit>>

AcrossMarkets(id) ==
  [i \in 1..(Len(producers) - 1) |->
     [market |-> id, baseline |-> producers[1].name, challenger |-> producers[i + 1].name]]

\* _comparisons_for(): the first producer of the market against each of the others.
ComparisonsFor(id) ==
  LET ids == Built(id)
  IN  [i \in 1..(Len(ids) - 1) |->
         [market |-> id, baseline |-> ids[1].name, challenger |-> ids[i + 1].name]]

FinishMarket ==
  /\ at = "producer" /\ Len(Built(Last(loops).market)) = Len(config.names)
  /\ comparisons' = comparisons \o ComparisonsFor(Last(loops).market)
  /\ at' = "market"
  /\ UNCHANGED <<command, config, header, sink, tapes, loops, producers, exit>>

Start ==
  /\ at = "market" /\ Len(loops) = Len(config.markets)
  /\ at' = "running"
  /\ UNCHANGED <<command, config, header, sink, tapes, loops, producers, comparisons, exit>>

\* asyncio.run(pipeline.run()): it ends, is interrupted, or raises.
EndRun == at = "running" /\ \E status \in {0, 1} : Leave(status)

StartupNext ==
  \/ CheckLimit \/ OpenRecording \/ Configure \/ CheckMarkets \/ OpenSink \/ MakeWriter
  \/ BuildMarket \/ BuildProducer \/ FinishMarket \/ Start \/ EndRun

StartupSpec == StartupInit /\ [][StartupNext]_startupVars

--------------------------------------------------------------------------------
(* Properties.                                                             *)

\* "Silently unvalued risk is the one outcome this whole context exists to prevent"
\* (pipeline.py, _require_every_position_is_quoted): whatever the flags left of the file,
\* an engine that starts values every position, on its own underlying, and runs no market
\* with nothing to value.
EveryPositionIsValued ==
  at = "running" =>
    /\ \A p \in file.book : \E i \in DOMAIN loops : p \in loops[i].book
    /\ \A i \in DOMAIN loops :
         loops[i].book # {} /\ \A p \in loops[i].book : p = config.markets[i].underlying

\* "A recording holds one market" (cli.py): the file is emptied once at most, for the one
\* market that runs, and a replay runs that market and nothing else -- its own underlying,
\* no venue behind it and no timer beside it.
RecordingIsOneMarket ==
  /\ tapes <= (IF verb = "record" THEN 1 ELSE 0)
  /\ at = "running" /\ verb \in {"record", "replay"} => Len(loops) = 1
  /\ at = "running" /\ verb = "replay" =>
       /\ loops[1].market = header.market /\ config.markets[1].underlying = header.underlying
       /\ loops[1].feed = "recorded" /\ ~loops[1].heartbeat /\ ~loops[1].rediscovery

\* "a clean end, a refused configuration, an interrupt and an exception out of the run all
\* leave a closed, complete file" (cli.py).
SinkIsReleased == exit # Running => sink # "open"

\* What is compared is what runs: within a market, the first producer against every other,
\* once each, whatever the flags left of the names and of the markets.
ComparedIsWhatRuns ==
  at = "running" =>
    /\ Distinct(producers) /\ Distinct(comparisons)
    /\ ToSet(comparisons) =
         {[market |-> loops[i].market, baseline |-> config.names[1], challenger |-> config.names[j]] :
            i \in DOMAIN loops, j \in 2..Len(config.names)}

\* Exit status 2 "covers every refusal this layer makes before the first quote arrives"
\* (cli.py, CONFIG_EXIT_CODE): nothing else ends a command before it runs.
RefusedMeansTwo == [][ exit' # exit /\ at # "running" => exit' = CONFIG_EXIT_CODE ]_startupVars
================================================================================

------------------------------- MODULE Startup -------------------------------
(***************************************************************************)
(* bootstrap() of src/main.ts: loading the configuration, building the       *)
(* topology at the broker in InitProducer.init, and listening.  Several      *)
(* processes start, die and are started again against one broker.            *)
(*                                                                         *)
(* Of a setting only where its value comes from is kept: the environment of  *)
(* the process, the .env file, the default of the Joi schema, or the          *)
(* constant after || in baseConfig.                                         *)
(***************************************************************************)
CONSTANTS
  Process,      \* the processes
  Environments  \* where they may find their settings

\* A few of the variables, by the way they are treated: the schema requires two,
\* which name what is built at the broker, has a default for one, and does not
\* know the last.
Required == {"EXCHANGE_PROCESS_TRANSACTION", "QUEUE_TRANSACTION_LOG"}
Defaulted == {"EXPRESS_PORT"}
Setting == Required \cup Defaulted \cup {"NODE_APP_COUNTRY"}

\* The variables set in the environment and in the file.
Environment == [os : SUBSET Setting, file : SUBSET Setting]

ASSUME EnvironmentsAssumption == Environments \subseteq Environment

VARIABLES
  env,       \* what each process is started with
  stage,     \* how far bootstrap() has come
  conf,      \* appConfig, as the process has it
  exchanges, \* at the broker
  queues,
  bindings

vars == <<env, stage, conf, exchanges, queues, bindings>>

\* failed: bootstrap() has rejected, and nothing of it runs any more.
Stage ==
  {"down", "loaded", "connected", "channels", "exchanges", "queues", "bound",
   "listening", "failed"}

\* baseConfig, read when envs.config.ts is imported by app.module.ts.
BaseConfig(e) == [s \in Setting |-> IF s \in e.os THEN "os" ELSE "base"]

\* What ConfigModule.forRoot validates and puts into process.env afterwards.
ValidatedConfig(e) ==
  [s \in Setting |->
     CASE s \in e.os -> "os"
       [] s \in e.file \ e.os -> "file"
       [] s \in Defaulted \ (e.os \cup e.file) -> "schema"
       [] OTHER -> "unset"]

Valid(e) == Required \subseteq e.os \cup e.file

Named(kind) == {kind} \X {"os", "base"}

Exchange(p) == <<"exchange", conf[p]["EXCHANGE_PROCESS_TRANSACTION"]>>

Queue(p) == <<"queue", conf[p]["QUEUE_TRANSACTION_LOG"]>>

Init ==
  /\ env \in [Process -> Environments]
  /\ stage = [p \in Process |-> "down"]
  /\ conf = [p \in Process |-> BaseConfig(env[p])]
  /\ exchanges = {}
  /\ queues = {}
  /\ bindings = {}

Advance(p, from, to) ==
  /\ stage[p] = from
  /\ stage' = [stage EXCEPT ![p] = to]

\* The imports of main.ts: a configuration the schema rejects throws here, and
\* the process is down again.
Load(p) ==
  /\ Valid(env[p])
  /\ Advance(p, "down", "loaded")
  /\ conf' = [conf EXCEPT ![p] = BaseConfig(env[p])]
  /\ UNCHANGED <<env, exchanges, queues, bindings>>

Connect(p) ==
  /\ Advance(p, "loaded", "connected")
  /\ UNCHANGED <<env, conf, exchanges, queues, bindings>>

CreateChannels(p) ==
  /\ Advance(p, "connected", "channels")
  /\ UNCHANGED <<env, conf, exchanges, queues, bindings>>

\* What the broker does of a call it is asked for: making what exists already
\* changes nothing.
MakeExchange(p) ==
  /\ stage[p] = "channels"
  /\ exchanges' = exchanges \cup {Exchange(p)}
  /\ UNCHANGED <<env, conf, queues, bindings>>

MakeQueue(p) ==
  /\ stage[p] = "exchanges"
  /\ queues' = queues \cup {Queue(p)}
  /\ UNCHANGED <<env, conf, exchanges, bindings>>

\* As a bug: the queue and the exchange of the binding are swapped.
MakeBindingSwapped(p) ==
  /\ stage[p] = "queues"
  /\ bindings' = bindings \cup {<<Exchange(p), Queue(p)>>}
  /\ UNCHANGED <<env, conf, exchanges, queues>>

MakeBinding(p) ==
  /\ stage[p] = "queues"
  /\ bindings' = bindings \cup {<<Queue(p), Exchange(p)>>}
  /\ UNCHANGED <<env, conf, exchanges, queues>>

CreateExchanges(p) == MakeExchange(p) /\ Advance(p, "channels", "exchanges")

CreateQueues(p) == MakeQueue(p) /\ Advance(p, "exchanges", "queues")

Bind(p) == MakeBinding(p) /\ Advance(p, "queues", "bound")

\* A call of init rejects, whether or not the broker has done it; bootstrap()
\* rejects with it.
InitFails(p) ==
  /\ stage[p] \in {"loaded", "connected", "channels", "exchanges", "queues"}
  /\ stage' = [stage EXCEPT ![p] = "failed"]
  /\ \/ MakeExchange(p) \/ MakeQueue(p) \/ MakeBinding(p)
     \/ UNCHANGED <<env, conf, exchanges, queues, bindings>>

\* As a bug: init is not awaited.
ListenAtOnce(p) ==
  /\ stage[p] \in Stage \ {"down", "failed", "listening"}
  /\ stage' = [stage EXCEPT ![p] = "listening"]
  /\ UNCHANGED <<env, conf, exchanges, queues, bindings>>

\* app.listen, after await InitProducer.init.
Listen(p) ==
  /\ Advance(p, "bound", "listening")
  /\ UNCHANGED <<env, conf, exchanges, queues, bindings>>

\* app.listen rejects, as when the port is taken; bootstrap() rejects with it.
ListenFails(p) ==
  /\ Advance(p, "bound", "failed")
  /\ UNCHANGED <<env, conf, exchanges, queues, bindings>>

\* The process dies at any point; it may be started again.
Crash(p) ==
  /\ stage[p] # "down"
  /\ stage' = [stage EXCEPT ![p] = "down"]
  /\ UNCHANGED <<env, conf, exchanges, queues, bindings>>

Next ==
  \E p \in Process :
    \/ Load(p) \/ Connect(p) \/ CreateChannels(p) \/ CreateExchanges(p)
    \/ CreateQueues(p) \/ Bind(p) \/ InitFails(p)
    \/ Listen(p) \/ ListenFails(p) \/ Crash(p)

Spec == Init /\ [][Next]_vars
----------------------------------------------------------------------------
\* Properties.

\* Type invariant.
TypeOK ==
  /\ env \in [Process -> Environments]
  /\ stage \in [Process -> Stage]
  /\ conf \in [Process -> [Setting -> {"os", "base"}]]
  /\ exchanges \subseteq Named("exchange")
  /\ queues \subseteq Named("queue")
  /\ bindings \subseteq Named("queue") \X Named("exchange")

\* A process that takes requests publishes to an exchange that exists and leads
\* to a queue that exists, whatever failed and died before (main.ts:73-74).
ReadyWhenListening ==
  \A p \in Process :
    stage[p] = "listening" =>
      /\ Exchange(p) \in exchanges
      /\ Queue(p) \in queues
      /\ <<Queue(p), Exchange(p)>> \in bindings

\* app.schema.ts:3 is the validation of the configuration: what it validates,
\* or sets by default, is what the service runs with.
RunsWithValidated ==
  \A p \in Process :
    stage[p] = "listening"
      => \A s \in Setting : ValidatedConfig(env[p])[s] \in {conf[p][s], "unset"}
=============================================================================

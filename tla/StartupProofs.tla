---------------------------- MODULE StartupProofs ----------------------------
(***************************************************************************)
(* Proofs about Startup: the topology a process was told is there stays      *)
(* there, whoever else starts, fails or dies.                               *)
(***************************************************************************)
EXTENDS Startup, TLAPS

\* What init has done for a process by each stage.
IInv ==
  /\ TypeOK
  /\ \A p \in Process :
       /\ stage[p] \in {"exchanges", "queues", "bound", "listening"}
            => Exchange(p) \in exchanges
       /\ stage[p] \in {"queues", "bound", "listening"} => Queue(p) \in queues
       /\ stage[p] \in {"bound", "listening"}
            => <<Queue(p), Exchange(p)>> \in bindings

\* baseConfig is of the type of appConfig.
LEMMA BaseConfigType ==
  \A e : BaseConfig(e) \in [Setting -> {"os", "base"}]
BY DEF BaseConfig

\* The names a process uses are names of the kind they are used for.
LEMMA NamesType ==
  ASSUME TypeOK, NEW p \in Process
  PROVE  Exchange(p) \in Named("exchange") /\ Queue(p) \in Named("queue")
BY DEF TypeOK, Exchange, Queue, Named, Setting, Required, Defaulted

\* No step takes anything away from the broker, and only Load, which starts
\* over, changes a configuration.
LEMMA TopologyGrows ==
  ASSUME TypeOK, [Next]_vars
  PROVE  /\ exchanges \subseteq exchanges'
         /\ queues \subseteq queues'
         /\ bindings \subseteq bindings'
         /\ \A p \in Process :
              stage'[p] \notin {"down", "loaded"} => conf'[p] = conf[p]
<1>1. CASE UNCHANGED vars
  BY <1>1 DEF vars
<1>2. ASSUME NEW p \in Process, Load(p)
      PROVE  /\ UNCHANGED <<exchanges, queues, bindings>>
             /\ \A q \in Process :
                  stage'[q] \notin {"down", "loaded"} => conf'[q] = conf[q]
  BY <1>2 DEF Load, Advance, TypeOK
<1>3. ASSUME NEW p \in Process,
             \/ Connect(p) \/ CreateChannels(p) \/ CreateExchanges(p)
             \/ CreateQueues(p) \/ Bind(p) \/ InitFails(p) \/ Listen(p)
             \/ ListenFails(p) \/ Crash(p)
      PROVE  /\ UNCHANGED conf
             /\ exchanges \subseteq exchanges'
             /\ queues \subseteq queues'
             /\ bindings \subseteq bindings'
  BY <1>3 DEF Connect, CreateChannels, CreateExchanges, CreateQueues, Bind,
              InitFails, Listen, ListenFails, Crash, MakeExchange, MakeQueue,
              MakeBinding
<1> QED
  BY <1>1, <1>2, <1>3 DEF Next

\* IInv holds when no process has started.
LEMMA InitEstablishes == Init => IInv
<1> SUFFICES ASSUME Init PROVE IInv
  OBVIOUS
<1>1. TypeOK
  BY BaseConfigType DEF Init, TypeOK, Stage
<1>2. \A p \in Process : stage[p] = "down"
  BY DEF Init
<1> QED
  BY <1>1, <1>2 DEF IInv

\* Every step keeps the types.
LEMMA NextKeepsTypes ==
  ASSUME TypeOK, [Next]_vars
  PROVE  TypeOK'
<1>1. CASE UNCHANGED vars
  BY <1>1 DEF vars, TypeOK
<1>2. ASSUME NEW p \in Process, Load(p)
      PROVE  TypeOK'
  BY <1>2, BaseConfigType DEF Load, Advance, TypeOK, Stage
<1>3. ASSUME NEW p \in Process,
             Connect(p) \/ CreateChannels(p) \/ Listen(p) \/ ListenFails(p)
      PROVE  TypeOK'
  BY <1>3 DEF Connect, CreateChannels, Listen, ListenFails, Advance, TypeOK,
              Stage
<1>4. ASSUME NEW p \in Process,
             MakeExchange(p) \/ MakeQueue(p) \/ MakeBinding(p)
      PROVE  /\ UNCHANGED <<env, conf>>
             /\ exchanges' \subseteq Named("exchange")
             /\ queues' \subseteq Named("queue")
             /\ bindings' \subseteq Named("queue") \X Named("exchange")
  BY <1>4, NamesType DEF MakeExchange, MakeQueue, MakeBinding, TypeOK
<1>5. ASSUME NEW p \in Process, CreateExchanges(p)
      PROVE  TypeOK'
  BY <1>4, <1>5 DEF CreateExchanges, Advance, TypeOK, Stage
<1>6. ASSUME NEW p \in Process, CreateQueues(p)
      PROVE  TypeOK'
  BY <1>4, <1>6 DEF CreateQueues, Advance, TypeOK, Stage
<1>7. ASSUME NEW p \in Process, Bind(p)
      PROVE  TypeOK'
  BY <1>4, <1>7 DEF Bind, Advance, TypeOK, Stage
<1>8. ASSUME NEW p \in Process, InitFails(p)
      PROVE  TypeOK'
  <2>1. stage' \in [Process -> Stage]
    BY <1>8 DEF InitFails, TypeOK, Stage
  <2>2. CASE UNCHANGED <<env, conf, exchanges, queues, bindings>>
    BY <2>1, <2>2 DEF TypeOK
  <2>3. CASE MakeExchange(p) \/ MakeQueue(p) \/ MakeBinding(p)
    BY <1>4, <2>1, <2>3 DEF TypeOK
  <2> QED
    BY <1>8, <2>2, <2>3 DEF InitFails
<1>9. ASSUME NEW p \in Process, Crash(p)
      PROVE  TypeOK'
  BY <1>9 DEF Crash, TypeOK, Stage
<1> QED
  BY <1>1, <1>2, <1>3, <1>5, <1>6, <1>7, <1>8, <1>9 DEF Next

\* A process gets past a stage only by what it stands for: no process is at a
\* stage of init it was not at before, but by the call that leads there.
LEMMA StageReached ==
  ASSUME TypeOK, [Next]_vars, NEW p \in Process, stage'[p] # stage[p]
  PROVE  \/ stage'[p] \in {"down", "loaded", "connected", "channels", "failed"}
         \/ stage'[p] = "exchanges" /\ CreateExchanges(p)
         \/ stage'[p] = "queues" /\ CreateQueues(p)
         \/ stage'[p] = "bound" /\ Bind(p)
         \/ stage'[p] = "listening" /\ stage[p] = "bound"
<1>1. PICK q \in Process :
        \/ Load(q) \/ Connect(q) \/ CreateChannels(q) \/ CreateExchanges(q)
        \/ CreateQueues(q) \/ Bind(q) \/ InitFails(q) \/ Listen(q)
        \/ ListenFails(q) \/ Crash(q)
  BY DEF Next, vars
<1>2. q = p
  BY <1>1 DEF Load, Connect, CreateChannels, CreateExchanges, CreateQueues,
              Bind, InitFails, Listen, ListenFails, Crash, Advance, TypeOK
<1> QED
  BY <1>1, <1>2 DEF Load, Connect, CreateChannels, CreateExchanges,
       CreateQueues, Bind, InitFails, Listen, ListenFails, Crash, Advance, TypeOK

\* Every step keeps IInv.
LEMMA NextKeeps ==
  ASSUME IInv, [Next]_vars
  PROVE  IInv'
<1>1. TypeOK /\ TypeOK'
  BY NextKeepsTypes DEF IInv
<1> SUFFICES ASSUME NEW p \in Process
             PROVE
               /\ stage'[p] \in {"exchanges", "queues", "bound", "listening"}
                    => Exchange(p)' \in exchanges'
               /\ stage'[p] \in {"queues", "bound", "listening"}
                    => Queue(p)' \in queues'
               /\ stage'[p] \in {"bound", "listening"}
                    => <<Queue(p)', Exchange(p)'>> \in bindings'
  BY <1>1 DEF IInv
<1> SUFFICES ASSUME stage'[p] \notin
                      {"down", "loaded", "connected", "channels", "failed"}
             PROVE
               /\ stage'[p] \in {"exchanges", "queues", "bound", "listening"}
                    => Exchange(p)' \in exchanges'
               /\ stage'[p] \in {"queues", "bound", "listening"}
                    => Queue(p)' \in queues'
               /\ stage'[p] \in {"bound", "listening"}
                    => <<Queue(p)', Exchange(p)'>> \in bindings'
  OBVIOUS
<1>2. /\ exchanges \subseteq exchanges' /\ queues \subseteq queues'
      /\ bindings \subseteq bindings'
      /\ Exchange(p)' = Exchange(p) /\ Queue(p)' = Queue(p)
  BY <1>1, TopologyGrows DEF Exchange, Queue
<1>3. CASE \/ stage'[p] = stage[p]
           \/ stage'[p] = "listening" /\ stage[p] = "bound"
  BY <1>2, <1>3 DEF IInv
<1>4. CASE stage'[p] = "exchanges" /\ CreateExchanges(p)
  BY <1>2, <1>4 DEF CreateExchanges, MakeExchange
<1>5. CASE stage'[p] = "queues" /\ CreateQueues(p)
  BY <1>2, <1>5 DEF CreateQueues, MakeQueue, IInv
<1>6. CASE stage'[p] = "bound" /\ Bind(p)
  BY <1>2, <1>6 DEF Bind, MakeBinding, IInv
<1>7. \/ stage'[p] = stage[p]
      \/ stage'[p] = "listening" /\ stage[p] = "bound"
      \/ stage'[p] = "exchanges" /\ CreateExchanges(p)
      \/ stage'[p] = "queues" /\ CreateQueues(p)
      \/ stage'[p] = "bound" /\ Bind(p)
  BY <1>1, StageReached
<1> QED
  BY <1>3, <1>4, <1>5, <1>6, <1>7

\* IInv is an invariant of bootstrap(), for any set of processes and any
\* environments.
THEOREM Invariance == Spec => []IInv
<1>1. IInv /\ UNCHANGED vars => IInv'
  BY NextKeeps
<1> QED
  BY InitEstablishes, NextKeeps, <1>1, PTL DEF Spec

\* The variables keep their types.
THEOREM TypeCorrect == Spec => []TypeOK
<1>1. IInv => TypeOK
  BY DEF IInv
<1> QED
  BY Invariance, <1>1, PTL

\* A process that takes requests publishes to an exchange that exists and leads
\* to a queue that exists (main.ts:73-74, initializer.ts:20-38).
THEOREM ReadyWhenListeningHolds == Spec => []ReadyWhenListening
<1>1. IInv => ReadyWhenListening
  BY DEF IInv, ReadyWhenListening
<1> QED
  BY Invariance, <1>1, PTL
=============================================================================

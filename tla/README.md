# A verification project for funds-out

`funds-out` (`payments-integrations-api-interop`) is a NestJS service with one
business endpoint, `POST /fund-out/create-transaction`. It checks a request,
asks the bank for information about the payee's account, orders a transfer,
answers the client, and publishes one event to RabbitMQ for the request and one
for each result. Nothing is persisted: what the service knows of a request is in
the stack of one async handler.

This directory holds TLA+ modules of that service, TLC configurations that check
them on small instances, and TLAPS proofs for every value of the constants.
Paths below are relative to the repository's root.

## 1. The system

| Part | State | Operations | Talks to |
|---|---|---|---|
| `FundOutController` (`src/fund-out/fund-out.controller.ts`) with `CustomerInterbankInfoService` and `TransferExecuteService` | locals of `createTransaction` | one handler with four awaits | both services, the producer |
| Interceptors and `ValidationPipe` (`src/middlewares/`, `src/fund-out/dtos/`, `src/main.ts:64`) | none | country, timeout, api key, body | before the handler |
| `ProxyService` (`src/utils/proxy.service.ts`, `src/utils/create-new-error/`) | none | `doRequest`, `handlerError` | every HTTP call |
| Mappers (`src/*/mapper/`) | none | `transform` | body to bank request and back |
| `AccessTokenService` (`src/access-token/`) | one cache entry, shared | `get` | cache, token service |
| `ProducerService` (`src/rabbit-mq/producer.service.ts`) | none | `publishToTransactionProcessor`, `publishMessage` | the library's connection, the broker |
| `bootstrap` and `InitProducer` (`src/main.ts`, `src/rabbit-mq/initializer.ts`) | stage of the start | connect, channels, exchanges, queues, bind, listen | broker |
| Configuration (`src/config/`, `src/schemas/`) | `appConfig` | read at import | everything |
| Logging, tracing, health check | none | output | none |

How they interact: the interceptors and the pipe throw before the handler runs.
The handler publishes without awaiting (controller lines 59, 70, 84, 91), then awaits
`CustomerInterbankInfoService.get` and after it `TransferExecuteService.get`.
Each of those awaits `AccessTokenService.get` and then `ProxyService.doRequest`,
each in a try block of its own. All requests share the token's cache entry and
the RabbitMQ connection, and nothing else.

What is hard here:

- *A timeout that is an approval.* When the transfer times out the service
  answers "approved" (`transfer-execute.service.ts:72`), while the bank may
  execute the order later, refuse it or never see it. The exception that leads
  there is one the token service and the interbank call throw too.
- *Failures after success.* A 2xx body that does not parse, or is `null`, throws
  when the money has moved.
- *A shared cache without a lock.* Calls that miss together all ask for a token,
  and overwrite each other's entry when their answers come, in any order.
- *Publications nobody awaits*, with a reconnection and one retry inside.
- *Death of the process* between any two awaits.
- *A client that repeats.* Nothing recognises a `unique_id` seen before.
- *Two mappers* that read one body twice, and a body that may lack what they read.
- *A start-up* that may fail half-way over a broker that remembers.

## 2. The modules

| Module | Models | Kind |
|---|---|---|
| `HttpProxy` | what axios settles a call with, and what `doRequest` makes of it | operators |
| `Payload` | the tree of DTOs, what validation accepts of it, where the mappers throw | operators |
| `Orders` | the two bodies the mappers make for the bank, and what the DTOs declare of the order | operators |
| `RequestChecks` | the three interceptors and the pipe, in order | operators |
| `FundOut` | the handler, both services, the bank's side of an order | state machine |
| `FundOutRepeated` | `FundOut` under a client that repeats a payment | state machine |
| `FundOutWithTokens` | `FundOut` and `AccessToken`: every await of a token is a call of `get` | composition |
| `FundOutWithEvents` | `FundOut` and `Producer`: every event handed over is a publication | composition |
| `FundOutSystem` | both compositions at once, with the theorems that need both | composition, proofs |
| `FundOutContract` | what the endpoint promises: what the client was told against where the money is | abstract specification |
| `PaymentContract` | what a client is promised that repeats: many attempts, one payment | abstract specification |
| `AccessToken` | `AccessTokenService.get` over the cache, with time | state machine |
| `TokenContract` | what `get` promises its callers: a pool of tokens, no cache | abstract specification |
| `Producer` | publication, retry and routing | state machine |
| `EventDelivery` | what a publication promises: how it ends against the copies that arrive | abstract specification |
| `Startup` | `bootstrap`, `InitProducer.init`, where settings come from | state machine |
| `MC*` | values of the constants for TLC | instances |
| `*Proofs` | theorems | proofs |

`FundOut` extends `RequestChecks`, which extends `Orders`, `Payload` and
`HttpProxy` in turn; `AccessToken` and `Producer` extend `HttpProxy` as well.
`FundOut` instantiates `FundOutContract` under a refinement mapping, and so do
`FundOutRepeated`, `AccessToken` and `Producer` their abstract specifications. The two
compositions extend `FundOut` and instantiate the other component.

Operators whose comment starts with "As a bug" are no part of any
specification. Each is a way the definition after it could have been written
wrong; put in its place it violates one of the properties, which shows that the
property says something about that code.

### HttpProxy

A call settles with an `Outcome`: an `Answer` (a 2xx body, by what the code
reads of it) or a `Failure` (the `code`, status and stack that `handlerError`
looks at). `Thrown` is `handlerError` and `createNewError` on it.
`OutcomesUnder(timer)` is what can happen under the request's timer: the
`x-flow-timeout` header is passed on as a string, so `"0"` passes the check,
is truthy, and sets no timer.

### Payload, Orders and RequestChecks

A node of the body is an object whose own fields pass, is malformed, or is an
empty list. The last exists because `@IsNotEmpty()` and `@ValidateNested()` of
class-validator 0.13.2 accept `[]`. The text of a field appears only where
something reads it: the account ids, by whether they have the digits
`cciToNroCuenta` cuts out, each of the two on its own; the owner's document
type, by whether the mappers have a code for it; the payer's email and names, by
whether they are there.

`InterbankInfoOrder` and `TransferOrder` are the two `transform` functions. As in
the code, each has its own table of document types (`INTERBANK_DNI_MAPPER` and
`TRANSFER_DNI_MAPPER`) and reads the body on its own, so that the two may come to
differ. A value taken from the body is named by its field, so that one can see
where an account on either side comes from. `Declared` is what the DTOs under
`src/transfer-execute/dtos` say of the order; the code never validates it.

### FundOut

| Variable | Code |
|---|---|
| `pc` | which await of the handler a request is at: `token1`, `interbank`, `token2`, `transfer` |
| `input` | headers and body |
| `transferId` | `transactionIdentifier` (controller line 68) |
| `published` | calls of `publishToTransactionProcessor`, in order |
| `order`, `executions` | the bank's side (external) |
| `reply` | the answer, or that the process died |

An action is what the event loop runs between two awaits. `CreateTransaction`
runs from the start to the first await, `AskInterbankInfo` from the token to the
request, `InterbankInfo` from its answer into the second service's wait for a
token, and so on; each `...Fails` action is the catch block that follows,
together with the event and the reply of the controller's own catch block.
`TokenSettles` lets `accessTokenService.get()` resolve, or reject with anything
it can throw; its inside is `AccessToken`. `Crash` loses all requests in flight.

`FundOutContract` knows two things of a request, `status` and `money`. It says
that an order leaves only for an open request and only once, that "confirmed" is
said only when the money has moved, "unconfirmed" only of an order, "refused"
only when the money is and stays where it was, and that no answer changes.

### AccessToken

A token is the time it was issued. `cache` is the one entry with the time it was
stored; `Ttl` is `expiration_minutes * 60` and `RequestTimeout` the timer of the
request. `Tick` may not pass a pending timer, nor a call that has work to do at
once: turns of the event loop take no time. Both cache operations may reject.
What the cache answers (`CacheAnswers`) is used in a later turn (`CacheHit`,
`CacheMiss`), since the code awaits in between: another call may store a token,
or the process die, before it is.

`TokenContract` knows no cache and no ttl. It has a pool of tokens at hand, which
is mapped to the entry of the cache and the answers of the calls under way
(`AtHand`), and says that a call settles once, gets a token from the pool that is
not older than `MaxAge` (`Ttl + RequestTimeout`), and, if it went to ask itself,
none from before. A call goes without a token only if it asked itself: an answer
without `access_token` is stored, but reads as a miss to every other call.

### Producer

`asked` holds the arguments of a publication and `args` those of the running
try, because the retry rebuilds them from `msg` alone. Each try sends a
copy; the broker may route it at any later time, or never. The call resolves
only once its copy is routed and may reject either way.

`EventDelivery` counts the copies of an event on their way and at the broker. A
copy leaves only while the call is open and within the limit (two with `retry`,
else one); it may arrive after the call has failed or the process has died; a
call resolves only when the broker has the event. Tries, reconnections and
arguments are hidden.

### FundOutWithTokens

`<<r, "token1">>` and `<<r, "token2">>` are the calls of `get` of request `r`. A
turn of the event loop in which a call starts or settles is one step of both
components: `CreateTransaction` with `Get`, `AskInterbankInfo` with `CacheHit` or
`CacheSet`, `InterbankTokenFails` with the exception the call rejects with.
`TokenUnderWay` and `TimePasses` move the calls alone, `ProcessDies` kills the
requests, the calls and the cache together.

### FundOutWithEvents

`<<r, n>>` is the publication of the nth event of `r`. Whatever a step adds to
`published`, the producer starts to publish in the same step (`ServiceStep`):
`publishToTransactionProcessor` runs up to its own first await before the
controller goes on. From there a publication moves alone. A rejection at its end
reaches nobody; where an unhandled rejection ends the process (Node 15 and later;
the `Dockerfile` has 12), that is a case of `ProcessDies`.

### FundOutSystem

The conjunction of `TokensSpec` and `EventsSpec`: they share the variables of
`FundOut` and no others, so a step of the system is one that both allow. When the
process dies with no request in flight, either may take the step without the
other, so the system has a few behaviours too many and none too few.

### FundOutRepeated

All requests are attempts at one payment. The client makes a new one when every
earlier one is over (`Over`): refused (400, 401, 403, 404, 408), answered with a
500 or a 504, or lost with the process. Only an approval, or an attempt still under
way, keeps it from trying again. The service treats the attempts as unrelated, and
so does the module. The bank may execute the order of an attempt that is over
while later ones run.

`PaymentContract` has one payment: the approvals given of it (`told`), the
attempts the client is in doubt of (`doubted`: a 5xx, or no answer), and those
whose order is on its way (`pending`), executed (`moved`) or come to nothing
(`void`). An order leaves only while there is no approval and while every order
that can move the money, or has, is of an attempt in doubt. There is one approval
at most, of an attempt not in doubt, and "confirmed" only of one that moved the
money. A refusal is mapped to no step: that refused attempts are as if they had
not been made is what the refinement says.

### Startup

Processes start, die and start again over one broker. A call of `init` that
rejects may have had its effect (`InitFails`); `app.listen` may reject after all of
them (`ListenFails`). A setting is reduced to where its
value comes from: the environment, `.env`, the schema's default, or the constant
after `||` in `baseConfig`. The four settings stand for the ways the code treats
one: required (two of them, which name the exchange and the queue), defaulted, and
unknown to the schema.

## 3. Runs

| Run | Instance | Distinct states |
|---|---|---|
| `fundout` | one request, every `Request` (26100 inputs), with fairness | 115368 |
| `fundout_repeated` | three attempts at one payment, symmetric | 894336 |
| `fundout_tokens` | one request of each way through the handler, `Ttl` 1, `RequestTimeout` 2, `MaxTime` 6 | 146284 |
| `fundout_events` | one request of each way through the handler, two publications | 60067 |
| `token_safety` | three calls, `Ttl` 1, `RequestTimeout` 2, `MaxTime` 6, symmetric | 744090 |
| `producer_safety` | two publications, any arguments, symmetric | 8256 |
| `startup_safety` | two processes, four environments each | 4286 |
| `authorization_code`, `transfer_id`, `order_declared`, `mapper`, `startup_config` | one request or process; each stops at a violation | |

What the passing runs show:

- `ConfirmedMoved`: "TRANSACCION OK" is said only of money that moved once.
- `PresumedOrdered`: the approval on timeout is never given before an order left.
- `RefusalIsFinal`: after a 400, 401, 403, 404 or 408 the money has not moved and
  never will.
- `OneExecution`: a request never moves money twice.
- `AuditTrail`: the events of a request are the request and then, unless the
  process died, one response that agrees with the reply.
- `SameParties`: the order is between the accounts, in the direction and for the
  document that the interbank request named. The two come from two mappers: a change
  in the table or a reading of one alone violates it.
- `OrderComplete`: of a body that gives everything, the order lacks the
  beneficiary's email, the `transferId` exactly when the interbank information had
  none, and no other field.
- `ImplementsContract`: `FundOut` implements `FundOutContract`.
- `EventuallyAnswered`: a request whose `x-flow-timeout` leaves it a timer is
  answered, or lost with the process, whatever its body and outcomes are.
- `TokenAgeBounded`: a token is at most `Ttl + RequestTimeout` old when `get`
  returns it. The bound is not `Ttl`: the ttl counts from storing.
- `StampedeBounded`: a request to the token service that is under way while the
  cache is fresh was sent before the entry was stored.
- `ImplementsTokenContract`: to its callers the cache is the pool of `TokenContract`,
  though calls overlap, overwrite each other's entry and lose it with the process.
- `PaidTwiceOnlyInDoubt`: a client that repeats after a refusal, a 5xx or no answer
  at all pays twice only if one of the two attempts left it in doubt: not when the
  order of a refused attempt had left for the bank, and never with two approvals.
- `ImplementsPayment`: its attempts together are one payment of `PaymentContract`:
  no order beside one that may move the money unless the client knows of the doubt,
  none after an approval, and one approval that is true of the payment as a whole.
- `CallsMatch`: a call of `get` is under way exactly where its service awaits it.
- `TokenFailureStopsOrder`: after a rejected call of `get`, the one whose token
  arrived and could not be stored included, nothing is ordered.
- `OrderTokenAge`: the bound on a token's age holds of the one an order leaves
  with, however long the interbank information took.
- `CallsSettle`: every call of `get` settles, by its timer if need be.
- `ImplementsFundOut` (`fundout_tokens`): the composition implements `FundOut`. That
  its safety part does follows from how the composition is written; what is checked
  is the fairness of `FundOut`, whose assumption that a token always arrives or
  fails is discharged by the clock and the timer of the token service.
- `BrokerAgrees`: what the broker holds of a request, late, retried or left by a
  dead process, agrees with what the client was told.
- `AuditComplete`: when a client has its answer, an event is missing at the
  broker only while its publication is under way or because it failed.
- `ImplementsFundOut` (`fundout_events`): again with the fairness of `FundOut`: the
  client waits for no publication, though the broker owes nothing.
- `ResolvedIsRouted`, `AtMostTwice`, `SameDelay`: what a resolved publication
  means, how often its event arrives, and that the retry keeps the delay.
- `ImplementsDelivery`: a publication with its retry is a delivery of
  `EventDelivery`: it ends once, and no copy leaves after its end.
- `ReadyWhenListening`: a process that listens has its exchange, queue and
  binding at the broker.

What the violated runs show. Each checks what a declaration or comment of the
repository says, and TLC shows how the code does otherwise:

- `authorization_code`: an approved reply without the `authorization_code` that
  `transfer-execute/dtos/transaction.dto.ts` declares as not empty.
- `transfer_id`: an order without the `transferId` that
  `transfer-execute/dtos/transfer.dto.ts` declares as not empty.
- `order_declared`: an order without fields its DTOs declare. The beneficiary's
  email is empty in every order; the body in the trace, which is accepted, adds
  empty account numbers (ids shorter than four digits), no document type (other
  than DNI and CE) and no names (the payer need not give them).
- `mapper`: a validated body on which the interbank mapper throws, although its
  comment says that validation makes optional chaining unnecessary.
- `startup_config`: a process that listens on the port in `baseConfig` (8080)
  and not on the default of the schema (3056), because `baseConfig` is read when
  the module is imported, before `ConfigModule.forRoot` runs. For the same reason
  a value that only `.env` holds is validated and not used.

### Why the bounds are enough

- *Requests.* Requests share no variable of `FundOut` but the crash, and every
  property speaks of one request at a time; one request with every input covers
  them, and the theorems do for any set. A repeated payment takes two attempts to
  go wrong; three are checked.
- *Compositions.* One request makes both of its calls of `get` and both of its
  publications, so it meets a cache hit, an expiry between its calls, a retry and
  a response that overtakes its request. What several requests do to one cache is
  the subject of `token_safety`; two requests in `fundout_tokens` have more than
  seven million states. The theorems hold for any number of them.
- *Time.* `MaxTime` 6 in `fundout_tokens` lets the first call take its whole
  timeout (its token is stored at 2), the token expire (it is stale from 4 on), and
  the second call start then and take its whole timeout (until 6).
- *Token calls.* Three calls give every way two of them overlap (miss together,
  answer in the other order, overwrite a newer entry) with a third that reads
  the result. `MaxTime` 6 is one full request, one full ttl and another request
  with a step to spare. `Get` starts no call whose timer would lie past
  `MaxTime`, so the bound never cuts off a timeout.
- *Publications.* They share nothing but the crash; a publication has at most
  two tries by the code, so no bound on copies is needed.
- *Processes.* They share the broker, and two are enough for one to find what
  the other left; the theorem does for any number.

### Deadlock

Every run sets `CHECK_DEADLOCK FALSE`: a service that has answered all requests,
settled all calls or reached `MaxTime` may stop. That nothing stops too early is what
the liveness properties say.

### Fairness

`FundOut`: a turn of the event loop whose promise has settled is taken; a call
with a timer settles because the timer fires; a call without one
(`x-flow-timeout: 0`) is owed nothing. The client, the bank and crashes have no
fairness. `FundOut` takes it that a token always arrives or fails;
`TokensFairness` replaces that by what `AccessToken` has: time passes, a call
takes its turns and its timer fires, and the token service owes nothing.
`EventsFairness` is the fairness of `FundOut` alone: publications and the broker
have none. `Producer`, `Startup` and `FundOutRepeated` have only safety properties.

## 4. What is assumed of the outside

- The bank answers 2xx only after executing an order, and 4xx other than 408 only
  if it will not execute it. A 408, a 5xx, a broken connection and a timeout say
  nothing. A host that cannot be resolved or refuses the connection got no order.
- Answers arrive whole: the client's timer covers the whole call.
- An entry of the cache is returned while `now - stored <= ttl`.
- `fif-payments-module-rabbit` and `@payments/http-client` are not in the
  repository. They are modelled from how the code uses them: `rabbitPublishEvent`
  resolves only when the broker has the message; creating what exists changes
  nothing; any call may reject. Whether the broker takes the empty name that
  `baseConfig` falls back to is left open (both happen).
- class-validator behaves as version 0.13.2 of `package.json`, and the HTTP client
  inside `@payments/http-client` is an axios that settles as `HttpProxy` says.

## 5. What is proved

All proofs are checked to the last leaf, and none assumes more than the
assumptions on the constants in the modules.

**`FundOutProofs`** — for any set of requests and any inputs. None of the safety
properties is inductive: `RefusalIsFinal`, for one, needs to know that an
answered request whose checks failed has no order, and that a request in flight
has one only at the last await. `IInv` is `TypeOK` with, for each request,
`Untouched` (nothing happened before the checks), `Handled` (in the handler:
checks passed, one event, no reply, an order exactly at the last await),
`Replied` (the reply is true of the order), `Counted` (executions follow the
order) and `Audited`. The lemmas below it are about the operators:
`DefiniteError` says that a call reads as a definite refusal only when the bank
said so or could not be reached. From `IInv` follow `TypeCorrect`,
`ConfirmedMovedHolds`, `PresumedOrderedHolds`, `RefusalIsFinalHolds`,
`OneExecutionHolds` and `AuditTrailHolds`. `Refinement` proves
`Spec => ImplementsContract`: each action maps to one action of the contract or
to a stutter, and `IInv` gives the guard of that action. `SamePartiesHolds` needs no
invariant: by `SameDocumentType` the two tables and readings agree on any body.
`OrderCompleteHolds` needs that `transferId` is an id or undefined.

**`FundOutRepeatedProofs`** — for any number of attempts. `RepeatedIsService` makes
`IInv` available; with it, the invariant of the client is `OneOpen`: of any two
attempts made one is over. An attempt that is over, or was never made, is
`Settled`: it gave no approval, and its order can move money, or has, only where
the client is in doubt (`OverIsSettled`, which is where `Replied` comes in).
`PaidTwiceHolds` follows. `PaymentRefined` proves `ImplementsPayment`: beside the
attempt that acts there are only settled ones (`OthersSettled`), so the sets the
mapping takes over all attempts change by that attempt alone, and each step of
the service is a step of the payment or none. For a client that repeats only after
a refusal (`CarefulSpec`, which is a case of `RepeatedSpec`), `MovedOnceHolds` says
that money never moves twice.

**`AccessTokenProofs`** — for any calls, `Ttl`, `RequestTimeout` and `MaxTime`.
`TokenAgeBounded` is not inductive: it needs how old a token may be when its
answer arrives, when it is stored, and from then on. `IInv` bounds each by the
time its request was sent, says that a request never outlives its timer and that
one that is under way while the cache is fresh is older than the entry, which
gives `TokenAgeBoundedHolds` and `StampedeBoundedHolds`. `TokenContractRefined`
proves `ImplementsTokenContract`: by `AtHandIs` a token at hand is the cache's
or that of a call under way, so that a turn adds none (`AtHandShrinks`), only
`TokenIssued` does, and `IInv` gives the age and the order in which a call asked
and its token was issued.

**`FundOutWithTokensProofs`** — for any requests, `Ttl`, `RequestTimeout` and
`MaxTime`. Each step of the composition is a step of either component or leaves it
alone (`FundOutRefined`, and `StepIsTokens` for the token service), as it is
written to be, so that the theorems of `FundOutProofs` and `AccessTokenProofs`
(instantiated here) hold of it; `ContractRefined` and `TokenContractHolds` are
among them. `LinkInv` ties the two:
which call is under way at which await, and what the end of a call left behind.
`CallsMatchHold`,
`TokenFailureStopsOrderHolds` and `OrderTokenAgeHolds` follow.

**`FundOutWithEventsProofs`** — for any requests. `FundOutRefined` and, for the
producer, `StepIsProofs` as above, and with the latter `DeliveryHolds`. `JointInv`
adds to both invariants that exactly the events in `published` have left the state
"idle" at the producer (`Started`). With
`IInv`, which relates `published` to the reply, it gives `BrokerAgreesHolds`, and
with the producer's `Progress`, `AuditCompleteHolds`.

**`FundOutSystem`** — for any requests, `Ttl`, `RequestTimeout` and `MaxTime`.
`ApprovalAtBrokerHolds` is about the broker and the cache at once: an approval the
broker holds stands for an order that left, with both calls of `get` resolved and
a token of bounded age. `BrokerAgrees` leads from the event to the reply, `Replied`
from there to the order, and `Linked` to the calls. `ContractsHold` has all three
contracts hold of the system, and `SystemPaymentHolds` that the attempts of a client
of it which repeats what failed or was lost are one payment of `PaymentContract`.
No run checks the conjunction: one request in it has well over a million states.

**`ProducerProofs`** — for any publications and arguments. `Progress`, the part of
`IInv` for one publication, says which copies exist at each place: none while it is
idle, the first try's until a retry, then the second's too, with the arguments
left for it; and that the broker holds only copies that were sent. From it follow
`ResolvedIsRoutedHolds`, `AtMostTwiceHolds` and `SameDelayHolds`. `DeliveryRefined`
proves `ImplementsDelivery`; what it rests on is counting: `SentCounted` bounds the
copies by the tries at each place, and `CopiesSplit` divides them into those on
their way and those at the broker, so that routing moves one from the first to
the second and only `Reconnected`, which finds one copy sent and two allowed, adds
another.

**`StartupProofs`** — for any processes and environments. `IInv` says what each
stage of `init` has left at the broker; it is kept because the topology only
grows (`TopologyGrows`) and only `Load`, which starts over, changes a
configuration. `ReadyWhenListeningHolds` follows.

Only model-checked: the liveness properties `EventuallyAnswered` and `CallsSettle`
and the fairness in both `ImplementsFundOut` (TLAPS has no backend for `ENABLED`
and fairness; the safety part is proved as `FundOutRefined`), and the five
violated statements.

## 6. What is not modelled

- The words: messages, logs, `processError`, the constant fields of the mappers and
  the random voucher number. No decision depends on them. (The DTOs declare the
  constant `exchangeRateAmount` both `@IsString()` and `number`; it is a number.)
- Logging, tracing, the health check, Swagger: output only.
- The values of settings, and a `NEST_ENV` that names no configuration.
- A client that disconnects before its answer: the handler runs on and reads nothing
  of the connection, so that all said here of a reply holds of the one it gives.
  Nor a client that repeats while an attempt is under way, or that was given an
  approval it did not hear: nothing in the code keeps it from paying twice, and no
  document promises otherwise.
- What an order does that leaves with `Bearer undefined`, because the token service
  answered 2xx without an `access_token`: `AccessToken` has the case and `TokenContract`
  says whom it can reach; the bank's refusal of such an order is one of the answers
  of `HttpProxy`.
- The inside of a reconnection that is given the whole `rabbitConfig`
  (`producer.service.ts:64`): the library is not in the repository, and
  `Producer` lets the reconnection fail or succeed.

## 7. Plan

Done: all components that keep state or decide anything, the compositions of
`FundOut` with the token service, with the producer and with both, a client that
repeats, abstract specifications of the handler, the payment, the token service and
the producer, and the proofs of section 5: every invariant that a passing run checks,
and the safety part of every refinement.

Left:

1. The joint behaviour of start-up and service: requests that arrive while the
   broker's connection is being forced to reconnect.
2. A `NEST_ENV` that names no configuration, and the values of more settings.

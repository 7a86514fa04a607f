-------------------------- MODULE FundOutWithTokens --------------------------
(***************************************************************************)
(* FundOut and AccessToken together.  Each request calls get() twice, from  *)
(* CustomerInterbankInfoService and from TransferExecuteService, and all     *)
(* calls share the one cache entry.  What FundOut leaves open, whether a      *)
(* token arrives, is here what AccessToken does; a turn of the event loop in  *)
(* which a call starts or ends is a step of both.                           *)
(***************************************************************************)
EXTENDS FundOut

CONSTANTS
  Ttl, RequestTimeout, MaxTime, NoToken   \* of AccessToken

ASSUME TtlAssumption == Ttl \in Nat \ {0}
ASSUME RequestTimeoutAssumption == RequestTimeout \in Nat \ {0}
ASSUME MaxTimeAssumption == MaxTime \in Nat
ASSUME NoTokenAssumption == NoToken \notin Nat

VARIABLES now, cache, call, sentAt, answer, token, at   \* of AccessToken

tokenVars == <<now, cache, call, sentAt, answer, token, at>>

allVars == <<vars, tokenVars>>

\* The two calls of a request, named after the await they serve.
ForInterbankInfo(r) == <<r, "token1">>
ForTransfer(r) == <<r, "token2">>

Call == Req \X {"token1", "token2"}

Tokens == INSTANCE AccessToken WITH Caller <- Call, pc <- call

TokensInit == Init /\ Tokens!Init

TokenResolves(c) == Tokens!CacheHit(c) \/ Tokens!CacheSet(c)

\* get() rejects with e: createInternalError's exception, or the error of the
\* cache as it is.
CacheRejects(c, e) ==
  \/ Tokens!CacheGetFails(c) /\ e = "InternalServerErrorException"
  \/ Tokens!CacheSetFails(c) /\ e = "TypeError"

\* It rejects with what generate() throws on outcome o.
GenerateRejects(c, e, o) ==
  /\ Tokens!GenerateFails(c, o)
  /\ e = Tokens!GenerateError(o)

TimerRejects(c, e) ==
  \E f \in Tokens!TimerFired : GenerateRejects(c, e, Tokens!Failure(f))

TokenRejects(c, e) ==
  \/ CacheRejects(c, e)
  \/ \E o \in Tokens!OutcomesUnder("armed") : GenerateRejects(c, e, o)

\* The first turn of a request; one that goes on calls get().
Received(r) ==
  \/ (Reject(r) \/ MapperThrows(r)) /\ UNCHANGED tokenVars
  \/ CreateTransaction(r) /\ Tokens!Get(ForInterbankInfo(r))

\* The service that awaits a token goes on in the turn in which get() settles.
TokenArrives(r) ==
  \/ AskInterbankInfo(r) /\ TokenResolves(ForInterbankInfo(r))
  \/ OrderTransfer(r) /\ TokenResolves(ForTransfer(r))

TokenFails(r, e) ==
  \/ InterbankTokenFails(r, e) /\ TokenRejects(ForInterbankInfo(r), e)
  \/ TransferTokenFails(r, e) /\ TokenRejects(ForTransfer(r), e)

\* The transfer service calls get() in the turn in which the bank's information
\* arrives.
InterbankInfoCalls(r, o) ==
  \/ InterbankInfo(r, o) /\ Tokens!Get(ForTransfer(r))
  \/ InterbankInfoFails(r, o) /\ UNCHANGED tokenVars

InterbankSettles(r) ==
  \E o \in OutcomesUnder(TimerOf(r)) : InterbankInfoCalls(r, o)

AtTheBank(r) ==
  /\ \/ TransferSettles(r)
     \/ BankExecutes(r) \/ BankRefuses(r) \/ OrderLost(r)
  /\ UNCHANGED tokenVars

\* What a call of get() does on its own while its service waits.
TokenUnderWay(c) ==
  /\ \/ Tokens!CacheAnswers(c) \/ Tokens!CacheMiss(c) \/ Tokens!TokenIssued(c)
     \/ \E t \in {answer[c], NoToken} : Tokens!Generated(c, t)
  /\ UNCHANGED vars

TimePasses == Tokens!Tick /\ UNCHANGED vars

\* The process dies with its requests, its calls and its cache.
ProcessDies ==
  /\ Tokens!Crash
  /\ \/ Crash
     \/ (\A r \in Req : pc[r] \notin InFlight) /\ UNCHANGED vars

TokensNext ==
  \/ \E r \in Req :
       \/ Received(r) \/ TokenArrives(r) \/ InterbankSettles(r) \/ AtTheBank(r)
       \/ \E e \in Throwable : TokenFails(r, e)
  \/ \E c \in Call : TokenUnderWay(c)
  \/ TimePasses
  \/ ProcessDies

TokensSpec == TokensInit /\ [][TokensNext]_allVars

\* What the process does of itself for the calls of r.
TokenTurn(r) ==
  \/ TokenArrives(r)
  \/ \E e \in Throwable :
       \/ InterbankTokenFails(r, e) /\ CacheRejects(ForInterbankInfo(r), e)
       \/ TransferTokenFails(r, e) /\ CacheRejects(ForTransfer(r), e)
  \/ \E c \in {ForInterbankInfo(r), ForTransfer(r)} :
       (Tokens!CacheAnswers(c) \/ Tokens!CacheMiss(c)) /\ UNCHANGED vars

\* The timer of one of them fires.
TokenTimesOut(r) ==
  \E e \in Throwable :
    \/ InterbankTokenFails(r, e) /\ TimerRejects(ForInterbankInfo(r), e)
    \/ TransferTokenFails(r, e) /\ TimerRejects(ForTransfer(r), e)

\* Time passes; calls of get() take their turns and their timers fire; a call to
\* the bank settles when it has a timer.  The token service owes nothing.
TokensFairness ==
  /\ WF_allVars(TimePasses)
  /\ \A r \in Req :
       /\ WF_allVars(TokenTurn(r))
       /\ WF_allVars(TokenTimesOut(r))
       /\ WF_allVars(TimerOf(r) # "none" /\ InterbankSettles(r))
       /\ WF_allVars(TimerOf(r) # "none" /\ TransferSettles(r)
                       /\ UNCHANGED tokenVars)

FairTokensSpec == TokensSpec /\ TokensFairness
----------------------------------------------------------------------------
\* Properties.

\* As a bug: the Authorization header of the order is built from the first token.
BearerOfFirst(r) == token[ForInterbankInfo(r)]

\* The token in the Authorization header of the order.
Bearer(r) == token[ForTransfer(r)]

\* Both calls of a request are under way where its handler awaits them, and
\* nowhere else: no await is left behind by its call, and no call by its await
\* (customer-interbank-info.service.ts and transfer-execute.service.ts:36-47).
CallsMatch ==
  \A r \in Req :
    /\ pc[r] = "token1" <=> call[ForInterbankInfo(r)] \in Tokens!Running
    /\ pc[r] = "token2" <=> call[ForTransfer(r)] \in Tokens!Running

\* When a call of get() rejects, though a good token may have arrived and only
\* its storing failed (access-token.service.ts:50), nothing is ordered and the
\* client is told of a failure.
TokenFailureStopsOrder ==
  \A r \in Req :
    "rejected" \in {call[ForInterbankInfo(r)], call[ForTransfer(r)]}
      => order[r] = "none" /\ reply[r].kind = "failed"

\* An order leaves with a token no older than its time in the cache and one
\* request, however long the call for the interbank information before it took:
\* the transfer service asks for a token of its own (transfer-execute.service.ts:38).
OrderTokenAge ==
  \A r \in Req :
    order[r] # "none" /\ Bearer(r) # NoToken
      => at[ForTransfer(r)] - Bearer(r) <= Ttl + RequestTimeout

\* FundOut, and what it assumes of access tokens: that each call settles.
ImplementsFundOut == FairSpec

\* What the process does of itself gives the calls of get() the fairness of
\* AccessToken, and every one of them settles or is lost with the process,
\* whatever the token service does (access-token.service.ts:81).
CallsSettle == Tokens!Fairness /\ Tokens!EveryCallSettles
=============================================================================

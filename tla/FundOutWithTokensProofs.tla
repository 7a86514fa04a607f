----------------------- MODULE FundOutWithTokensProofs -----------------------
(***************************************************************************)
(* Proofs about FundOutWithTokens, for any requests, inputs and durations.   *)
(* Every step of the composition is a step of FundOut and a step of          *)
(* AccessToken, or leaves either alone, so that what FundOutProofs and        *)
(* AccessTokenProofs show of each holds of both together.  What relates the   *)
(* two follows from Linked, which says for each place of the handler where    *)
(* its two calls of get() are.                                             *)
(***************************************************************************)
EXTENDS FundOutWithTokens, FundOutProofs

TokenProofs == INSTANCE AccessTokenProofs WITH Caller <- Call, pc <- call

\* Where the calls of a request are at each place of its handler.
Linked(r) ==
  LET first == call[ForInterbankInfo(r)]
      second == call[ForTransfer(r)]
      running == {"reading", "read", "requesting", "storing"}
  IN  /\ pc[r] = "new" => first = "idle" /\ second = "idle" /\ order[r] = "none"
      /\ pc[r] = "token1" =>
           first \in running /\ second = "idle" /\ order[r] = "none"
      /\ pc[r] = "interbank" =>
           first = "resolved" /\ second = "idle" /\ order[r] = "none"
      /\ pc[r] = "token2" =>
           first = "resolved" /\ second \in running /\ order[r] = "none"
      /\ pc[r] = "transfer" => first = "resolved" /\ second = "resolved"
      /\ pc[r] = "answered" =>
           /\ first \notin running /\ second \notin running
           /\ order[r] # "none" => first = "resolved" /\ second = "resolved"
           /\ "rejected" \in {first, second} => reply[r].kind = "failed"

Types == TypeOK /\ TokenProofs!TypeOK

LinkInv == IInv /\ TokenProofs!IInv /\ \A r \in Req : Linked(r)

----------------------------------------------------------------------------
\* The composition implements FundOut.

LEMMA InitIsFundOuts == TokensInit => Init
BY DEF TokensInit

LEMMA StepIsFundOuts == [TokensNext]_allVars => [Next]_vars
<1> SUFFICES ASSUME TokensNext PROVE [Next]_vars
  BY DEF allVars
<1>1. ASSUME NEW r \in Req, Received(r) PROVE Next
  BY <1>1 DEF Received, Next
<1>2. ASSUME NEW r \in Req, TokenArrives(r) PROVE Next
  BY <1>2 DEF TokenArrives, TokenSettles, Next
<1>3. ASSUME NEW r \in Req, NEW e \in Throwable, TokenFails(r, e) PROVE Next
  BY <1>3 DEF TokenFails, TokenSettles, Next
<1>4. ASSUME NEW r \in Req, InterbankSettles(r) PROVE Next
  BY <1>4 DEF InterbankSettles, InterbankInfoCalls, InterbankInfoSettles, Next
<1>5. ASSUME NEW r \in Req, AtTheBank(r) PROVE Next
  BY <1>5 DEF AtTheBank, Next
<1>6. CASE (\E c \in Call : TokenUnderWay(c)) \/ TimePasses
  BY <1>6 DEF TokenUnderWay, TimePasses
<1>7. CASE ProcessDies
  BY <1>7 DEF ProcessDies, Next
<1> QED
  BY <1>1, <1>2, <1>3, <1>4, <1>5, <1>6, <1>7 DEF TokensNext

\* The service with its tokens is the service that takes tokens for granted.
THEOREM FundOutRefined == TokensSpec => Spec
BY InitIsFundOuts, StepIsFundOuts, PTL DEF TokensSpec, Spec

\* What FundOut promises its clients holds with the tokens in it.
THEOREM ContractRefined == TokensSpec => ImplementsContract
BY FundOutRefined, Refinement, PTL

----------------------------------------------------------------------------
\* The composition implements AccessToken.

LEMMA CallsOf ==
  ASSUME NEW r \in Req
  PROVE  ForInterbankInfo(r) \in Call /\ ForTransfer(r) \in Call
BY DEF ForInterbankInfo, ForTransfer, Call

LEMMA InitIsTokens == TokensInit => Tokens!Init
BY DEF TokensInit

LEMMA StepIsTokens == [TokensNext]_allVars => [Tokens!Next]_tokenVars
<1> SUFFICES ASSUME TokensNext PROVE [Tokens!Next]_tokenVars
  BY DEF allVars
<1>1. ASSUME NEW c \in Call, Tokens!Get(c) \/ TokenResolves(c) PROVE Tokens!Next
  BY <1>1 DEF TokenResolves, Tokens!Turn, Tokens!Next
<1>2. ASSUME NEW c \in Call, NEW e, TokenRejects(c, e) PROVE Tokens!Next
  <2>1. CASE CacheRejects(c, e)
    BY <2>1 DEF CacheRejects, Tokens!Turn, Tokens!Next
  <2>2. ASSUME NEW o \in Tokens!OutcomesUnder("armed"), Tokens!GenerateFails(c, o)
        PROVE  Tokens!Next
    BY <2>2 DEF Tokens!TokenServiceAnswers, Tokens!Next
  <2> QED
    BY <1>2, <2>1, <2>2 DEF TokenRejects, GenerateRejects
<1>3. ASSUME NEW c \in Call, TokenUnderWay(c) PROVE Tokens!Next
  BY <1>3 DEF TokenUnderWay, Tokens!Turn, Tokens!TokenServiceAnswers, Tokens!Next
<1>4. ASSUME NEW r \in Req,
             Received(r) \/ TokenArrives(r) \/ InterbankSettles(r) \/ AtTheBank(r)
      PROVE  [Tokens!Next]_tokenVars
  BY <1>1, <1>4, CallsOf
  DEF Received, TokenArrives, InterbankSettles, InterbankInfoCalls, AtTheBank
<1>5. ASSUME NEW r \in Req, NEW e \in Throwable, TokenFails(r, e) PROVE Tokens!Next
  BY <1>2, <1>5, CallsOf DEF TokenFails
<1>6. CASE TimePasses \/ ProcessDies
  BY <1>6 DEF TimePasses, ProcessDies, Tokens!Next
<1> QED
  BY <1>3, <1>4, <1>5, <1>6 DEF TokensNext

\* The same for the instance that AccessTokenProofs speaks of.
LEMMA InitIsProofs == Tokens!Init => TokenProofs!Init
BY DEF Tokens!Init, TokenProofs!Init, Tokens!EmptyCache, TokenProofs!EmptyCache

\* HttpProxy reads the same through either instance.
LEMMA SameOutcomes == Tokens!OutcomesUnder("armed") = TokenProofs!OutcomesUnder("armed")
BY Zenon
DEF Tokens!Undefined, Tokens!Error, Tokens!ErrorStatus,
    Tokens!Refusals, Tokens!Unreachable, Tokens!Broken,
    Tokens!TimerFired, Tokens!Unsent, Tokens!AxiosError, Tokens!Data,
    Tokens!PlainError, Tokens!Answer, Tokens!Failure, Tokens!Outcome,
    Tokens!OutcomesUnder, TokenProofs!Undefined, TokenProofs!Error,
    TokenProofs!ErrorStatus, TokenProofs!Refusals,
    TokenProofs!Unreachable, TokenProofs!Broken,
    TokenProofs!TimerFired, TokenProofs!Unsent, TokenProofs!AxiosError,
    TokenProofs!Data, TokenProofs!PlainError, TokenProofs!Answer,
    TokenProofs!Failure, TokenProofs!Outcome,
    TokenProofs!OutcomesUnder

LEMMA SameErrors ==
  ASSUME NEW o PROVE Tokens!GenerateError(o) = TokenProofs!GenerateError(o)
BY Zenon
DEF Tokens!GenerateError, Tokens!Thrown, Tokens!HandlerError,
    Tokens!IsTimeoutError, Tokens!IsNotFoundError,
    Tokens!TIME_OUT_CODES, Tokens!BuildStatusError,
    Tokens!CreateNewError, Tokens!statusDictionary, Tokens!Undefined,
    Tokens!PlainError, Tokens!Error, Tokens!Answer,
    TokenProofs!GenerateError, TokenProofs!Thrown,
    TokenProofs!HandlerError, TokenProofs!IsTimeoutError,
    TokenProofs!IsNotFoundError, TokenProofs!TIME_OUT_CODES,
    TokenProofs!BuildStatusError, TokenProofs!CreateNewError,
    TokenProofs!statusDictionary, TokenProofs!Undefined,
    TokenProofs!PlainError, TokenProofs!Error, TokenProofs!Answer

LEMMA StepIsProofs == [TokensNext]_allVars => [TokenProofs!Next]_TokenProofs!vars
<1> SUFFICES ASSUME [Tokens!Next]_tokenVars
             PROVE  [TokenProofs!Next]_TokenProofs!vars
  BY StepIsTokens
<1>1. ASSUME NEW c \in Call, Tokens!Get(c) PROVE TokenProofs!Next
  BY <1>1 DEF Tokens!Get, TokenProofs!Get, TokenProofs!Next
<1>2. ASSUME NEW c \in Call, Tokens!Turn(c) PROVE TokenProofs!Next
  <2>1. TokenProofs!Turn(c)
    BY <1>2
    DEF Tokens!Turn, Tokens!CacheAnswers, Tokens!CacheHit, Tokens!CacheMiss,
        Tokens!CacheGetFails, Tokens!CacheSet, Tokens!CacheSetFails, Tokens!Resolve,
        Tokens!Reject, Tokens!Fresh,
        TokenProofs!Turn, TokenProofs!CacheAnswers, TokenProofs!CacheHit,
        TokenProofs!CacheMiss, TokenProofs!CacheGetFails, TokenProofs!CacheSet, TokenProofs!CacheSetFails,
        TokenProofs!Resolve, TokenProofs!Reject, TokenProofs!Fresh
  <2> QED
    BY <2>1 DEF TokenProofs!Next
<1>3. ASSUME NEW c \in Call, Tokens!TokenServiceAnswers(c) PROVE TokenProofs!Next
  <2>1. CASE Tokens!TokenIssued(c)
    BY <2>1 DEF Tokens!TokenIssued, TokenProofs!TokenIssued,
                TokenProofs!TokenServiceAnswers, TokenProofs!Next
  <2>2. ASSUME NEW t \in {answer[c], NoToken}, Tokens!Generated(c, t)
        PROVE  TokenProofs!Next
    BY <2>2 DEF Tokens!Generated, TokenProofs!Generated,
                TokenProofs!TokenServiceAnswers, TokenProofs!Next
  <2>3. ASSUME NEW o \in Tokens!OutcomesUnder("armed"), Tokens!GenerateFails(c, o)
        PROVE  TokenProofs!Next
    <3>1. TokenProofs!GenerateFails(c, o)
      BY <2>3, SameErrors
      DEF Tokens!GenerateFails, TokenProofs!GenerateFails, Tokens!Reject,
          TokenProofs!Reject, Tokens!TimerFired, TokenProofs!TimerFired,
          Tokens!Error, TokenProofs!Error, Tokens!Undefined, TokenProofs!Undefined
    <3> QED
      BY <2>3, <3>1, SameOutcomes DEF TokenProofs!TokenServiceAnswers, TokenProofs!Next
  <2> QED
    BY <1>3, <2>1, <2>2, <2>3 DEF Tokens!TokenServiceAnswers
<1>4. CASE Tokens!Tick
  BY <1>4 DEF Tokens!Tick, TokenProofs!Tick, TokenProofs!Next
<1>5. CASE Tokens!Crash
  BY <1>5 DEF Tokens!Crash, TokenProofs!Crash, Tokens!EmptyCache,
              TokenProofs!EmptyCache, Tokens!Running, TokenProofs!Running,
              TokenProofs!Next
<1>6. CASE UNCHANGED tokenVars
  BY <1>6 DEF tokenVars, TokenProofs!vars
<1> QED
  BY <1>1, <1>2, <1>3, <1>4, <1>5, <1>6 DEF Tokens!Next

LEMMA TokenInvariance == TokensSpec => []TokenProofs!IInv
<1>1. TokensInit => TokenProofs!IInv
  BY InitIsTokens, InitIsProofs, TokenProofs!InitIInv, TtlAssumption,
     RequestTimeoutAssumption, MaxTimeAssumption, NoTokenAssumption
<1>2. TokenProofs!IInv /\ [TokensNext]_allVars => TokenProofs!IInv'
  BY StepIsProofs, TokenProofs!NextIInv, TtlAssumption,
     RequestTimeoutAssumption, MaxTimeAssumption, NoTokenAssumption
<1> QED
  BY <1>1, <1>2, PTL DEF TokensSpec

\* The requests get their tokens by the contract of the token service's caller,
\* whatever else the handler does between its two calls.
THEOREM TokenContractHolds == TokensSpec => TokenProofs!ImplementsTokenContract
<1> USE TtlAssumption, RequestTimeoutAssumption, MaxTimeAssumption, NoTokenAssumption
<1>1. TokensInit => TokenProofs!Contract!Init
  BY InitIsTokens, InitIsProofs, TokenProofs!InitIsContracts
<1>2. TokenProofs!IInv /\ [TokensNext]_allVars
        => [TokenProofs!Contract!Next]_(TokenProofs!Contract!vars)
  BY StepIsProofs, TokenProofs!StepIsContracts
<1> QED
  BY <1>1, <1>2, TokenInvariance, PTL
  DEF TokensSpec, TokenProofs!ImplementsTokenContract, TokenProofs!Contract!Spec

----------------------------------------------------------------------------
\* What relates a request to its calls.

\* What Linked reads of a request.
Still(s) ==
  /\ pc'[s] = pc[s] /\ order'[s] = order[s] /\ reply'[s] = reply[s]
  /\ call'[ForInterbankInfo(s)] = call[ForInterbankInfo(s)]
  /\ call'[ForTransfer(s)] = call[ForTransfer(s)]

LEMMA LinkedFrame ==
  ASSUME NEW s \in Req, Linked(s), Still(s) PROVE Linked(s)'
BY DEF Linked, Still

\* A request leaves the others alone, and so do its calls.
LEMMA OthersStill ==
  ASSUME NEW r \in Req, NEW s \in Req \ {r}, Same(s),
         NEW c \in {ForInterbankInfo(r), ForTransfer(r)},
         \A d \in Call \ {c} : call'[d] = call[d]
  PROVE  Still(s)
BY CallsOf DEF Still, Same, ForInterbankInfo, ForTransfer

\* The first turn.
LEMMA ReceivedLinks ==
  ASSUME NEW r \in Req, Types, Kept(r), Linked(r), Received(r)
  PROVE  Linked(r)' /\ \A s \in Req \ {r} : Still(s)
<1>1. CASE (Reject(r) \/ MapperThrows(r)) /\ UNCHANGED tokenVars
  <2>1. UNCHANGED <<call, order>> /\ pc[r] = "new"
    BY <1>1 DEF Reject, MapperThrows, tokenVars
  <2>2. pc'[r] = "answered" /\ reply'[r].kind = "failed"
    BY <1>1, FailedType DEF Reject, MapperThrows, Respond, Goto, Types, TypeOK
  <2>3. Linked(r)'
    BY <2>1, <2>2 DEF Linked
  <2> QED
    BY <2>1, <2>3 DEF Kept, Still, Same
<1>2. CASE CreateTransaction(r) /\ Tokens!Get(ForInterbankInfo(r))
  <2>1. /\ pc[r] = "new" /\ pc'[r] = "token1" /\ UNCHANGED order
        /\ call' = [call EXCEPT ![ForInterbankInfo(r)] = "reading"]
    BY <1>2 DEF CreateTransaction, Goto, Tokens!Get, Types, TypeOK
  <2>2. call'[ForInterbankInfo(r)] = "reading"
        /\ \A d \in Call \ {ForInterbankInfo(r)} : call'[d] = call[d]
    BY <2>1, CallsOf DEF Types, TokenProofs!TypeOK
  <2>3. call'[ForTransfer(r)] = call[ForTransfer(r)]
    BY <2>2, CallsOf DEF ForInterbankInfo, ForTransfer
  <2>4. Linked(r)'
    BY <2>1, <2>2, <2>3 DEF Linked
  <2> QED
    BY <2>2, <2>4, OthersStill DEF Kept
<1> QED
  BY <1>1, <1>2 DEF Received

\* A call that is moved, and no other.
Moved(c, state) ==
  call'[c] = state /\ \A d \in Call \ {c} : call'[d] = call[d]

LEMMA ResolvesMoves ==
  ASSUME Types, NEW c \in Call, TokenResolves(c) PROVE Moved(c, "resolved")
BY DEF TokenResolves, Tokens!CacheHit, Tokens!CacheSet, Tokens!Resolve, Types,
       TokenProofs!TypeOK, Moved

LEMMA RejectsMoves ==
  ASSUME Types, NEW c \in Call, NEW e, TokenRejects(c, e) PROVE Moved(c, "rejected")
BY DEF TokenRejects, CacheRejects, GenerateRejects, Tokens!CacheGetFails,
       Tokens!CacheSetFails, Tokens!GenerateFails, Tokens!Reject, Types,
       TokenProofs!TypeOK, Moved

LEMMA GetMoves ==
  ASSUME Types, NEW c \in Call, Tokens!Get(c) PROVE Moved(c, "reading")
BY DEF Tokens!Get, Types, TokenProofs!TypeOK, Moved

\* A move of one call of a request leaves its other call where it was.
LEMMA OtherCall ==
  ASSUME NEW r \in Req, NEW state
  PROVE  /\ Moved(ForInterbankInfo(r), state)
              => call'[ForTransfer(r)] = call[ForTransfer(r)]
         /\ Moved(ForTransfer(r), state)
              => call'[ForInterbankInfo(r)] = call[ForInterbankInfo(r)]
BY CallsOf DEF Moved, ForInterbankInfo, ForTransfer

\* A token arrives, or the call for it fails.
LEMMA TokenArrivesLinks ==
  ASSUME NEW r \in Req, Types, Kept(r), Linked(r), TokenArrives(r)
  PROVE  Linked(r)' /\ \A s \in Req \ {r} : Still(s)
<1>1. CASE AskInterbankInfo(r) /\ TokenResolves(ForInterbankInfo(r))
  <2>1. Moved(ForInterbankInfo(r), "resolved")
    BY <1>1, CallsOf, ResolvesMoves
  <2>2. /\ pc[r] = "token1" /\ UNCHANGED order
        /\ \/ pc'[r] = "interbank"
           \/ pc'[r] = "answered" /\ reply'[r].kind = "failed"
    BY <1>1, FailedType
    DEF AskInterbankInfo, CatchInterbankInfo, Respond, Goto, Types, TypeOK
  <2>3. Linked(r)'
    BY <2>1, <2>2, OtherCall DEF Linked, Moved
  <2> QED
    BY <2>1, <2>3, OthersStill DEF Kept, Moved
<1>2. CASE OrderTransfer(r) /\ TokenResolves(ForTransfer(r))
  <2>1. Moved(ForTransfer(r), "resolved")
    BY <1>2, CallsOf, ResolvesMoves
  <2>2. pc[r] = "token2" /\ pc'[r] = "transfer"
    BY <1>2 DEF OrderTransfer, Goto, Types, TypeOK
  <2>3. Linked(r)'
    BY <2>1, <2>2, OtherCall DEF Linked, Moved
  <2> QED
    BY <2>1, <2>3, OthersStill DEF Kept, Moved
<1> QED
  BY <1>1, <1>2 DEF TokenArrives

LEMMA TokenFailsLinks ==
  ASSUME NEW r \in Req, NEW e \in Throwable, Types, Kept(r), Linked(r),
         TokenFails(r, e)
  PROVE  Linked(r)' /\ \A s \in Req \ {r} : Still(s)
<1>1. CASE InterbankTokenFails(r, e) /\ TokenRejects(ForInterbankInfo(r), e)
  <2>1. Moved(ForInterbankInfo(r), "rejected")
    BY <1>1, CallsOf, RejectsMoves
  <2>2. /\ pc[r] = "token1" /\ UNCHANGED order
        /\ pc'[r] = "answered" /\ reply'[r].kind = "failed"
    BY <1>1, FailedType
    DEF InterbankTokenFails, CatchInterbankInfo, Respond, Goto, Types, TypeOK
  <2>3. Linked(r)'
    BY <2>1, <2>2, OtherCall DEF Linked, Moved
  <2> QED
    BY <2>1, <2>3, OthersStill DEF Kept, Moved
<1>2. CASE TransferTokenFails(r, e) /\ TokenRejects(ForTransfer(r), e)
  <2>1. Moved(ForTransfer(r), "rejected")
    BY <1>2, CallsOf, RejectsMoves
  <2>2. /\ pc[r] = "token2" /\ UNCHANGED order
        /\ pc'[r] = "answered" /\ reply'[r].kind = "failed"
    BY <1>2, FailedType
    DEF TransferTokenFails, CatchTransferExecute, Respond, Goto, Types, TypeOK
  <2>3. Linked(r)'
    BY <2>1, <2>2, OtherCall DEF Linked, Moved
  <2> QED
    BY <2>1, <2>3, OthersStill DEF Kept, Moved
<1> QED
  BY <1>1, <1>2 DEF TokenFails

\* The bank's information arrives, or the call for it fails.
LEMMA InterbankLinks ==
  ASSUME NEW r \in Req, Types, Kept(r), Linked(r), InterbankSettles(r)
  PROVE  Linked(r)' /\ \A s \in Req \ {r} : Still(s)
<1>1. PICK o : InterbankInfoCalls(r, o)
  BY DEF InterbankSettles
<1>2. CASE InterbankInfo(r, o) /\ Tokens!Get(ForTransfer(r))
  <2>1. Moved(ForTransfer(r), "reading")
    BY <1>2, CallsOf, GetMoves
  <2>2. pc[r] = "interbank" /\ pc'[r] = "token2" /\ UNCHANGED order
    BY <1>2 DEF InterbankInfo, Goto, Types, TypeOK
  <2>3. Linked(r)'
    BY <2>1, <2>2, OtherCall DEF Linked, Moved
  <2> QED
    BY <2>1, <2>3, OthersStill DEF Kept, Moved
<1>3. CASE InterbankInfoFails(r, o) /\ UNCHANGED tokenVars
  <2>1. UNCHANGED <<call, order>> /\ pc[r] = "interbank" /\ pc'[r] = "answered"
    BY <1>3
    DEF InterbankInfoFails, CatchInterbankInfo, Respond, Goto, Types, TypeOK,
        tokenVars
  <2>2. Linked(r)'
    BY <2>1 DEF Linked
  <2> QED
    BY <2>1, <2>2 DEF Kept, Still, Same
<1> QED
  BY <1>1, <1>2, <1>3 DEF InterbankInfoCalls

\* The transfer settles, or the bank does something with the order.
LEMMA BankLinks ==
  ASSUME NEW r \in Req, Types, Kept(r), Linked(r), Local(r), AtTheBank(r)
  PROVE  Linked(r)' /\ \A s \in Req \ {r} : Still(s)
<1>1. UNCHANGED call
  BY DEF AtTheBank, tokenVars
<1>2. CASE TransferSettles(r)
  <2>1. pc[r] = "transfer" /\ pc'[r] = "answered" /\ UNCHANGED order
    BY <1>2
    DEF TransferSettles, TransferApproved, TransferPresumed, TransferFails,
        ReturnResult, CatchTransferExecute, Respond, Goto, Types, TypeOK
  <2>2. Linked(r)'
    BY <1>1, <2>1 DEF Linked
  <2> QED
    BY <1>1, <2>2 DEF Kept, Still, Same
<1>3. CASE BankExecutes(r) \/ BankRefuses(r) \/ OrderLost(r)
  <2>1. order[r] = "sent" /\ UNCHANGED <<pc, reply>>
    BY <1>3 DEF BankExecutes, BankRefuses, OrderLost, BankSettles
  <2>2. pc[r] \in {"transfer", "answered"}
    BY <2>1 DEF Local, Untouched, Handled, InFlight, Types, TypeOK
  <2>3. Linked(r)'
    BY <1>1, <2>1, <2>2 DEF Linked
  <2> QED
    BY <1>1, <2>3 DEF Kept, Still, Same
<1> QED
  BY <1>2, <1>3 DEF AtTheBank

\* A call goes on while its service waits, and stays under way.
LEMMA UnderWayLinks ==
  ASSUME Types, \A r \in Req : Linked(r), NEW c \in Call, TokenUnderWay(c)
  PROVE  \A r \in Req : Linked(r)'
<1> DEFINE running == {"reading", "read", "requesting", "storing"}
<1>1. /\ call[c] \in running /\ UNCHANGED <<pc, order, reply>>
      /\ \E state \in running : Moved(c, state)
  BY DEF TokenUnderWay, Tokens!CacheAnswers, Tokens!CacheMiss, Tokens!TokenIssued, Tokens!Generated,
         Types, TokenProofs!TypeOK, Moved, vars
<1>2. \A d \in Call : call'[d] = call[d] \/ (call[d] \in running /\ call'[d] \in running)
  BY <1>1 DEF Moved
<1>3. ASSUME NEW r \in Req PROVE Linked(r)'
  <2>1. Linked(r) /\ ForInterbankInfo(r) \in Call /\ ForTransfer(r) \in Call
    BY CallsOf
  <2> QED
    BY <1>1, <1>2, <2>1 DEF Linked
<1> QED
  BY <1>3

\* The process dies: no handler and no call is under way any more.
LEMMA DiesLinks ==
  ASSUME Types, \A r \in Req : Linked(r), ProcessDies
  PROVE  \A r \in Req : Linked(r)'
<1> DEFINE running == {"reading", "read", "requesting", "storing"}
<1>1. \A d \in Call : call'[d] = IF call[d] \in running THEN "lost" ELSE call[d]
  BY DEF ProcessDies, Tokens!Crash, Tokens!Running
<1>2. ASSUME NEW r \in Req PROVE Linked(r)'
  <2>1. /\ Linked(r) /\ ForInterbankInfo(r) \in Call /\ ForTransfer(r) \in Call
        /\ pc[r] \in {"new", "answered"} \cup InFlight
        /\ order' = order
    BY CallsOf DEF Types, TypeOK, ProcessDies, Crash, vars
  <2>2. CASE pc[r] \in InFlight
    <3>1. pc'[r] = "answered"
      BY <2>2 DEF ProcessDies, Crash
    <3>2. "rejected" \notin {call[ForInterbankInfo(r)], call[ForTransfer(r)]}
      BY <2>1, <2>2 DEF Linked, InFlight
    <3>3. order[r] # "none" => pc[r] = "transfer"
      BY <2>1, <2>2 DEF Linked, InFlight
    <3> QED
      BY <1>1, <2>1, <3>1, <3>2, <3>3 DEF Linked
  <2>3. CASE pc[r] \notin InFlight
    <3>1. pc'[r] = pc[r] /\ reply'[r] = reply[r]
      BY <2>3 DEF ProcessDies, Crash, vars
    <3>2. /\ call[ForInterbankInfo(r)] \notin running
          /\ call[ForTransfer(r)] \notin running
      BY <2>1, <2>3 DEF Linked
    <3> QED
      BY <1>1, <2>1, <2>3, <3>1, <3>2 DEF Linked, InFlight
  <2> QED
    BY <2>2, <2>3
<1> QED
  BY <1>2

LEMMA NextLinks ==
  ASSUME IInv, TokenProofs!IInv, \A r \in Req : Linked(r), [TokensNext]_allVars
  PROVE  \A r \in Req : Linked(r)'
<1>1. Types
  BY DEF Types, IInv, TokenProofs!IInv
<1>2. ASSUME NEW r \in Req, Linked(r)', \A s \in Req \ {r} : Still(s)
      PROVE  \A s \in Req : Linked(s)'
  BY <1>2, LinkedFrame
<1>3. ASSUME NEW r \in Req, Received(r) PROVE \A s \in Req : Linked(s)'
  <2>1. Kept(r)
    BY <1>3, RequestKept DEF Received
  <2> QED
    BY <1>1, <1>2, <1>3, <2>1, ReceivedLinks
<1>4. ASSUME NEW r \in Req, TokenArrives(r) PROVE \A s \in Req : Linked(s)'
  <2>1. Kept(r)
    BY <1>4, RequestKept DEF TokenArrives, TokenSettles
  <2> QED
    BY <1>1, <1>2, <1>4, <2>1, TokenArrivesLinks
<1>5. ASSUME NEW r \in Req, NEW e \in Throwable, TokenFails(r, e)
      PROVE  \A s \in Req : Linked(s)'
  <2>1. Kept(r)
    BY <1>5, RequestKept DEF TokenFails, TokenSettles
  <2> QED
    BY <1>1, <1>2, <1>5, <2>1, TokenFailsLinks
<1>6. ASSUME NEW r \in Req, InterbankSettles(r) PROVE \A s \in Req : Linked(s)'
  <2>1. InterbankInfoSettles(r)
    BY <1>6 DEF InterbankSettles, InterbankInfoCalls, InterbankInfoSettles
  <2>2. Kept(r)
    BY <2>1, RequestKept
  <2> QED
    BY <1>1, <1>2, <1>6, <2>2, InterbankLinks
<1>7. ASSUME NEW r \in Req, AtTheBank(r) PROVE \A s \in Req : Linked(s)'
  <2>1. Kept(r) /\ Local(r)
    BY <1>7, RequestKept DEF AtTheBank, IInv
  <2> QED
    BY <1>1, <1>2, <1>7, <2>1, BankLinks
<1>8. CASE TimePasses \/ UNCHANGED allVars
  <2>1. UNCHANGED <<pc, call, order, reply>>
    BY <1>8 DEF TimePasses, Tokens!Tick, allVars, vars, tokenVars
  <2> QED
    BY <2>1 DEF Linked
<1> QED
  BY <1>1, <1>3, <1>4, <1>5, <1>6, <1>7, <1>8, UnderWayLinks, DiesLinks DEF TokensNext

THEOREM LinkInvariance == TokensSpec => []LinkInv
<1>1. TokensInit => \A r \in Req : Linked(r)
  BY CallsOf DEF TokensInit, Init, Tokens!Init, Linked
<1>2. TokensSpec => []IInv
  BY FundOutRefined, Invariance, PTL
<1>3. /\ IInv /\ TokenProofs!IInv /\ (\A r \in Req : Linked(r))
      /\ [TokensNext]_allVars
      => (\A r \in Req : Linked(r))'
  BY NextLinks
<1> QED
  BY <1>1, <1>2, <1>3, TokenInvariance, PTL DEF TokensSpec, LinkInv

\* Each await has its call, and each call its await.
THEOREM CallsMatchHold == TokensSpec => []CallsMatch
<1>1. LinkInv => CallsMatch
  <2> SUFFICES ASSUME LinkInv, NEW r \in Req
               PROVE  /\ pc[r] = "token1" <=> call[ForInterbankInfo(r)] \in Tokens!Running
                      /\ pc[r] = "token2" <=> call[ForTransfer(r)] \in Tokens!Running
    BY DEF CallsMatch
  <2>1. Linked(r) /\ pc[r] \in {"new", "answered"} \cup InFlight
    BY DEF LinkInv, IInv, TypeOK
  <2> QED
    BY <2>1 DEF Linked, InFlight, Tokens!Running
<1> QED
  BY <1>1, LinkInvariance, PTL

\* No order goes out when a call for a token failed, whatever it failed of.
THEOREM TokenFailureStopsOrderHolds == TokensSpec => []TokenFailureStopsOrder
<1>1. LinkInv => TokenFailureStopsOrder
  <2> SUFFICES ASSUME LinkInv, NEW r \in Req,
                      "rejected" \in {call[ForInterbankInfo(r)], call[ForTransfer(r)]}
               PROVE  order[r] = "none" /\ reply[r].kind = "failed"
    BY DEF TokenFailureStopsOrder
  <2>1. Linked(r) /\ pc[r] \in {"new", "answered"} \cup InFlight
    BY DEF LinkInv, IInv, TypeOK
  <2> QED
    BY <2>1 DEF Linked, InFlight
<1> QED
  BY <1>1, LinkInvariance, PTL

\* The token of an order is its own call's, and no older than that may be.
THEOREM OrderTokenAgeHolds == TokensSpec => []OrderTokenAge
<1>1. LinkInv => OrderTokenAge
  <2> SUFFICES ASSUME LinkInv, NEW r \in Req, order[r] # "none", Bearer(r) # NoToken
               PROVE  at[ForTransfer(r)] - Bearer(r) <= Ttl + RequestTimeout
    BY DEF OrderTokenAge
  <2> DEFINE c == ForTransfer(r)
  <2>1. call[c] = "resolved" /\ c \in Call
    <3>1. Linked(r) /\ pc[r] \in {"new", "answered"} \cup InFlight
      BY DEF LinkInv, IInv, TypeOK
    <3> QED
      BY <3>1, CallsOf DEF Linked, InFlight
  <2>2. at[c] \in Nat /\ token[c] \in Nat /\ at[c] <= token[c] + Ttl + RequestTimeout
    BY <2>1 DEF LinkInv, TokenProofs!IInv, TokenProofs!TypeOK, TokenProofs!Local,
                TokenProofs!HandedOut, TokenProofs!Token, Bearer
  <2> QED
    BY <2>2, TtlAssumption, RequestTimeoutAssumption DEF Bearer
<1> QED
  BY <1>1, LinkInvariance, PTL
=============================================================================

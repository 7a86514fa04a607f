-------------------------- MODULE AccessTokenProofs --------------------------
(***************************************************************************)
(* Proofs about AccessToken, for any calls, any ttl and any timeout.        *)
(*                                                                         *)
(* The inductive invariant IInv bounds three ages, each by the one before:   *)
(* how long a request to the token service may be under way, how old a token *)
(* may be when it is stored, and how old when the cache answers with it, which  *)
(* is when it is handed out: no time passes between the two.                 *)
(***************************************************************************)
EXTENDS AccessToken, TLAPS

\* A request in the hands of a call is no older than the client's timer, and
\* its token was issued while it was under way.
OnTheWay(c) ==
  pc[c] \in {"requesting", "storing"} =>
    /\ sentAt[c] <= now
    /\ now <= sentAt[c] + RequestTimeout
    /\ answer[c] # NoToken => sentAt[c] <= answer[c] /\ answer[c] <= now

\* What the cache answered may not be there any more when the call goes on with
\* it; and where it answered with nothing, a fresh entry was stored since.
ReadBack(c) ==
  pc[c] = "read" =>
    /\ answer[c] # NoToken =>
         answer[c] <= now /\ now <= answer[c] + Ttl + RequestTimeout
    /\ answer[c] = NoToken /\ Fresh => cache.stored = now

\* What a call resolved with was at most that much older.
HandedOut(c) ==
  pc[c] = "resolved" /\ token[c] # NoToken
    => at[c] <= token[c] + Ttl + RequestTimeout

\* A request to the token service was sent before the entry was stored, or
\* there is no fresh entry.
SentBefore(c) == pc[c] = "requesting" /\ Fresh => sentAt[c] <= cache.stored

Stored ==
  /\ cache.stored <= now
  /\ cache.token # NoToken
       => cache.token <= cache.stored /\ cache.stored <= cache.token + RequestTimeout

Local(c) == OnTheWay(c) /\ ReadBack(c) /\ HandedOut(c) /\ SentBefore(c)

\* A call asks for a token only once, and there is none on the way before.
Unasked(c) == pc[c] \in {"idle", "reading"} => answer[c] = NoToken

IInv == TypeOK /\ Stored /\ \A c \in Caller : Local(c) /\ Unasked(c)

----------------------------------------------------------------------------

LEMMA InitIInv == Init => IInv
BY MaxTimeAssumption, NoTokenAssumption
DEF Init, IInv, TypeOK, Stored, Local, Unasked, OnTheWay, ReadBack, HandedOut,
    SentBefore, EmptyCache, Token, Fresh, Running

\* The types, action by action.
LEMMA NextTypeOK == TypeOK /\ [Next]_vars => TypeOK'
<1> SUFFICES ASSUME TypeOK, [Next]_vars PROVE TypeOK'
  OBVIOUS
<1> USE MaxTimeAssumption DEF TypeOK, Running
<1>1. now \in Nat
  OBVIOUS
<1>2. ASSUME NEW c \in Caller, Get(c) PROVE TypeOK'
  BY <1>2 DEF Get
<1>3. ASSUME NEW c \in Caller, Turn(c) PROVE TypeOK'
  <2>1. CASE CacheHit(c)
    BY <1>1, <2>1 DEF CacheHit, Resolve
  <2>2. CASE CacheMiss(c)
    BY <1>1, <2>2 DEF CacheMiss
  <2>3. CASE CacheGetFails(c) \/ CacheSetFails(c)
    BY <2>3 DEF CacheGetFails, CacheSetFails, Reject
  <2>4. CASE CacheSet(c)
    BY <1>1, <2>4 DEF CacheSet, Resolve
  <2>5. CASE CacheAnswers(c)
    BY <2>5 DEF CacheAnswers, Token
  <2> QED
    BY <1>3, <2>1, <2>2, <2>3, <2>4, <2>5 DEF Turn
<1>4. ASSUME NEW c \in Caller, TokenServiceAnswers(c) PROVE TypeOK'
  <2>1. CASE TokenIssued(c)
    BY <1>1, <2>1 DEF TokenIssued, Token
  <2>2. ASSUME NEW t, Generated(c, t) PROVE TypeOK'
    BY <2>2 DEF Generated, Token
  <2>3. ASSUME NEW o, GenerateFails(c, o) PROVE TypeOK'
    BY <2>3 DEF GenerateFails, Reject
  <2> QED
    BY <1>4, <2>1, <2>2, <2>3 DEF TokenServiceAnswers
<1>5. CASE Tick
  BY <1>5 DEF Tick
<1>6. CASE Crash
  BY <1>6 DEF Crash, EmptyCache, Token
<1>7. CASE UNCHANGED vars
  BY <1>7 DEF vars
<1> QED
  BY <1>2, <1>3, <1>4, <1>5, <1>6, <1>7 DEF Next

\* What a call does not touch of another.
Same(c) ==
  /\ pc'[c] = pc[c]
  /\ sentAt'[c] = sentAt[c]
  /\ answer'[c] = answer[c]
  /\ token'[c] = token[c]
  /\ at'[c] = at[c]

\* A call keeps the invariant while others move, unless they store a token.
LEMMA Frame ==
  ASSUME NEW c \in Caller, Local(c), Unasked(c), Same(c), UNCHANGED <<now, cache>>
  PROVE  Local(c)' /\ Unasked(c)'
BY DEF Local, Unasked, OnTheWay, ReadBack, HandedOut, SentBefore, Same, Fresh

\* A step of call c that leaves the cache alone.
LEMMA CallStep ==
  ASSUME IInv, TypeOK', NEW c \in Caller,
         \/ Get(c) \/ CacheAnswers(c) \/ CacheHit(c) \/ CacheMiss(c)
         \/ CacheGetFails(c) \/ CacheSetFails(c) \/ TokenServiceAnswers(c)
  PROVE  IInv'
<1> USE RequestTimeoutAssumption, TtlAssumption, NoTokenAssumption
<1>1. /\ now \in Nat /\ cache.token \in Token /\ cache.stored \in Nat
      /\ sentAt[c] \in Nat /\ answer[c] \in Token
      /\ pc \in [Caller -> {"idle", "resolved", "rejected", "lost"} \cup Running]
      /\ sentAt \in [Caller -> Nat] /\ answer \in [Caller -> Token]
      /\ token \in [Caller -> Token] /\ at \in [Caller -> Nat]
  BY DEF IInv, TypeOK
<1>2. Stored /\ Local(c) /\ Unasked(c)
  BY DEF IInv
<1>3. /\ UNCHANGED <<now, cache>>
      /\ \A d \in Caller \ {c} : Same(d)
  BY <1>1 DEF Get, CacheAnswers, CacheHit, CacheMiss, CacheGetFails, CacheSetFails,
         Resolve, Reject, TokenServiceAnswers, TokenIssued, Generated, GenerateFails, Same
<1>4. Local(c)' /\ Unasked(c)'
  <2> USE DEF Local, Unasked, OnTheWay, ReadBack, HandedOut, SentBefore
  <2>1. CASE Get(c)
    BY <1>1, <1>2, <2>1 DEF Get
  <2>2. CASE CacheAnswers(c)
    BY <1>1, <1>2, <2>2 DEF CacheAnswers, Fresh, Stored, Token
  <2>3. CASE CacheHit(c)
    BY <1>1, <1>2, <2>3 DEF CacheHit, Resolve, Token
  <2>4. CASE CacheMiss(c)
    BY <1>1, <1>2, <2>4 DEF CacheMiss, Fresh
  <2>5. CASE CacheGetFails(c) \/ CacheSetFails(c)
    BY <1>1, <1>2, <2>5 DEF CacheGetFails, CacheSetFails, Reject
  <2>6. CASE TokenIssued(c)
    BY <1>1, <1>2, <2>6 DEF TokenIssued, Fresh
  <2>7. ASSUME NEW t, Generated(c, t) PROVE Local(c)' /\ Unasked(c)'
    BY <1>1, <1>2, <2>7 DEF Generated
  <2>8. ASSUME NEW o, GenerateFails(c, o) PROVE Local(c)' /\ Unasked(c)'
    BY <1>1, <1>2, <2>8 DEF GenerateFails, Reject
  <2> QED
    BY <2>1, <2>2, <2>3, <2>4, <2>5, <2>6, <2>7, <2>8 DEF TokenServiceAnswers
<1>5. Stored'
  BY <1>2, <1>3 DEF Stored
<1> QED
  BY <1>3, <1>4, <1>5, Frame DEF IInv

\* Storing a token: it is at most RequestTimeout old, and whoever is still
\* waiting for one has asked before.
LEMMA CacheSetStep ==
  ASSUME IInv, TypeOK', NEW c \in Caller, CacheSet(c)
  PROVE  IInv'
<1> USE RequestTimeoutAssumption, NoTokenAssumption
<1>1. /\ now \in Nat /\ now' = now
      /\ \A d \in Caller : sentAt[d] \in Nat /\ answer[d] \in Token
      /\ pc[c] = "storing" /\ cache' = [token |-> answer[c], stored |-> now]
  BY DEF IInv, TypeOK, CacheSet
<1>2. Stored'
  BY <1>1 DEF IInv, Local, OnTheWay, Stored, Token
<1>3. ASSUME NEW d \in Caller PROVE Local(d)' /\ Unasked(d)'
  <2>1. OnTheWay(d) /\ ReadBack(d) /\ HandedOut(d) /\ Unasked(d)
    BY DEF IInv, Local
  <2>2. /\ sentAt' = sentAt /\ answer' = answer
        /\ d # c => pc'[d] = pc[d] /\ token'[d] = token[d] /\ at'[d] = at[d]
        /\ pc'[c] = "resolved" /\ token'[c] = answer[c] /\ at'[c] = now
    BY DEF CacheSet, Resolve, IInv, TypeOK
  <2>3. (OnTheWay(d) /\ Unasked(d))'
    BY <1>1, <2>1, <2>2 DEF OnTheWay, Unasked
  <2>4. HandedOut(d)'
    BY <1>1, <2>1, <2>2, TtlAssumption DEF HandedOut, OnTheWay, Token
  <2>5. SentBefore(d)'
    BY <1>1, <2>1, <2>2 DEF SentBefore, OnTheWay
  <2>6. ReadBack(d)'
    BY <1>1, <2>1, <2>2 DEF ReadBack
  <2> QED
    BY <2>3, <2>4, <2>5, <2>6 DEF Local
<1> QED
  BY <1>2, <1>3 DEF IInv

\* Time does not run over a timer, and an entry that was stale stays so.
LEMMA TickStep ==
  ASSUME IInv, TypeOK', Tick
  PROVE  IInv'
<1>1. /\ now \in Nat /\ now' = now + 1 /\ cache' = cache /\ cache.stored \in Nat
      /\ pc' = pc /\ sentAt' = sentAt /\ answer' = answer /\ token' = token
      /\ at' = at
  BY DEF IInv, TypeOK, Tick
<1>2. Stored'
  BY <1>1 DEF IInv, Stored
<1>3. Fresh' => Fresh
  BY <1>1, TtlAssumption DEF Fresh
<1>4. ASSUME NEW c \in Caller PROVE Local(c)' /\ Unasked(c)'
  <2>1. /\ Local(c) /\ Unasked(c) /\ sentAt[c] \in Nat /\ answer[c] \in Token
        /\ pc[c] \notin {"read", "storing"}
        /\ pc[c] = "requesting" => now < sentAt[c] + RequestTimeout
    BY DEF IInv, TypeOK, Tick
  <2>2. OnTheWay(c)'
    BY <1>1, <2>1, RequestTimeoutAssumption, NoTokenAssumption
    DEF Local, OnTheWay, Token
  <2> QED
    BY <1>1, <1>3, <2>1, <2>2 DEF Local, Unasked, ReadBack, HandedOut, SentBefore
<1> QED
  BY <1>2, <1>4 DEF IInv

\* A crash empties the cache.
LEMMA CrashStep ==
  ASSUME IInv, TypeOK', Crash
  PROVE  IInv'
<1>1. /\ now' = now /\ now \in Nat /\ cache' = EmptyCache
      /\ sentAt' = sentAt /\ answer' = answer /\ token' = token /\ at' = at
  BY DEF IInv, TypeOK, Crash
<1>2. Stored' /\ ~Fresh'
  BY <1>1 DEF EmptyCache, Stored, Fresh
<1>3. ASSUME NEW c \in Caller PROVE Local(c)' /\ Unasked(c)'
  <2>1. Local(c) /\ Unasked(c) /\ pc'[c] \in {"lost", pc[c]}
    BY DEF IInv, Crash
  <2> QED
    BY <1>1, <1>2, <2>1
    DEF Local, Unasked, OnTheWay, ReadBack, HandedOut, SentBefore
<1> QED
  BY <1>2, <1>3 DEF IInv

LEMMA NextIInv == IInv /\ [Next]_vars => IInv'
<1> SUFFICES ASSUME IInv, [Next]_vars PROVE IInv'
  OBVIOUS
<1>1. TypeOK'
  BY NextTypeOK DEF IInv
<1>2. CASE UNCHANGED vars
  <2>1. UNCHANGED <<now, cache>> /\ \A c \in Caller : Same(c)
    BY <1>2 DEF vars, Same
  <2>2. Stored'
    BY <2>1 DEF IInv, Stored
  <2> QED
    BY <1>1, <2>1, <2>2, Frame DEF IInv
<1> QED
  BY <1>1, <1>2, CallStep, CacheSetStep, TickStep, CrashStep DEF Next, Turn

THEOREM Invariance == Spec => []IInv
BY InitIInv, NextIInv, PTL DEF Spec

\* The variables keep their types.
THEOREM TypeCorrect == Spec => []TypeOK
BY Invariance, PTL DEF IInv

\* However calls interleave, no token is handed out older than the ttl and one
\* timeout of the token service together.
THEOREM TokenAgeBoundedHolds == Spec => []TokenAgeBounded
<1>1. IInv => TokenAgeBounded
  <2> SUFFICES ASSUME IInv, NEW c \in Caller, pc[c] = "resolved", token[c] # NoToken
               PROVE  at[c] - token[c] <= Ttl + RequestTimeout
    BY DEF TokenAgeBounded
  <2>1. at[c] <= token[c] + Ttl + RequestTimeout
    BY DEF IInv, Local, HandedOut
  <2>2. at[c] \in Nat /\ token[c] \in Nat
    BY DEF IInv, TypeOK, Token
  <2> QED
    BY <2>1, <2>2, TtlAssumption, RequestTimeoutAssumption
<1> QED
  BY <1>1, Invariance, PTL

\* A stampede ends with the first token stored.
THEOREM StampedeBoundedHolds == Spec => []StampedeBounded
<1>1. IInv => StampedeBounded
  BY DEF IInv, Local, SentBefore, StampedeBounded
<1> QED
  BY <1>1, Invariance, PTL

----------------------------------------------------------------------------
\* AccessToken implements TokenContract.

LEMMA CallsMapped ==
  /\ CallOf("idle") = "idle"
  /\ CallOf("reading") = "waiting" /\ CallOf("read") = "waiting"
  /\ CallOf("requesting") = "asking" /\ CallOf("storing") = "asking"
  /\ CallOf("resolved") = "resolved" /\ CallOf("rejected") = "rejected"
  /\ CallOf("lost") = "lost"
BY DEF CallOf

\* A token is at hand in the cache or on its way to a running call.
LEMMA AtHandIs ==
  ASSUME NEW t
  PROVE  t \in AtHand <=>
           /\ t # NoToken
           /\ \/ t = cache.token
              \/ \E c \in Caller : pc[c] \in Running /\ answer[c] = t
BY DEF AtHand

LEMMA AtHandIsNext ==
  ASSUME NEW t
  PROVE  t \in AtHand' <=>
           /\ t # NoToken
           /\ \/ t = cache'.token
              \/ \E c \in Caller : pc'[c] \in Running /\ answer'[c] = t
BY DEF AtHand

\* A call that moves from place to place moves in the contract.
LEMMA CallMoves ==
  ASSUME IInv, NEW c \in Caller, NEW label,
         pc' = [pc EXCEPT ![c] = label], UNCHANGED now, AtHand' \subseteq AtHand
  PROVE  Contract!Becomes(c, CallOf(label))
<1>1. [d \in Caller |-> CallOf(pc'[d])]
        = [[d \in Caller |-> CallOf(pc[d])] EXCEPT ![c] = CallOf(label)]
  <2>1. pc \in [Caller -> {"idle", "resolved", "rejected", "lost"} \cup Running]
    BY DEF IInv, TypeOK
  <2>2. \A d \in Caller : CallOf(pc'[d]) = IF d = c THEN CallOf(label) ELSE CallOf(pc[d])
    BY <2>1
  <2>3. [[d \in Caller |-> CallOf(pc[d])] EXCEPT ![c] = CallOf(label)]
          = [d \in Caller |-> IF d = c THEN CallOf(label) ELSE CallOf(pc[d])]
    OBVIOUS
  <2> QED
    BY <2>2, <2>3
<1> QED
  BY <1>1 DEF Contract!Becomes, CallOf

\* No step but TokenIssued adds to the tokens at hand.
LEMMA AtHandShrinks ==
  ASSUME IInv, NEW c \in Caller,
         \/ Get(c) \/ Turn(c) \/ (\E t : Generated(c, t)) \/ (\E o : GenerateFails(c, o))
  PROVE  AtHand' \subseteq AtHand
<1> SUFFICES ASSUME NEW t, t \in AtHand' PROVE t \in AtHand
  OBVIOUS
<1>1. /\ pc \in [Caller -> {"idle", "resolved", "rejected", "lost"} \cup Running]
      /\ answer \in [Caller -> Token]
      /\ Unasked(c)
  BY DEF IInv, TypeOK
<1>2. \A d \in Caller \ {c} : pc'[d] = pc[d] /\ answer'[d] = answer[d]
  BY <1>1
  DEF Get, Turn, CacheAnswers, CacheHit, CacheMiss, CacheGetFails, CacheSet,
      CacheSetFails, Resolve, Reject, Generated, GenerateFails
<1>3. \/ cache' = cache
      \/ /\ pc[c] \in Running
         /\ cache'.token = answer[c]
  BY DEF Get, Turn, CacheAnswers, CacheHit, CacheMiss, CacheGetFails, CacheSet,
         CacheSetFails, Resolve, Reject, Generated, GenerateFails, Running
<1>4. pc'[c] \in Running => answer'[c] \in {NoToken, answer[c], cache.token}
  BY <1>1
  DEF Get, Turn, CacheAnswers, CacheHit, CacheMiss, CacheGetFails, CacheSet,
      CacheSetFails, Resolve, Reject, Generated, GenerateFails, Running
<1>5. pc'[c] \in Running /\ answer'[c] # NoToken => pc[c] \in Running
  BY <1>1
  DEF Get, Turn, CacheAnswers, CacheHit, CacheMiss, CacheGetFails, CacheSet,
      CacheSetFails, Resolve, Reject, Generated, GenerateFails, Running, Unasked
<1> QED
  BY <1>2, <1>3, <1>4, <1>5, AtHandIs, AtHandIsNext

LEMMA InitIsContracts == Init => Contract!Init
<1> SUFFICES ASSUME Init PROVE Contract!Init
  OBVIOUS
<1>1. AtHand = {}
  BY DEF Init, AtHand, EmptyCache, Running
<1> QED
  BY <1>1, CallsMapped DEF Init, Contract!Init

\* The turns of the event loop: a token from the cache is at hand and was fresh in
\* this instant, and one from the token service is the call's own, if there is one.
LEMMA TurnIsContracts ==
  ASSUME IInv, NEW c \in Caller, Turn(c)
  PROVE  Contract!Next
<1>1. /\ AtHand' \subseteq AtHand
      /\ now \in Nat /\ cache.stored \in Nat
      /\ cache.token \in Token /\ answer[c] \in Token
  BY AtHandShrinks DEF IInv, TypeOK
<1>2. CASE CacheHit(c)
  <2>1. /\ pc[c] = "read" /\ pc' = [pc EXCEPT ![c] = "resolved"] /\ now' = now
        /\ token' = [token EXCEPT ![c] = answer[c]] /\ sentAt' = sentAt
        /\ answer[c] # NoToken
    BY <1>2 DEF CacheHit, Resolve
  <2>2. answer[c] \in AtHand
    BY <2>1, AtHandIs DEF Running
  <2>3. now - answer[c] <= Ttl + RequestTimeout
    BY <1>1, <2>1, TtlAssumption, RequestTimeoutAssumption
    DEF IInv, Local, ReadBack, Token
  <2>4. Contract!Becomes(c, "resolved")
    BY <1>1, <2>1, CallMoves, CallsMapped
  <2>5. Contract!Give(c, answer[c])
    BY <2>1, <2>2, <2>3, <2>4, CallsMapped
    DEF Contract!Give, Contract!Resolve, Contract!Unsettled
  <2> QED
    BY <2>2, <2>5 DEF Contract!Next
<1>3. CASE CacheSet(c)
  <2>1. /\ pc[c] = "storing" /\ pc' = [pc EXCEPT ![c] = "resolved"] /\ now' = now
        /\ token' = [token EXCEPT ![c] = answer[c]] /\ sentAt' = sentAt
    BY <1>3 DEF CacheSet, Resolve
  <2>2. Contract!Becomes(c, "resolved")
    BY <1>1, <2>1, CallMoves, CallsMapped
  <2>3. CASE answer[c] = NoToken
    <3>1. Contract!GiveNone(c)
      BY <2>1, <2>2, <2>3, CallsMapped DEF Contract!GiveNone, Contract!Resolve
    <3> QED
      BY <3>1 DEF Contract!Next
  <2>4. CASE answer[c] # NoToken
    <3>1. answer[c] \in AtHand
      BY <2>1, <2>4, AtHandIs DEF Running
    <3>2. now - answer[c] <= Ttl + RequestTimeout
      BY <1>1, <2>1, <2>4, TtlAssumption, RequestTimeoutAssumption
      DEF IInv, TypeOK, Local, OnTheWay, Token
    <3>3. sentAt[c] <= answer[c]
      BY <2>1, <2>4 DEF IInv, Local, OnTheWay
    <3>4. Contract!Give(c, answer[c])
      BY <2>1, <2>2, <3>1, <3>2, <3>3, CallsMapped
      DEF Contract!Give, Contract!Resolve, Contract!Unsettled
    <3> QED
      BY <3>1, <3>4 DEF Contract!Next
  <2> QED
    BY <2>3, <2>4
<1>4. CASE CacheMiss(c)
  <2>1. /\ pc[c] = "read" /\ pc' = [pc EXCEPT ![c] = "requesting"]
        /\ now' = now /\ token' = token /\ sentAt' = [sentAt EXCEPT ![c] = now]
    BY <1>4 DEF CacheMiss
  <2>2. Contract!Becomes(c, "asking")
    BY <1>1, <2>1, CallMoves, CallsMapped
  <2>3. Contract!Ask(c)
    BY <2>1, <2>2, CallsMapped DEF Contract!Ask
  <2> QED
    BY <2>3 DEF Contract!Next
<1>5. CASE CacheGetFails(c) \/ CacheSetFails(c)
  <2>1. /\ pc[c] \in Running /\ pc' = [pc EXCEPT ![c] = "rejected"]
        /\ now' = now /\ token' = token /\ sentAt' = sentAt
    BY <1>5 DEF CacheGetFails, CacheSetFails, Reject, Running
  <2>2. Contract!Becomes(c, "rejected")
    BY <1>1, <2>1, CallMoves, CallsMapped
  <2>3. Contract!Refuse(c)
    BY <2>1, <2>2, CallsMapped DEF Contract!Refuse, Contract!Unsettled, Running
  <2> QED
    BY <2>3 DEF Contract!Next
<1>6. CASE CacheAnswers(c)
  <2>1. /\ pc[c] = "reading" /\ pc' = [pc EXCEPT ![c] = "read"]
        /\ now' = now /\ token' = token /\ sentAt' = sentAt
    BY <1>6 DEF CacheAnswers
  <2>2. [d \in Caller |-> CallOf(pc[d])]' = [d \in Caller |-> CallOf(pc[d])]
    <3>1. pc \in [Caller -> {"idle", "resolved", "rejected", "lost"} \cup Running]
      BY DEF IInv, TypeOK
    <3>2. \A d \in Caller : CallOf(pc'[d]) = CallOf(pc[d])
      BY <2>1, <3>1, CallsMapped
    <3> QED
      BY <3>2
  <2>3. Contract!Forget
    BY <1>1, <2>1, <2>2 DEF Contract!Forget
  <2> QED
    BY <2>3 DEF Contract!Next
<1> QED
  BY <1>2, <1>3, <1>4, <1>5, <1>6 DEF Turn

\* What the token service does: it issues a token, its answer arrives or not.
LEMMA AnswerIsContracts ==
  ASSUME IInv, NEW c \in Caller, TokenServiceAnswers(c)
  PROVE  Contract!Next \/ UNCHANGED Contract!vars
<1>0. pc \in [Caller -> {"idle", "resolved", "rejected", "lost"} \cup Running]
  BY DEF IInv, TypeOK
<1>1. CASE TokenIssued(c)
  <2>1. /\ pc[c] = "requesting" /\ answer[c] = NoToken
        /\ answer' = [answer EXCEPT ![c] = now]
        /\ UNCHANGED <<now, cache, pc, sentAt, token>>
        /\ answer \in [Caller -> Token] /\ now \in Nat
    BY <1>1 DEF TokenIssued, IInv, TypeOK
  <2>2. ASSUME NEW t PROVE t \in AtHand' <=> t \in AtHand \/ t = now
    BY <2>1, AtHandIs, AtHandIsNext, NoTokenAssumption DEF Running
  <2>3. AtHand' = AtHand \cup {now}
    BY <2>2
  <2>4. Contract!Issue
    BY <2>1, <2>3, CallsMapped DEF Contract!Issue
  <2> QED
    BY <2>4 DEF Contract!Next
<1>2. ASSUME NEW t, Generated(c, t) PROVE Contract!Forget
  <2>1. /\ pc[c] = "requesting" /\ pc' = [pc EXCEPT ![c] = "storing"]
        /\ now' = now /\ token' = token /\ sentAt' = sentAt
    BY <1>2 DEF Generated
  <2>2. [d \in Caller |-> CallOf(pc[d])]' = [d \in Caller |-> CallOf(pc[d])]
    <3>1. \A d \in Caller : CallOf(pc'[d]) = CallOf(pc[d])
      BY <1>0, <2>1, CallsMapped
    <3> QED
      BY <3>1
  <2> QED
    BY <1>2, <2>1, <2>2, AtHandShrinks DEF Contract!Forget
<1>3. ASSUME NEW o, GenerateFails(c, o) PROVE Contract!Next
  <2>1. /\ pc[c] = "requesting" /\ pc' = [pc EXCEPT ![c] = "rejected"]
        /\ now' = now /\ token' = token /\ sentAt' = sentAt
    BY <1>3 DEF GenerateFails, Reject
  <2>2. Contract!Becomes(c, "rejected")
    BY <1>3, <2>1, CallMoves, CallsMapped, AtHandShrinks
  <2>3. Contract!Refuse(c)
    BY <2>1, <2>2, CallsMapped DEF Contract!Refuse, Contract!Unsettled
  <2> QED
    BY <2>3 DEF Contract!Next
<1>4. Contract!Forget => Contract!Next
  BY DEF Contract!Next
<1> QED
  BY <1>1, <1>2, <1>3, <1>4 DEF TokenServiceAnswers

LEMMA StepIsContracts == IInv /\ [Next]_vars => [Contract!Next]_(Contract!vars)
<1> SUFFICES ASSUME IInv, [Next]_vars
             PROVE  Contract!Next \/ UNCHANGED Contract!vars
  BY DEF Contract!vars
<1>1. ASSUME NEW c \in Caller, Get(c) PROVE Contract!Next
  <2>1. /\ pc[c] = "idle" /\ pc' = [pc EXCEPT ![c] = "reading"]
        /\ now' = now /\ token' = token /\ sentAt' = sentAt
    BY <1>1 DEF Get
  <2>2. Contract!Becomes(c, "waiting")
    BY <1>1, <2>1, CallMoves, CallsMapped, AtHandShrinks
  <2>3. Contract!Call(c)
    BY <2>1, <2>2, CallsMapped DEF Contract!Call
  <2> QED
    BY <2>3 DEF Contract!Next
<1>2. CASE Tick
  <2>1. Contract!TimePasses
    BY <1>2 DEF Tick, Contract!TimePasses, AtHand
  <2> QED
    BY <2>1 DEF Contract!Next
<1>3. CASE Crash
  <2>1. /\ pc' = [c \in Caller |-> IF pc[c] \in Running THEN "lost" ELSE pc[c]]
        /\ cache' = EmptyCache /\ now' = now /\ token' = token /\ sentAt' = sentAt
    BY <1>3 DEF Crash
  <2>2. AtHand' = {}
    BY <2>1, AtHandIsNext DEF EmptyCache, Running
  <2>3. \A c \in Caller : CallOf(pc'[c]) =
          IF CallOf(pc[c]) \in Contract!Unsettled THEN "lost" ELSE CallOf(pc[c])
    <3>1. pc \in [Caller -> {"idle", "resolved", "rejected", "lost"} \cup Running]
      BY DEF IInv, TypeOK
    <3> QED
      BY <2>1, <3>1, CallsMapped DEF Contract!Unsettled, Running
  <2>4. Contract!Die
    BY <2>1, <2>2, <2>3 DEF Contract!Die
  <2> QED
    BY <2>4 DEF Contract!Next
<1>4. CASE UNCHANGED vars
  BY <1>4 DEF vars, Contract!vars, AtHand, CallOf
<1> QED
  BY <1>1, <1>2, <1>3, <1>4, TurnIsContracts, AnswerIsContracts DEF Next

\* AccessTokenService keeps its contract whatever the ttl, the timeout and the
\* interleaving of its calls.
THEOREM TokenContractRefined == Spec => ImplementsTokenContract
BY InitIsContracts, StepIsContracts, Invariance, PTL
DEF Spec, ImplementsTokenContract, Contract!Spec
=============================================================================

----------------------------- MODULE AccessToken -----------------------------
(***************************************************************************)
(* AccessTokenService.get: the token of the bank's gateway, kept in Nest's  *)
(* in-memory cache under one key and shared by every request.  Nothing      *)
(* serialises the calls: each that misses the cache asks the token service   *)
(* itself and overwrites what is there when its answer comes.               *)
(*                                                                         *)
(* A token is the time at which the token service issued it.  Time advances  *)
(* in steps of a common unit; what happens inside the process takes none.    *)
(***************************************************************************)
EXTENDS HttpProxy

CONSTANTS
  Caller,          \* calls of get(), one each
  Ttl,             \* expiration_minutes * 60
  RequestTimeout,  \* token_service.timeout
  MaxTime,         \* bound of the model: time stops here
  NoToken          \* JavaScript's undefined in the place of a token

ASSUME TtlAssumption == Ttl \in Nat \ {0}
ASSUME RequestTimeoutAssumption == RequestTimeout \in Nat \ {0}
ASSUME MaxTimeAssumption == MaxTime \in Nat
ASSUME NoTokenAssumption == NoToken \notin Nat

VARIABLES
  now,     \* the time
  cache,   \* the entry under 'token': the value and when it was stored
  pc,      \* where each call of get() is
  sentAt,  \* when it asked the token service
  answer,  \* what the cache, or the token service, answered it
  token,   \* what it resolved with
  at       \* when it resolved

vars == <<now, cache, pc, sentAt, answer, token, at>>

Token == Nat \cup {NoToken}

EmptyCache == [token |-> NoToken, stored |-> 0]

Running == {"reading", "read", "requesting", "storing"}

Init ==
  /\ now = 0
  /\ cache = EmptyCache
  /\ pc = [c \in Caller |-> "idle"]
  /\ sentAt = [c \in Caller |-> 0]
  /\ answer = [c \in Caller |-> NoToken]
  /\ token = [c \in Caller |-> NoToken]
  /\ at = [c \in Caller |-> 0]

\* What cacheManager.get finds is truthy: there is a token, and lru-cache does
\* not find it older than its ttl.
Fresh == cache.token # NoToken /\ now - cache.stored <= Ttl

Resolve(c, t) ==
  /\ pc' = [pc EXCEPT ![c] = "resolved"]
  /\ token' = [token EXCEPT ![c] = t]
  /\ at' = [at EXCEPT ![c] = now]

Reject(c) ==
  /\ pc' = [pc EXCEPT ![c] = "rejected"]
  /\ UNCHANGED <<token, at>>

\* get() is called and awaits cacheManager.get.  The model starts no call whose
\* timeout would lie past MaxTime.
Get(c) ==
  /\ pc[c] = "idle"
  /\ now + RequestTimeout <= MaxTime
  /\ pc' = [pc EXCEPT ![c] = "reading"]
  /\ UNCHANGED <<now, cache, sentAt, answer, token, at>>

\* cacheManager.get resolves.  The call goes on with what was there: others may
\* take their turns before it does.
CacheAnswers(c) ==
  /\ pc[c] = "reading"
  /\ pc' = [pc EXCEPT ![c] = "read"]
  /\ answer' = [answer EXCEPT ![c] = IF Fresh THEN cache.token ELSE NoToken]
  /\ UNCHANGED <<now, cache, sentAt, token, at>>

\* As a bug: using the entry prolongs its life.
CacheHitProlonging(c) ==
  /\ pc[c] = "read"
  /\ answer[c] # NoToken
  /\ Resolve(c, answer[c])
  /\ cache' = [cache EXCEPT !.stored = now]
  /\ UNCHANGED <<now, sentAt, answer>>

CacheHit(c) ==
  /\ pc[c] = "read"
  /\ answer[c] # NoToken
  /\ Resolve(c, answer[c])
  /\ UNCHANGED <<now, cache, sentAt, answer>>

\* As a bug: every call asks, whatever the cache answers.
CacheIgnored(c) ==
  /\ pc[c] = "read"
  /\ pc' = [pc EXCEPT ![c] = "requesting"]
  /\ sentAt' = [sentAt EXCEPT ![c] = now]
  /\ answer' = [answer EXCEPT ![c] = NoToken]
  /\ UNCHANGED <<now, cache, token, at>>

\* An undefined or stale entry: POST to the token service.
CacheMiss(c) ==
  /\ pc[c] = "read"
  /\ answer[c] = NoToken
  /\ pc' = [pc EXCEPT ![c] = "requesting"]
  /\ sentAt' = [sentAt EXCEPT ![c] = now]
  /\ UNCHANGED <<now, cache, answer, token, at>>

\* cacheManager.get rejects: createInternalError, and no request is sent.
CacheGetFails(c) ==
  /\ pc[c] = "reading"
  /\ Reject(c)
  /\ UNCHANGED <<now, cache, sentAt, answer>>

\* The token service issues a token and answers; the answer takes its time.
TokenIssued(c) ==
  /\ pc[c] = "requesting"
  /\ answer[c] = NoToken
  /\ answer' = [answer EXCEPT ![c] = now]
  /\ UNCHANGED <<now, cache, pc, sentAt, token, at>>

\* The answer arrives and goes to cacheManager.set.  A body without an
\* access_token is stored and returned as it is.
Generated(c, t) ==
  /\ pc[c] = "requesting"
  /\ t \in {answer[c], NoToken}
  /\ pc' = [pc EXCEPT ![c] = "storing"]
  /\ answer' = [answer EXCEPT ![c] = t]
  /\ UNCHANGED <<now, cache, sentAt, token, at>>

\* What generate() and the reading of access_token throw on outcome o.
GenerateError(o) == IF o = Answer("null") THEN "TypeError" ELSE Thrown(o)

\* As a bug: the request is sent without a timeout.
GenerateFailsUntimed(c, o) ==
  /\ pc[c] = "requesting"
  /\ GenerateError(o) # "none"
  /\ o.error \notin TimerFired
  /\ Reject(c)
  /\ UNCHANGED <<now, cache, sentAt, answer>>

\* get() rejects with what they throw.  The client's timer fires no sooner than
\* its time.
GenerateFails(c, o) ==
  /\ pc[c] = "requesting"
  /\ GenerateError(o) # "none"
  /\ o.error \in TimerFired => now = sentAt[c] + RequestTimeout
  /\ Reject(c)
  /\ UNCHANGED <<now, cache, sentAt, answer>>

\* As a bug: the ttl is counted backwards.
CacheSetBackdated(c) ==
  /\ pc[c] = "storing"
  /\ cache' = [token |-> answer[c], stored |-> now - Ttl]
  /\ Resolve(c, answer[c])
  /\ UNCHANGED <<now, sentAt, answer>>

\* As a bug: an entry that another call has stored meanwhile is kept and returned.
CacheSetUnlessFresh(c) ==
  /\ pc[c] = "storing"
  /\ cache' = IF Fresh THEN cache ELSE [token |-> answer[c], stored |-> now]
  /\ Resolve(c, cache'.token)
  /\ UNCHANGED <<now, sentAt, answer>>

\* cacheManager.set resolves: the entry lives for Ttl from now, whatever age
\* the token has and whatever was there.
CacheSet(c) ==
  /\ pc[c] = "storing"
  /\ cache' = [token |-> answer[c], stored |-> now]
  /\ Resolve(c, answer[c])
  /\ UNCHANGED <<now, sentAt, answer>>

\* cacheManager.set rejects, and the token is lost with it.
CacheSetFails(c) ==
  /\ pc[c] = "storing"
  /\ Reject(c)
  /\ UNCHANGED <<now, cache, sentAt, answer>>

\* Time passes while no call has something to do at once, and the timer of a
\* request to the token service does not run over.
Tick ==
  /\ now < MaxTime
  /\ \A c \in Caller :
       /\ pc[c] \notin {"reading", "read", "storing"}
       /\ pc[c] = "requesting" => now < sentAt[c] + RequestTimeout
  /\ now' = now + 1
  /\ UNCHANGED <<cache, pc, sentAt, answer, token, at>>

\* The process dies and is started again: its memory is gone.
Crash ==
  /\ pc' = [c \in Caller |-> IF pc[c] \in Running THEN "lost" ELSE pc[c]]
  /\ cache' = EmptyCache
  /\ UNCHANGED <<now, sentAt, answer, token, at>>

\* The turns of the event loop a call takes without waiting for the network.
Turn(c) ==
  \/ CacheAnswers(c) \/ CacheGetFails(c) \/ CacheHit(c) \/ CacheMiss(c)
  \/ CacheSet(c) \/ CacheSetFails(c)

TokenServiceAnswers(c) ==
  \/ TokenIssued(c)
  \/ \E t \in {answer[c], NoToken} : Generated(c, t)
  \/ \E o \in OutcomesUnder("armed") : GenerateFails(c, o)

TimesOut(c) == \E e \in TimerFired : GenerateFails(c, Failure(e))

Next ==
  \/ \E c \in Caller : Get(c) \/ Turn(c) \/ TokenServiceAnswers(c)
  \/ Tick
  \/ Crash

Spec == Init /\ [][Next]_vars

\* Time passes, the process takes its turns and its timers fire; the token
\* service owes nothing.
Fairness ==
  /\ WF_vars(Tick)
  /\ \A c \in Caller : WF_vars(Turn(c)) /\ WF_vars(TimesOut(c))

FairSpec == Spec /\ Fairness
----------------------------------------------------------------------------
\* Properties.

\* Type invariant.
TypeOK ==
  /\ now \in 0 .. MaxTime
  /\ cache \in [token : Token, stored : Nat]
  /\ pc \in [Caller -> {"idle", "resolved", "rejected", "lost"} \cup Running]
  /\ sentAt \in [Caller -> Nat]
  /\ answer \in [Caller -> Token]
  /\ token \in [Caller -> Token]
  /\ at \in [Caller -> Nat]

\* A token is never handed out older than its time in the cache plus the time
\* its answer may take: the ttl counts from the moment of storing, not of issue,
\* and calls overwrite each other's entry in any order.
TokenAgeBounded ==
  \A c \in Caller :
    pc[c] = "resolved" /\ token[c] # NoToken
      => at[c] - token[c] <= Ttl + RequestTimeout

\* Calls that overlap a miss may all go to the token service, those too that go on
\* from their miss when another has just stored its token; but none that reads the
\* cache after that: while the cache is fresh, a request to the token service was
\* sent no later than the entry was stored.
StampedeBounded ==
  \A c \in Caller : pc[c] = "requesting" /\ Fresh => sentAt[c] <= cache.stored

\* The tokens in the memory of the process.
AtHand ==
  ({cache.token} \cup {answer[c] : c \in {d \in Caller : pc[d] \in Running}})
    \ {NoToken}

\* Where a call is, in the words of TokenContract.
CallOf(label) ==
  CASE label \in {"reading", "read"} -> "waiting"
    [] label \in {"requesting", "storing"} -> "asking"
    [] OTHER -> label

Contract ==
  INSTANCE TokenContract WITH
    MaxAge <- Ttl + RequestTimeout,
    time <- now,
    pool <- AtHand,
    call <- [c \in Caller |-> CallOf(pc[c])],
    asked <- sentAt,
    given <- token

\* The cache keeps the contract of a service without one.  A call settles once and
\* for good; the token it gets was issued to this process, to whichever call asked
\* for it, and not before the call itself asked; and an answer without a token,
\* which is stored like any other, leaves nobody without one but the call that
\* asked (access-token.service.ts:31-61).
ImplementsTokenContract == Contract!Spec

\* Every call settles, or is lost with the process.
EveryCallSettles ==
  \A c \in Caller :
    pc[c] \in Running ~> pc[c] \in {"resolved", "rejected", "lost"}
=============================================================================

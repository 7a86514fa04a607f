---------------------------- MODULE TokenContract ----------------------------
(***************************************************************************)
(* What AccessTokenService.get promises its callers, with no word of a cache *)
(* or of its ttl: how each call settles (call, given), against the tokens    *)
(* the process has at hand (pool).  AccessToken implements it.              *)
(***************************************************************************)
EXTENDS Integers

CONSTANTS
  Caller,   \* calls of get(), one each
  MaxAge,   \* no token is given older than this
  NoToken   \* in the place of a token

VARIABLES
  time,
  pool,   \* tokens at hand, each the time of its issue
  call,   \* where each call is
  asked,  \* when it went to the token service
  given   \* what it resolved with

vars == <<time, pool, call, asked, given>>

\* waiting: for a token; asking: it has gone to the token service itself.
Unsettled == {"waiting", "asking"}

Init ==
  /\ time = 0
  /\ pool = {}
  /\ call = [c \in Caller |-> "idle"]
  /\ asked = [c \in Caller |-> 0]
  /\ given = [c \in Caller |-> NoToken]

\* A call goes on; whatever a call does may lose tokens that were at hand.
Becomes(c, status) ==
  /\ call' = [call EXCEPT ![c] = status]
  /\ pool' \subseteq pool
  /\ UNCHANGED time

Call(c) ==
  call[c] = "idle" /\ Becomes(c, "waiting") /\ UNCHANGED <<asked, given>>

\* A call goes to the token service at most once.
Ask(c) ==
  /\ call[c] = "waiting"
  /\ Becomes(c, "asking")
  /\ asked' = [asked EXCEPT ![c] = time]
  /\ UNCHANGED given

\* A token comes from the token service alone, while a call asks for one.
Issue ==
  /\ \E c \in Caller : call[c] = "asking"
  /\ pool' = pool \cup {time}
  /\ UNCHANGED <<time, call, asked, given>>

Resolve(c, t) ==
  /\ Becomes(c, "resolved")
  /\ given' = [given EXCEPT ![c] = t]
  /\ UNCHANGED asked

\* A token is given only from those at hand, and none that is too old.  It may be
\* one that another call has asked for; but a call that went to ask itself gets
\* none that was issued before.
Give(c, t) ==
  /\ call[c] \in Unsettled
  /\ t \in pool
  /\ time - t <= MaxAge
  /\ call[c] = "asking" => asked[c] <= t
  /\ Resolve(c, t)

\* To go without a token is the lot of a call that asked for one itself.
GiveNone(c) == call[c] = "asking" /\ Resolve(c, NoToken)

Refuse(c) ==
  /\ call[c] \in Unsettled
  /\ Becomes(c, "rejected")
  /\ UNCHANGED <<asked, given>>

Forget == pool' \subseteq pool /\ UNCHANGED <<time, call, asked, given>>

TimePasses == time' = time + 1 /\ UNCHANGED <<pool, call, asked, given>>

\* No token outlives the process, nor does a call.
Die ==
  /\ call' = [c \in Caller |-> IF call[c] \in Unsettled THEN "lost" ELSE call[c]]
  /\ pool' = {}
  /\ UNCHANGED <<time, asked, given>>

Next ==
  \/ \E c \in Caller :
       \/ Call(c) \/ Ask(c) \/ GiveNone(c) \/ Refuse(c)
       \/ \E t \in pool : Give(c, t)
  \/ Issue \/ Forget \/ TimePasses \/ Die

Spec == Init /\ [][Next]_vars
=============================================================================

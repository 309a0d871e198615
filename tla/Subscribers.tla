----------------------------- MODULE Subscribers -----------------------------
(***************************************************************************)
(* The Discord webhooks that visitors register (subscribers.py and         *)
(* routes/subscribe.py): the table of subscribers, the test message that   *)
(* follows a subscription, and the delivery of an announcement to          *)
(* everybody who was in the table when it was made.                        *)
(*                                                                         *)
(* The server is one event loop, so a handler is atomic between two        *)
(* awaits.  It waits for Discord while a message is out, and for a free    *)
(* slot of the broadcast's semaphore before one goes out: the row that the *)
(* message was meant for may be gone, or be another one, when the answer   *)
(* comes.  An answer is applied by url, a failed test and an unsubscription *)
(* by token.                                                               *)
(***************************************************************************)
EXTENDS Naturals, FiniteSets

CONSTANTS
  Urls,            \* the webhooks Discord knows
  MaxSubscribers,  \* settings.max_webhook_subscribers
  MaxFailures,     \* _MAX_FAILURES
  Concurrency,     \* _CONCURRENCY
  MaxTokens,       \* bound: subscriptions that are ever made
  MaxBroadcasts    \* bound: announcements that are ever broadcast

ASSUME SubscribersAssumption ==
  /\ {MaxSubscribers, MaxTokens, MaxBroadcasts} \subseteq Nat
  /\ {MaxFailures, Concurrency} \subseteq Nat \ {0}

VARIABLES
  subscribers,  \* rows of webhook_subscribers
  issued,       \* tokens handed out so far; a token is its number
  tests,        \* test messages whose answer is awaited
  broadcasts,   \* broadcasts begun so far
  deliveries,   \* messages of broadcasts that wait for a slot or an answer
  refusals      \* what Discord said of a url: answers that failed since the
                \* last good one, a dead webhook counting as MaxFailures

memory == <<tests, deliveries>>
subsVars == <<subscribers, issued, broadcasts, memory, refusals>>

Tokens == 1..MaxTokens
Rows == [url : Urls, token : Tokens, failures : Nat]
Deliveries == [broadcast : 1..MaxBroadcasts, url : Urls, token : Tokens, out : BOOLEAN]

\* Types; a url and a token name at most one row each (UNIQUE in the schema).
SubscribersOK ==
  /\ subscribers \subseteq Rows
  /\ \A r, s \in subscribers : r.url = s.url \/ r.token = s.token => r = s
  /\ Cardinality(subscribers) <= MaxSubscribers
  /\ issued \in 0..MaxTokens
  /\ broadcasts \in 0..MaxBroadcasts
  /\ tests \subseteq [url : Urls, token : Tokens]
  /\ deliveries \subseteq Deliveries
  /\ refusals \in [Urls -> 0..MaxFailures]

SubscribersInit ==
  /\ subscribers = {}
  /\ issued = 0
  /\ broadcasts = 0
  /\ tests = {}
  /\ deliveries = {}
  /\ refusals = [u \in Urls |-> 0]

Row(url) == {s \in subscribers : s.url = url}
Without(token) == {s \in subscribers : s.token # token}

(***************************************************************************)
(* Definitions named Faulty... are plausible mistakes; nothing uses them.  *)
(***************************************************************************)
FaultyFree(url) == TRUE
Free(url) == Row(url) = {}

FaultyDropped(test) == subscribers \ Row(test.url)
Dropped(test) == Without(test.token)

-----------------------------------------------------------------------------
\* A url is taken when the table has room and does not have it; the row is
\* written before the test message is sent.
Subscribe(url) ==
  /\ issued < MaxTokens
  /\ Cardinality(subscribers) < MaxSubscribers
  /\ Free(url)
  /\ issued' = issued + 1
  /\ subscribers' = subscribers \cup {[url |-> url, token |-> issued', failures |-> 0]}
  /\ tests' = tests \cup {[url |-> url, token |-> issued']}
  /\ UNCHANGED <<broadcasts, deliveries, refusals>>

\* Discord refuses the test message, or does not answer within the timeout:
\* the row it was for is dropped, and no other row of that url.
TestAnswered(test, delivered) ==
  /\ test \in tests
  /\ tests' = tests \ {test}
  /\ subscribers' = IF delivered THEN subscribers ELSE Dropped(test)
  /\ UNCHANGED <<issued, broadcasts, deliveries, refusals>>

\* The link in a message; it names the row by its token.
Unsubscribe(token) ==
  /\ \E s \in subscribers : s.token = token
  /\ subscribers' = Without(token)
  /\ UNCHANGED <<issued, broadcasts, memory, refusals>>

-----------------------------------------------------------------------------
\* The list of a broadcast is read once, when it begins.
Broadcast ==
  /\ broadcasts < MaxBroadcasts
  /\ broadcasts' = broadcasts + 1
  /\ deliveries' = deliveries \cup
       {[broadcast |-> broadcasts', url |-> s.url, token |-> s.token, out |-> FALSE] : s \in subscribers}
  /\ UNCHANGED <<subscribers, issued, tests, refusals>>

\* Messages that hold one of the broadcast's slots.
FaultyOut(b) == {d \in deliveries : d.broadcast = b}
Out(b) == {d \in deliveries : d.broadcast = b /\ d.out}

Send(d) ==
  /\ d \in deliveries
  /\ ~d.out
  /\ Cardinality(Out(d.broadcast)) < Concurrency
  /\ deliveries' = (deliveries \ {d}) \cup {[d EXCEPT !.out = TRUE]}
  /\ UNCHANGED <<subscribers, issued, broadcasts, tests, refusals>>

\* _reset_failures
Delivered(url) ==
  /\ subscribers' = {IF s.url = url THEN [s EXCEPT !.failures = 0] ELSE s : s \in subscribers}
  /\ refusals' = [refusals EXCEPT ![url] = 0]

\* 401, 403, 404 or 410: _remove_by_url
Dead(url) ==
  /\ subscribers' = subscribers \ Row(url)
  /\ refusals' = [refusals EXCEPT ![url] = MaxFailures]

\* _bump_failures adds one ...
Bumped(url) ==
  {IF s.url = url THEN [s EXCEPT !.failures = @ + 1] ELSE s : s \in subscribers}

OneMoreRefusal(url) ==
  refusals' = [refusals EXCEPT ![url] = IF @ < MaxFailures THEN @ + 1 ELSE @]

\* ... and then deletes the row that has reached the limit.
Failed(url) ==
  /\ subscribers' = {s \in Bumped(url) : s.url = url => s.failures < MaxFailures}
  /\ OneMoreRefusal(url)

\* Discord's answer, or its absence after the timeout, about one message.
Answered(d) ==
  /\ d \in deliveries
  /\ d.out
  /\ deliveries' = deliveries \ {d}
  /\ Delivered(d.url) \/ Dead(d.url) \/ Failed(d.url)
  /\ UNCHANGED <<issued, broadcasts, tests>>

Deliver == \E d \in deliveries : Send(d) \/ Answered(d)

-----------------------------------------------------------------------------
\* What the process had in memory is lost: no test and no delivery that was
\* under way is ever finished.
Restarted == tests' = {} /\ deliveries' = {}

\* It dies between the two statements of _bump_failures.
CrashInBump(d) ==
  /\ d \in deliveries
  /\ d.out
  /\ subscribers' = Bumped(d.url)
  /\ OneMoreRefusal(d.url)
  /\ Restarted
  /\ UNCHANGED <<issued, broadcasts>>

SubscribersNext ==
  \/ \E u \in Urls : Subscribe(u)
  \/ \E t \in tests, delivered \in BOOLEAN : TestAnswered(t, delivered)
  \/ \E t \in Tokens : Unsubscribe(t)
  \/ Deliver
  \/ \E d \in deliveries : CrashInBump(d)
=============================================================================

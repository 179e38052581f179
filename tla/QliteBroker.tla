----------------------------- MODULE QliteBroker -----------------------------
(***************************************************************************)
(* pkg/qlite/broker.go: a message queue kept in two SQLite tables.         *)
(*                                                                         *)
(* Publish inserts a row and leaves a token in the channel pollAgain.  One *)
(* polling goroutine takes the tokens; for every topic it selects as many  *)
(* due rows as the topic's semaphore has room for, marks each as started   *)
(* and starts a goroutine (consumeOnce) for it.  That goroutine runs the   *)
(* consumer, publishes the follow-up messages of a success, and either     *)
(* moves the row to the archive (success and plain errors alike) or        *)
(* rewrites it to be tried again later.                                    *)
(*                                                                         *)
(* A row whose started_at is older than startExpire is due again, whether  *)
(* its handler died with the process or is just slow.                      *)
(*                                                                         *)
(* Abstracted.  Payload, header, error text, elapsed time and the tries    *)
(* counter.  Timestamps are kept relative to the clock: "age" is the time  *)
(* since started_at, "wait" the time left until try_after, so that the     *)
(* clock itself is unbounded.  Every message has a uid the code does not   *)
(* have: row ids are reused by SQLite, uids are not.                       *)
(***************************************************************************)
EXTENDS Integers, Sequences, FiniteSets

CONSTANTS
  Topics,        \* topics AddConsumer was called for
  Bodies,        \* contents a message can have
  TopicOf,       \* [Bodies -> topic], the topic may have no consumer
  OnSuccess,     \* [Bodies -> Seq(Bodies)], follow-ups in the order of on_success
  Reloads,       \* bodies whose payload has the consumer's type when read back from JSON
  Concurrency,   \* [Topics -> Nat \ {0}], capacity of the semaphore
  StartExpire,   \* ticks after which a started row may be started again
  RetryDelay,    \* ticks an ErrRetryAfter asks for
  Uid,           \* bound: the uids messages may get, 1..n or all of Nat
  Timely,        \* TRUE: a handler always ends within StartExpire
  MaxPublish,    \* bound: calls of Publish from outside of the broker
  MaxCrashes,    \* bound: process restarts
  MaxFaults,     \* bound: failing database statements
  MaxRetries     \* bound: handlers that end with ErrRetryAfter

\* Capacity of the channel pollAgain.
ChanCap == 2

ASSUME BrokerAssumption ==
  /\ DOMAIN TopicOf = Bodies
  /\ OnSuccess \in [Bodies -> Seq(Bodies)]
  /\ Reloads \subseteq Bodies
  /\ Concurrency \in [Topics -> Nat \ {0}]
  /\ IsFiniteSet(Topics)
  /\ StartExpire \in Nat /\ RetryDelay \in Nat
  /\ Uid \subseteq Nat \ {0}
  /\ Timely \in BOOLEAN
  /\ MaxPublish \in Nat /\ MaxCrashes \in Nat
  /\ MaxFaults \in Nat /\ MaxRetries \in Nat

\* A topic's goroutines, one per place in its semaphore.  A place is taken
\* from "c.sem <- struct{}{}" to the deferred "<-c.sem".
Slots == UNION {{t} \X (1..Concurrency[t]) : t \in Topics}

VARIABLES
  rows,       \* table message: row ids in use |-> row
  archive,    \* table message_archive, without its ids
  pollAgain,  \* tokens in the channel
  poller,     \* the goroutine Broker.poll
  run,        \* the consumeOnce goroutines
  published,  \* uids given out so far
  followed,   \* <<uid, k>>: follow-up k of message uid was published
  dropped,    \* <<uid, k>>: publishing it failed, the error was logged
  budget      \* what is left of the bounds

vars == <<rows, archive, pollAgain, poller, run, published, followed, dropped, budget>>

RowId == Nat \ {0}
Never == StartExpire + 1      \* age of a row that is not started, or long ago
Row == [uid : Uid, body : Bodies, age : 0..Never, wait : 0..RetryDelay]
Picked == [id : RowId, uid : Uid, body : Bodies]   \* what a SELECT copied of a row
Outcomes == {"ok", "error", "retry"}

Handler ==
  [pc : {"consume", "publish", "settle", "delete", "release"},
   id : RowId, uid : Uid, body : Bodies, out : Outcomes, next : Nat]
Idle == [pc |-> "idle"]

Poller == [pc : {"topics", "claim"}, todo : SUBSET Topics,
           batch : SUBSET Picked, found : BOOLEAN]
-----------------------------------------------------------------------------
(* Helpers *)

Assign(f, k, v) == [i \in DOMAIN f \cup {k} |-> IF i = k THEN v ELSE f[i]]
Remove(f, k) == [i \in DOMAIN f \ {k} |-> f[i]]

\* Mutant: any id that is not in use, so that gaps are filled.
FreshIdInGap(n) == n \notin DOMAIN rows

\* INTEGER PRIMARY KEY without AUTOINCREMENT: one more than the largest id in use.
FreshId(n) == \A i \in DOMAIN rows : i < n

\* Mutant: validate looks at the follow-ups of the message, not at theirs.
ValidShallow(b) ==
  \A c \in {b} \cup {OnSuccess[b][k] : k \in DOMAIN OnSuccess[b]} : TopicOf[c] \in Topics

\* Bodies of B whose topic has a consumer, as has that of every follow-up, at any depth.
Consumed(B) == {b \in B : \E S \in SUBSET B :
                  /\ b \in S
                  /\ \A c \in S : /\ TopicOf[c] \in Topics
                                  /\ \A k \in DOMAIN OnSuccess[c] : OnSuccess[c][k] \in S}
ValidBodies == Consumed(Bodies)
ReloadedBodies == Consumed(Reloads)

\* validate: the topic has a consumer, and so has every follow-up, recursively.
Valid(b) == b \in ValidBodies

\* validate once more, when on_success was read from the table: the payloads are what
\* JSON decodes to, and assertType accepts only the types that survive that.
ValidReloaded(b) == b \in ReloadedBodies

\* Mutant: the send is not bounded by the capacity of the channel.
KickUnbounded == pollAgain' = pollAgain + 1

\* The non-blocking send of a token.
Kick == pollAgain' = IF pollAgain < ChanCap THEN pollAgain + 1 ELSE pollAgain

\* INSERT of a fresh message, then the token.
Enqueue(b) ==
  /\ published + 1 \in Uid
  /\ published' = published + 1
  /\ \E n \in {1} \cup {i + 1 : i \in DOMAIN rows} :
       /\ FreshId(n)
       /\ rows' = Assign(rows, n, [uid |-> published + 1, body |-> b,
                                  age |-> Never, wait |-> 0])
  /\ Kick

\* How often what the environment may do: the bounds by name.
Bounds == [what \in {"publish", "crash", "fault", "retry"} |->
             CASE what = "publish" -> MaxPublish [] what = "crash" -> MaxCrashes
               [] what = "fault" -> MaxFaults [] what = "retry" -> MaxRetries]

Spend(what) == /\ budget[what] > 0
               /\ budget' = [budget EXCEPT ![what] = @ - 1]

Free(t) == {s \in Slots : s[1] = t /\ run[s] = Idle}

\* Which free place a goroutine gets does not matter: take the first.
FirstFree(t) == {s \in Free(t) : \A r \in Free(t) : s[2] <= r[2]}

\* Mutant: the poll query forgets that a row is started.
DueIgnoringStart(t) ==
  {i \in DOMAIN rows : TopicOf[rows[i].body] = t /\ rows[i].wait = 0}

\* The WHERE clause of the poll query.
Due(t) == {i \in DOMAIN rows : /\ TopicOf[rows[i].body] = t
                               /\ rows[i].wait = 0
                               /\ rows[i].age > StartExpire}

\* Mutant: the query has no LIMIT.
UnlimitedOf(B, S, n) == B = S

\* ORDER BY id LIMIT n.
LimitOf(B, S, n) ==
  /\ Cardinality(B) <= n
  /\ \A i \in B, j \in S \ B : i < j
  /\ B = S \/ Cardinality(B) = n

Live(s) == run[s].pc \in {"consume", "publish", "settle", "delete"}
-----------------------------------------------------------------------------
(* Publishing *)

\* Broker.Publish, called by a request handler or from inside of a consumer.
Publish(b) ==
  /\ Spend("publish")
  /\ Valid(b)
  /\ Enqueue(b)
  /\ UNCHANGED <<archive, poller, run, followed, dropped>>

\* Mutant: the minute ticker is missing.
PollNever == FALSE /\ UNCHANGED vars

\* Broker.Poll, called by the ticker every minute.
Poll == /\ Kick
        /\ UNCHANGED <<rows, archive, poller, run, published, followed, dropped, budget>>
-----------------------------------------------------------------------------
(* The polling goroutine *)

EndRound == poller' = [poller EXCEPT !.pc = "topics", !.todo = {}, !.batch = {}, !.found = FALSE]

\* poll: a token starts a round over all topics.
TakeToken ==
  /\ poller.pc = "topics" /\ poller.todo = {}
  /\ pollAgain > 0
  /\ pollAgain' = pollAgain - 1
  /\ poller' = [poller EXCEPT !.todo = Topics]
  /\ UNCHANGED <<rows, archive, run, published, followed, dropped, budget>>

\* consumerOf.pollOnce returns early when the semaphore is full.
SkipTopic(t) ==
  /\ poller.pc = "topics" /\ t \in poller.todo
  /\ Free(t) = {}
  /\ poller' = [poller EXCEPT !.todo = @ \ {t}]
  /\ UNCHANGED <<rows, archive, pollAgain, run, published, followed, dropped, budget>>

\* consumerOf.pollOnce up to the SELECT.
SelectDue(t) ==
  /\ poller.pc = "topics" /\ t \in poller.todo
  /\ Free(t) # {}
  /\ \E B \in SUBSET Due(t) :
       /\ LimitOf(B, Due(t), Cardinality(Free(t)))
       /\ poller' = [pc |-> "claim", todo |-> poller.todo \ {t}, found |-> FALSE,
                     batch |-> {[id |-> i, uid |-> rows[i].uid, body |-> rows[i].body] : i \in B}]
  /\ UNCHANGED <<rows, archive, pollAgain, run, published, followed, dropped, budget>>

\* The SELECT fails: Broker.pollOnce gives up the round, the other topics included.
SelectFails(t) ==
  /\ poller.pc = "topics" /\ t \in poller.todo
  /\ Free(t) # {}
  /\ Spend("fault")
  /\ EndRound
  /\ UNCHANGED <<rows, archive, pollAgain, run, published, followed, dropped>>

Started(m) == [pc |-> "consume", id |-> m.id, uid |-> m.uid, body |-> m.body,
               out |-> "ok", next |-> 1]

FirstOf(m) == \A n \in poller.batch : m.id <= n.id

\* Mutant: the goroutine is started but started_at is not written.
ClaimUnmarked(m) ==
  /\ poller.pc = "claim" /\ m \in poller.batch /\ FirstOf(m)
  /\ m.id \in DOMAIN rows
  /\ poller' = [poller EXCEPT !.batch = @ \ {m}, !.found = TRUE]
  /\ \E s \in FirstFree(TopicOf[m.body]) : run' = [run EXCEPT ![s] = Started(m)]
  /\ UNCHANGED <<rows, archive, pollAgain, published, followed, dropped, budget>>

\* Set started_at of the next row of the batch; it had a row to update: start a
\* consumer for what was selected.  The send to the semaphore blocks when it is full.
Claim(m) ==
  /\ poller.pc = "claim" /\ m \in poller.batch /\ FirstOf(m)
  /\ m.id \in DOMAIN rows
  /\ rows' = [rows EXCEPT ![m.id].age = 0]
  /\ poller' = [poller EXCEPT !.batch = @ \ {m}, !.found = TRUE]
  /\ \E s \in FirstFree(TopicOf[m.body]) : run' = [run EXCEPT ![s] = Started(m)]
  /\ UNCHANGED <<archive, pollAgain, published, followed, dropped, budget>>

\* The row is gone since the SELECT.
ClaimGone(m) ==
  /\ poller.pc = "claim" /\ m \in poller.batch /\ FirstOf(m)
  /\ m.id \notin DOMAIN rows
  /\ poller' = [poller EXCEPT !.batch = @ \ {m}]
  /\ UNCHANGED <<rows, archive, pollAgain, run, published, followed, dropped, budget>>

\* The UPDATE fails: the round is given up, without the token for what was found.
ClaimFails ==
  /\ poller.pc = "claim" /\ poller.batch # {}
  /\ Spend("fault")
  /\ EndRound
  /\ UNCHANGED <<rows, archive, pollAgain, run, published, followed, dropped>>

\* End of consumerOf.pollOnce: another round if this one found something.
FinishTopic ==
  /\ poller.pc = "claim" /\ poller.batch = {}
  /\ IF poller.found THEN Kick ELSE UNCHANGED pollAgain
  /\ poller' = [poller EXCEPT !.pc = "topics", !.found = FALSE]
  /\ UNCHANGED <<rows, archive, run, published, followed, dropped, budget>>
-----------------------------------------------------------------------------
(* A consumeOnce goroutine *)

\* Mutant: a success goes to the archive without its follow-ups.
ConsumeForgetsFollowUps(s, out) ==
  /\ run[s].pc = "consume"
  /\ IF out = "retry" THEN Spend("retry") ELSE UNCHANGED budget
  /\ run' = [run EXCEPT ![s].out = out, ![s].pc = "settle"]
  /\ UNCHANGED <<rows, archive, pollAgain, poller, published, followed, dropped>>

\* The consumer returns: nil, an error, or ErrRetryAfter.
Consume(s, out) ==
  /\ run[s].pc = "consume"
  /\ IF out = "retry" THEN Spend("retry") ELSE UNCHANGED budget
  /\ run' = [run EXCEPT ![s].out = out,
                        ![s].pc = IF out = "ok" /\ OnSuccess[run[s].body] # <<>>
                                  THEN "publish" ELSE "settle"]
  /\ UNCHANGED <<rows, archive, pollAgain, poller, published, followed, dropped>>

\* The follow-up after this one, or the end of the loop over on_success.
NextFollowUp(s) ==
  run' = [run EXCEPT ![s].next = @ + 1,
                     ![s].pc = IF run[s].next = Len(OnSuccess[run[s].body])
                               THEN "settle" ELSE "publish"]

PublishFollowUp(s) ==
  /\ run[s].pc = "publish"
  /\ ValidReloaded(OnSuccess[run[s].body][run[s].next])
  /\ Enqueue(OnSuccess[run[s].body][run[s].next])
  /\ followed' = followed \cup {<<run[s].uid, run[s].next>>}
  /\ NextFollowUp(s)
  /\ UNCHANGED <<archive, poller, dropped, budget>>

\* Publish refuses the follow-up that it accepted as a part of the message: the error
\* is logged and the loop goes on.
FollowUpRejected(s) ==
  /\ run[s].pc = "publish"
  /\ ~ValidReloaded(OnSuccess[run[s].body][run[s].next])
  /\ dropped' = dropped \cup {<<run[s].uid, run[s].next>>}
  /\ NextFollowUp(s)
  /\ UNCHANGED <<rows, archive, pollAgain, poller, published, followed, budget>>

\* The INSERT fails: the error is logged and the loop goes on.
FollowUpFails(s) ==
  /\ run[s].pc = "publish"
  /\ ValidReloaded(OnSuccess[run[s].body][run[s].next])
  /\ Spend("fault")
  /\ dropped' = dropped \cup {<<run[s].uid, run[s].next>>}
  /\ NextFollowUp(s)
  /\ UNCHANGED <<rows, archive, pollAgain, poller, published, followed>>

\* Mutant: the row to be tried again is removed instead of rewritten.
RetryForgets(s) ==
  /\ run[s].pc = "settle" /\ run[s].out = "retry"
  /\ rows' = Remove(rows, run[s].id)
  /\ run' = [run EXCEPT ![s].pc = "release"]
  /\ UNCHANGED <<archive, pollAgain, poller, published, followed, dropped, budget>>

\* After ErrRetryAfter: UPDATE the row, by id, with all the handler has in memory.
Retry(s) ==
  /\ run[s].pc = "settle" /\ run[s].out = "retry"
  /\ rows' = IF run[s].id \in DOMAIN rows
             THEN [rows EXCEPT ![run[s].id] = [uid |-> run[s].uid, body |-> run[s].body,
                                               age |-> Never, wait |-> RetryDelay]]
             ELSE rows
  /\ run' = [run EXCEPT ![s].pc = "release"]
  /\ UNCHANGED <<archive, pollAgain, poller, published, followed, dropped, budget>>

\* Mutant: delete first, archive afterwards.
ArchiveSwapped(s) ==
  /\ run[s].pc = "settle" /\ run[s].out # "retry"
  /\ rows' = Remove(rows, run[s].id)
  /\ run' = [run EXCEPT ![s].pc = "delete"]
  /\ UNCHANGED <<archive, pollAgain, poller, published, followed, dropped, budget>>

\* After success or any other error: INSERT the outcome into the archive.
Archive(s) ==
  /\ run[s].pc = "settle" /\ run[s].out # "retry"
  /\ archive' = archive \cup {[uid |-> run[s].uid, body |-> run[s].body, out |-> run[s].out]}
  /\ run' = [run EXCEPT ![s].pc = "delete"]
  /\ UNCHANGED <<rows, pollAgain, poller, published, followed, dropped, budget>>

\* The UPDATE or INSERT fails: logged, the row stays started.
SettleFails(s) ==
  /\ run[s].pc = "settle"
  /\ Spend("fault")
  /\ run' = [run EXCEPT ![s].pc = "release"]
  /\ UNCHANGED <<rows, archive, pollAgain, poller, published, followed, dropped>>

\* Mutant: the archived row is not deleted.
DeleteForgotten(s) ==
  /\ run[s].pc = "delete"
  /\ run' = [run EXCEPT ![s].pc = "release"]
  /\ UNCHANGED <<rows, archive, pollAgain, poller, published, followed, dropped, budget>>

\* DELETE the row by id.
Delete(s) ==
  /\ run[s].pc = "delete"
  /\ rows' = Remove(rows, run[s].id)
  /\ run' = [run EXCEPT ![s].pc = "release"]
  /\ UNCHANGED <<archive, pollAgain, poller, published, followed, dropped, budget>>

\* The DELETE fails: logged, the row stays although it is archived.
DeleteFails(s) ==
  /\ run[s].pc = "delete"
  /\ Spend("fault")
  /\ run' = [run EXCEPT ![s].pc = "release"]
  /\ UNCHANGED <<rows, archive, pollAgain, poller, published, followed, dropped>>

\* The deferred receive from the semaphore; nobody is told about the free place.
Release(s) ==
  /\ run[s].pc = "release"
  /\ run' = [run EXCEPT ![s] = Idle]
  /\ UNCHANGED <<rows, archive, pollAgain, poller, published, followed, dropped, budget>>
-----------------------------------------------------------------------------
(* Environment *)

\* Time passes.  With Timely, no handler outlives the expiry of its row.
Tick ==
  /\ \E i \in DOMAIN rows : rows[i].age < Never \/ rows[i].wait > 0
  /\ Timely => \A s \in Slots : Live(s) => rows[run[s].id].age < StartExpire
  /\ rows' = [i \in DOMAIN rows |->
               [rows[i] EXCEPT !.age = IF @ < Never THEN @ + 1 ELSE @,
                               !.wait = IF @ > 0 THEN @ - 1 ELSE @]]
  /\ UNCHANGED <<archive, pollAgain, poller, run, published, followed, dropped, budget>>

\* The process dies and is started again: the tables stay, goroutines and tokens are
\* gone, and the start-up polls once.
Crash ==
  /\ Spend("crash")
  /\ pollAgain' = 1
  /\ EndRound
  /\ run' = [s \in Slots |-> Idle]
  /\ UNCHANGED <<rows, archive, published, followed, dropped>>
-----------------------------------------------------------------------------
Init ==
  /\ rows = << >>
  /\ archive = {}
  /\ pollAgain = 1
  /\ poller = [pc |-> "topics", todo |-> {}, batch |-> {}, found |-> FALSE]
  /\ run = [s \in Slots |-> Idle]
  /\ published = 0
  /\ followed = {}
  /\ dropped = {}
  /\ budget = Bounds

PollStep ==
  \/ TakeToken
  \/ \E t \in Topics : SkipTopic(t) \/ SelectDue(t)
  \/ \E m \in poller.batch : Claim(m) \/ ClaimGone(m)
  \/ FinishTopic

PollFails ==
  \/ \E t \in Topics : SelectFails(t)
  \/ ClaimFails

HandlerStep(s) ==
  \/ \E out \in Outcomes : Consume(s, out)
  \/ PublishFollowUp(s) \/ FollowUpRejected(s)
  \/ Retry(s) \/ Archive(s) \/ Delete(s) \/ Release(s)

HandlerFails(s) == FollowUpFails(s) \/ SettleFails(s) \/ DeleteFails(s)

Next ==
  \/ \E b \in Bodies : Publish(b)
  \/ Poll
  \/ PollStep
  \/ PollFails
  \/ \E s \in Slots : HandlerStep(s) \/ HandlerFails(s)
  \/ Tick
  \/ Crash

Spec == Init /\ [][Next]_vars

\* The ticker keeps polling, the polling goroutine and the handlers keep running
\* (every consumer returns), time keeps passing.  Publishing, faults and crashes
\* are never required.
Fairness ==
  /\ WF_vars(Poll)
  /\ WF_vars(PollStep)
  /\ WF_vars(Tick)
  /\ \A s \in Slots : WF_vars(HandlerStep(s))

FairSpec == Spec /\ Fairness
-----------------------------------------------------------------------------
(* Properties *)

Archived(u) == \E a \in archive : a.uid = u

\* The shape of every variable; the channel never holds more than its capacity.
TypeInvariant ==
  /\ DOMAIN rows \subseteq RowId
  /\ \A i \in DOMAIN rows : rows[i] \in Row
  /\ archive \subseteq [uid : Uid, body : Bodies, out : {"ok", "error"}]
  /\ pollAgain \in 0..ChanCap
  /\ poller \in Poller
  /\ run \in [Slots -> Handler \cup {Idle}]
  /\ published \in Nat
  /\ followed \subseteq Uid \X (Nat \ {0})
  /\ dropped \subseteq Uid \X (Nat \ {0})
  /\ budget \in [DOMAIN Bounds -> Nat]

\* Every message that Publish stored is still in the table or is in the archive,
\* whatever crashed or failed in between: DELETE and UPDATE by row id (consumeOnce)
\* hit the row the handler was started for, although SQLite reuses the ids.
NoMessageLost ==
  \A u \in 1..published : Archived(u) \/ \E i \in DOMAIN rows : rows[i].uid = u

\* started_at keeps a message from being picked a second time while its handler is
\* at work (pollOnce marks the row before it starts the goroutine).
OneHandler ==
  \A s, r \in Slots : Live(s) /\ Live(r) /\ run[s].uid = run[r].uid => s = r

\* What makes the two hold: the row a handler will rewrite or delete by id is the row
\* of its message, started and not yet expired, and no other handler's; a row in the
\* poller's snapshot is as it was selected.
HandlerOwnsRow ==
  /\ \A s \in Slots : Live(s) =>
       /\ run[s].id \in DOMAIN rows
       /\ rows[run[s].id].uid = run[s].uid
       /\ rows[run[s].id].body = run[s].body
       /\ rows[run[s].id].age <= StartExpire
  /\ \A s, r \in Slots : Live(s) /\ Live(r) /\ run[s].id = run[r].id => s = r
  /\ \A m \in poller.batch :
       /\ m.id \in DOMAIN rows
       /\ rows[m.id].uid = m.uid
       /\ rows[m.id].body = m.body
       /\ rows[m.id].age = Never

\* ORDER BY id is the order of publication among the messages in the table, with ids
\* that are given to new messages after the largest one was deleted.
IdsFollowPublication ==
  \A i, j \in DOMAIN rows : i < j => rows[i].uid < rows[j].uid

\* The goroutine that polls all topics never waits at a full semaphore: the LIMIT it
\* computed before the SELECT still holds at each send (only it adds goroutines).
PollerNeverBlocks ==
  \A m \in poller.batch : Cardinality(poller.batch) <= Cardinality(Free(TopicOf[m.body]))

\* The payload of a follow-up, and of all that follows on it, has the consumer's type
\* when it comes back from the table.
Reloadable(b) == \E S \in SUBSET Reloads :
                   /\ b \in S
                   /\ \A c \in S : \A k \in DOMAIN OnSuccess[c] : OnSuccess[c][k] \in S

\* A follow-up is validated when its message is accepted and once more when it is its
\* turn, as a follow-up of a follow-up long after it was accepted.  The second time it is
\* refused only because of a payload that the table did not keep: never for a topic, so
\* that what Publish accepts leaves nobody with a success whose follow-up cannot be sent.
RefusedForPayload ==
  [][\A s \in Slots :
       run[s].pc = "publish" /\ run'[s] # run[s] /\ dropped' # dropped /\ budget' = budget
         => ~Reloadable(OnSuccess[run[s].body][run[s].next])]_vars

\* A message is archived as a success only when each of its follow-ups was published,
\* or Publish returned an error that was logged; a crash between the two repeats, never skips.
FollowUpsPublished ==
  \A a \in archive : a.out = "ok" =>
    \A k \in DOMAIN OnSuccess[a.body] : <<a.uid, k>> \in followed \cup dropped

\* Without crashes and faults no message is given to a handler after it was archived.
ProcessedOnce ==
  [][budget["crash"] = MaxCrashes /\ budget["fault"] = MaxFaults =>
     \A s \in Slots : run[s] = Idle /\ run'[s] # Idle => ~Archived(run'[s].uid)]_vars

\* Every stored message is archived in the end: what misses its token, its free place
\* or its handler is found by a later round (ticker) after it expired.
EveryMessageSettles == \A u \in Uid : u <= published ~> Archived(u)

Done == {a.uid : a \in archive}
Taken == {run[s].uid : s \in {r \in Slots : run[r].pc \in {"consume", "publish", "settle"}}} \ Done
Waiting == {rows[i].uid : i \in DOMAIN rows} \ (Done \cup Taken)

\* The broker keeps the promise of WorkQueue.
Promise == INSTANCE WorkQueue WITH
  Msgs <- Uid, waiting <- Waiting, taken <- Taken, done <- Done

KeepsPromise == Promise!SafeSpec

=============================================================================

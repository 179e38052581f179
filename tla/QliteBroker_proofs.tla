------------------------- MODULE QliteBroker_proofs -------------------------
(***************************************************************************)
(* Theorems about QliteBroker for every number of topics, every            *)
(* concurrency, every tree of follow-ups and any number of publications,   *)
(* crashes, faults and retries.                                            *)
(***************************************************************************)
EXTENDS QliteBroker, FiniteSetTheorems, TLAPS

\* The consumer's loop over on_success stays within the sequence.
LoopInRange ==
  \A s \in Slots :
    /\ run[s].pc = "consume" => run[s].next = 1
    /\ run[s].pc = "publish" => run[s].next \in DOMAIN OnSuccess[run[s].body]

Typed == TypeInvariant /\ LoopInRange

USE DEF ChanCap

-----------------------------------------------------------------------------
(* Type correctness *)

LEMMA HandlerPc ==
  ASSUME TypeInvariant, NEW s \in Slots, run[s].pc # "idle"
  PROVE  run[s] \in Handler
BY DEF TypeInvariant, Idle

LEMMA AssignTyped ==
  ASSUME NEW f, NEW k, NEW v, NEW K, NEW V, DOMAIN f \subseteq K, k \in K,
         \A i \in DOMAIN f : f[i] \in V, v \in V
  PROVE  /\ DOMAIN Assign(f, k, v) \subseteq K
         /\ \A i \in DOMAIN Assign(f, k, v) : Assign(f, k, v)[i] \in V
BY DEF Assign

LEMMA RemoveTyped ==
  ASSUME NEW f, NEW k, NEW K, NEW V, DOMAIN f \subseteq K, \A i \in DOMAIN f : f[i] \in V
  PROVE  /\ DOMAIN Remove(f, k) \subseteq K
         /\ \A i \in DOMAIN Remove(f, k) : Remove(f, k)[i] \in V
BY DEF Remove

\* What an INSERT does to the typed parts of the state.
LEMMA EnqueueTyped ==
  ASSUME TypeInvariant, NEW b \in Bodies, Enqueue(b)
  PROVE  /\ DOMAIN rows' \subseteq RowId
         /\ \A i \in DOMAIN rows' : rows'[i] \in Row
         /\ pollAgain' \in 0..ChanCap
         /\ published' \in Nat
<1> USE BrokerAssumption
<1> DEFINE row == [uid |-> published + 1, body |-> b, age |-> Never, wait |-> 0]
<1>1. PICK n \in {1} \cup {i + 1 : i \in DOMAIN rows} : rows' = Assign(rows, n, row)
  BY DEF Enqueue
<1>2. n \in RowId
  BY DEF TypeInvariant, RowId
<1>3. row \in Row
  BY DEF Row, Never, Enqueue
<1>4. /\ DOMAIN rows' \subseteq RowId
      /\ \A i \in DOMAIN rows' : rows'[i] \in Row
  BY <1>1, <1>2, <1>3, AssignTyped DEF TypeInvariant
<1>5. pollAgain' \in 0..ChanCap /\ published' \in Nat
  BY DEF Enqueue, Kick, TypeInvariant
<1> QED BY <1>4, <1>5

LEMMA RowUpdated ==
  ASSUME NEW r \in Row, NEW a \in 0..Never
  PROVE  [r EXCEPT !.age = a] \in Row
BY DEF Row

LEMMA HandlerAdvanced ==
  ASSUME NEW h \in Handler, NEW n \in Nat, NEW pc \in {"settle", "publish"}
  PROVE  [h EXCEPT !.next = n, !.pc = pc] \in Handler
BY DEF Handler

LEMMA InitTyped == Init => Typed
<1> USE BrokerAssumption
<1> SUFFICES ASSUME Init PROVE Typed
  OBVIOUS
<1>1. TypeInvariant
  <2>1. Bounds \in [DOMAIN Bounds -> Nat]
    BY DEF Bounds
  <2> QED BY <2>1 DEF Init, TypeInvariant, Poller
<1>2. LoopInRange
  BY DEF Init, LoopInRange, Idle
<1> QED BY <1>1, <1>2 DEF Typed

LEMMA CountedDown ==
  ASSUME NEW D, NEW f \in [D -> Nat], NEW d \in D, f[d] - 1 \in Nat
  PROVE  [f EXCEPT ![d] = @ - 1] \in [D -> Nat]
OBVIOUS

LEMMA SpendTyped ==
  ASSUME TypeInvariant, NEW what \in {"publish", "crash", "fault", "retry"}, Spend(what)
  PROVE  budget' \in [DOMAIN Bounds -> Nat]
<1>1. what \in DOMAIN Bounds
  BY DEF Bounds
<1>2. budget \in [DOMAIN Bounds -> Nat]
  BY DEF TypeInvariant
<1>3. budget[what] - 1 \in Nat
  BY <1>1, <1>2 DEF Spend
<1>4. budget' = [budget EXCEPT ![what] = @ - 1]
  BY DEF Spend
<1> QED BY ONLY <1>1, <1>2, <1>3, <1>4, CountedDown

LEMMA PollTyped ==
  ASSUME Typed, PollStep \/ PollFails
  PROVE  Typed'
<1> USE BrokerAssumption DEF Typed
<1>1. CASE TakeToken
  <2>1. poller' \in Poller
    BY <1>1 DEF TakeToken, TypeInvariant, Poller
  <2>2. pollAgain' \in 0..ChanCap
    BY <1>1 DEF TakeToken, TypeInvariant
  <2> QED BY <1>1, <2>1, <2>2 DEF TakeToken, TypeInvariant, LoopInRange
<1>2. ASSUME NEW t \in Topics, SkipTopic(t) PROVE Typed'
  <2>1. poller' \in Poller
    BY <1>2 DEF SkipTopic, TypeInvariant, Poller
  <2> QED BY <1>2, <2>1 DEF SkipTopic, TypeInvariant, LoopInRange
<1>3. ASSUME NEW t \in Topics, SelectDue(t) PROVE Typed'
  <2>1. PICK B \in SUBSET Due(t) :
          poller' = [pc |-> "claim", todo |-> poller.todo \ {t}, found |-> FALSE,
                     batch |-> {[id |-> i, uid |-> rows[i].uid, body |-> rows[i].body] : i \in B}]
    BY <1>3 DEF SelectDue
  <2>2. \A i \in B : [id |-> i, uid |-> rows[i].uid, body |-> rows[i].body] \in Picked
    BY DEF Due, TypeInvariant, Row, Picked
  <2>3. poller' \in Poller
    BY <2>1, <2>2 DEF Poller, TypeInvariant
  <2> QED BY <1>3, <2>3 DEF SelectDue, TypeInvariant, LoopInRange
<1>4. ASSUME NEW m \in poller.batch, Claim(m) PROVE Typed'
  <2>1. m \in Picked
    BY DEF TypeInvariant, Poller
  <2>2. Started(m) \in Handler
    BY <2>1 DEF Started, Handler, Outcomes, Picked
  <2>3. PICK s \in Slots : run' = [run EXCEPT ![s] = Started(m)]
    BY <1>4 DEF Claim, FirstFree, Free
  <2>4. run' \in [Slots -> Handler \cup {Idle}]
    BY <2>2, <2>3 DEF TypeInvariant
  <2>5. LoopInRange'
    BY <2>3 DEF LoopInRange, Started, TypeInvariant
  <2>6. \A i \in DOMAIN rows' : rows'[i] \in Row
    <3> SUFFICES ASSUME NEW i \in DOMAIN rows' PROVE rows'[i] \in Row
      OBVIOUS
    <3>1. i \in DOMAIN rows /\ rows[i] \in Row
      BY <1>4 DEF Claim, TypeInvariant
    <3>2. CASE i = m.id
      <4>1. rows'[i] = [rows[i] EXCEPT !.age = 0]
        BY <1>4, <3>1, <3>2 DEF Claim
      <4>2. 0 \in 0..Never
        BY DEF Never
      <4> QED BY <3>1, <4>1, <4>2, RowUpdated
    <3>3. CASE i # m.id
      BY <1>4, <3>1, <3>3 DEF Claim
    <3> QED BY <3>2, <3>3
  <2>7. poller' \in Poller
    BY <1>4 DEF Claim, TypeInvariant, Poller
  <2>8. DOMAIN rows' \subseteq RowId
    BY <1>4 DEF Claim, TypeInvariant
  <2> QED BY <1>4, <2>4, <2>5, <2>6, <2>7, <2>8 DEF Claim, TypeInvariant
<1>5. ASSUME NEW m \in poller.batch, ClaimGone(m) PROVE Typed'
  <2>1. poller' \in Poller
    BY <1>5 DEF ClaimGone, TypeInvariant, Poller
  <2> QED BY <1>5, <2>1 DEF ClaimGone, TypeInvariant, LoopInRange
<1>6. CASE FinishTopic
  <2>1. poller' \in Poller
    BY <1>6 DEF FinishTopic, TypeInvariant, Poller
  <2>2. pollAgain' \in 0..ChanCap
    BY <1>6 DEF FinishTopic, TypeInvariant, Kick
  <2> QED BY <1>6, <2>1, <2>2 DEF FinishTopic, TypeInvariant, LoopInRange
<1>7. ASSUME NEW t \in Topics, SelectFails(t) PROVE Typed'
  <2>1. poller' \in Poller
    BY <1>7 DEF SelectFails, EndRound, TypeInvariant, Poller
  <2> QED BY <1>7, <2>1, SpendTyped DEF SelectFails, TypeInvariant, LoopInRange
<1>8. CASE ClaimFails
  <2>1. poller' \in Poller
    BY <1>8 DEF ClaimFails, EndRound, TypeInvariant, Poller
  <2> QED BY <1>8, <2>1, SpendTyped DEF ClaimFails, TypeInvariant, LoopInRange
<1> QED BY <1>1, <1>2, <1>3, <1>4, <1>5, <1>6, <1>7, <1>8 DEF PollStep, PollFails

LEMMA HandlerTyped ==
  ASSUME Typed, NEW s \in Slots, HandlerStep(s) \/ HandlerFails(s)
  PROVE  Typed'
<1> USE BrokerAssumption DEF Typed
<1>1. run[s] \in Handler
  BY HandlerPc DEF HandlerStep, HandlerFails, Consume, PublishFollowUp, Retry, Archive, Delete,
     Release, FollowUpRejected, FollowUpFails, SettleFails, DeleteFails
<1>2. ASSUME NEW out \in Outcomes, Consume(s, out) PROVE Typed'
  <2>1. OnSuccess[run[s].body] \in Seq(Bodies)
    BY <1>1 DEF Handler
  <2>2. run' \in [Slots -> Handler \cup {Idle}]
    BY <1>1, <1>2 DEF Consume, Handler, TypeInvariant
  <2>3. LoopInRange'
    BY <1>1, <1>2, <2>1 DEF Consume, LoopInRange, TypeInvariant, Handler
  <2> QED BY <1>2, <2>2, <2>3, SpendTyped DEF Consume, TypeInvariant
<1>3. ASSUME run[s].pc = "publish", NextFollowUp(s)
      PROVE  run' \in [Slots -> Handler \cup {Idle}] /\ LoopInRange'
  <2>1. OnSuccess[run[s].body] \in Seq(Bodies)
    BY <1>1 DEF Handler
  <2>2. run' \in [Slots -> Handler \cup {Idle}]
    <3> DEFINE pc == IF run[s].next = Len(OnSuccess[run[s].body]) THEN "settle" ELSE "publish"
               h == [run[s] EXCEPT !.next = @ + 1, !.pc = pc]
    <3>1. h \in Handler
      <4>1. pc \in {"settle", "publish"}
        OBVIOUS
      <4>2. run[s].next + 1 \in Nat
        BY <1>1 DEF Handler
      <4> HIDE DEF pc
      <4> QED BY <1>1, <4>1, <4>2, HandlerAdvanced
    <3>2. run' = [run EXCEPT ![s] = h]
      BY <1>3 DEF NextFollowUp
    <3> QED BY <3>1, <3>2 DEF TypeInvariant
  <2>3. run[s].next \in 1..Len(OnSuccess[run[s].body])
    BY <1>3, <2>1 DEF LoopInRange
  <2>4. LoopInRange'
    BY <1>1, <1>3, <2>1, <2>3 DEF NextFollowUp, LoopInRange, TypeInvariant, Handler
  <2> QED BY <2>2, <2>4
<1>4. run[s].pc = "publish" => /\ <<run[s].uid, run[s].next>> \in Uid \X (Nat \ {0})
                               /\ OnSuccess[run[s].body][run[s].next] \in Bodies
  BY <1>1 DEF LoopInRange, Handler
<1>5. CASE PublishFollowUp(s)
  BY <1>3, <1>4, <1>5, EnqueueTyped DEF PublishFollowUp, TypeInvariant
<1>6. CASE FollowUpRejected(s) \/ FollowUpFails(s)
  BY <1>3, <1>4, <1>6, SpendTyped DEF FollowUpRejected, FollowUpFails, TypeInvariant
<1>7. ASSUME NEW pc \in {"delete", "release"}, run' = [run EXCEPT ![s].pc = pc]
      PROVE  run' \in [Slots -> Handler \cup {Idle}] /\ LoopInRange'
  BY <1>1, <1>7 DEF Handler, TypeInvariant, LoopInRange
<1>8. CASE Retry(s)
  <2>1. \A i \in DOMAIN rows' : rows'[i] \in Row
    BY <1>1, <1>8 DEF Retry, TypeInvariant, Row, Never, Handler
  <2>2. DOMAIN rows' \subseteq RowId
    BY <1>8 DEF Retry, TypeInvariant
  <2> QED BY <1>7, <1>8, <2>1, <2>2 DEF Retry, TypeInvariant
<1>9. CASE Archive(s)
  <2>1. [uid |-> run[s].uid, body |-> run[s].body, out |-> run[s].out]
          \in [uid : Uid, body : Bodies, out : {"ok", "error"}]
    BY <1>1, <1>9 DEF Archive, Handler, Outcomes
  <2> QED BY <1>7, <1>9, <2>1 DEF Archive, TypeInvariant
<1>10. CASE Delete(s)
  <2>1. /\ DOMAIN rows' \subseteq RowId
        /\ \A i \in DOMAIN rows' : rows'[i] \in Row
    BY <1>10, RemoveTyped DEF Delete, TypeInvariant
  <2> QED BY <1>7, <1>10, <2>1 DEF Delete, TypeInvariant
<1>11. CASE Release(s)
  BY <1>11 DEF Release, TypeInvariant, LoopInRange, Idle
<1>12. CASE SettleFails(s) \/ DeleteFails(s)
  BY <1>7, <1>12, SpendTyped DEF SettleFails, DeleteFails, TypeInvariant
<1> QED BY <1>2, <1>5, <1>6, <1>8, <1>9, <1>10, <1>11, <1>12 DEF HandlerStep, HandlerFails

LEMMA NextTyped == Typed /\ [Next]_vars => Typed'
<1> USE BrokerAssumption DEF Typed
<1> SUFFICES ASSUME Typed, [Next]_vars PROVE Typed'
  OBVIOUS
<1>1. ASSUME NEW b \in Bodies, Publish(b) PROVE Typed'
  BY <1>1, EnqueueTyped, SpendTyped DEF Publish, TypeInvariant, LoopInRange
<1>2. CASE Poll
  BY <1>2 DEF Poll, Kick, TypeInvariant, LoopInRange
<1>3. CASE Tick
  <2>1. \A i \in DOMAIN rows' : rows'[i] \in Row
    <3> SUFFICES ASSUME NEW i \in DOMAIN rows' PROVE rows'[i] \in Row
      OBVIOUS
    <3> DEFINE age == IF rows[i].age < Never THEN rows[i].age + 1 ELSE rows[i].age
               wait == IF rows[i].wait > 0 THEN rows[i].wait - 1 ELSE rows[i].wait
    <3>1. rows[i] \in Row
      BY <1>3 DEF Tick, TypeInvariant
    <3>2. age \in 0..Never /\ wait \in 0..RetryDelay
      BY <3>1 DEF Row, Never
    <3>3. rows'[i] = [rows[i] EXCEPT !.age = age, !.wait = wait]
      BY <1>3 DEF Tick
    <3> HIDE DEF age, wait
    <3> QED BY <3>1, <3>2, <3>3 DEF Row
  <2>2. DOMAIN rows' = DOMAIN rows
    BY <1>3 DEF Tick
  <2> QED BY <1>3, <2>1, <2>2 DEF Tick, TypeInvariant, LoopInRange
<1>4. CASE Crash
  <2>1. run' \in [Slots -> Handler \cup {Idle}] /\ poller' \in Poller
    BY <1>4 DEF Crash, EndRound, TypeInvariant, Poller
  <2> QED BY <1>4, <2>1, SpendTyped DEF Crash, TypeInvariant, LoopInRange, Idle
<1>5. CASE UNCHANGED vars
  BY <1>5 DEF vars, TypeInvariant, LoopInRange
<1> QED BY <1>1, <1>2, <1>3, <1>4, <1>5, PollTyped, HandlerTyped DEF Next

\* The variables keep their types and the token channel never exceeds its capacity,
\* in every run of the broker.
THEOREM TypeCorrect == Spec => []TypeInvariant
<1>1. Typed => TypeInvariant
  BY DEF Typed
<1> QED BY <1>1, InitTyped, NextTyped, PTL DEF Spec

-----------------------------------------------------------------------------
(* Follow-ups: what a handler has behind it is published or dropped *)

Handled(u, k) == <<u, k>> \in followed \cup dropped

HandledSoFar(h) ==
  /\ h.pc = "publish" => \A k \in 1..(h.next - 1) : Handled(h.uid, k)
  /\ h.pc = "settle" /\ h.out = "ok" =>
       \A k \in DOMAIN OnSuccess[h.body] : Handled(h.uid, k)

LoopInv == \A s \in Slots : HandledSoFar(run[s])

FollowUpInv == Typed /\ LoopInv /\ FollowUpsPublished

\* followed and dropped only grow, so that a handler that does not move keeps its part.
LEMMA LoopKept ==
  ASSUME Typed, LoopInv, NEW s \in Slots, run'[s] = run[s] \/ run'[s] = Idle,
         followed \subseteq followed', dropped \subseteq dropped'
  PROVE  HandledSoFar(run[s])'
<1>1. CASE run'[s] = run[s]
  BY <1>1 DEF LoopInv, HandledSoFar, Handled
<1>2. CASE run'[s] = Idle
  BY <1>2 DEF HandledSoFar, Idle
<1> QED BY <1>1, <1>2

LEMMA FollowUpStep ==
  ASSUME FollowUpInv, [Next]_vars
  PROVE  LoopInv' /\ FollowUpsPublished'
<1> USE BrokerAssumption DEF FollowUpInv
<1>0. Typed'
  BY NextTyped
<1>1. ASSUME archive' = archive, followed \subseteq followed', dropped \subseteq dropped'
      PROVE  FollowUpsPublished'
  BY <1>1 DEF FollowUpsPublished
<1>2. ASSUME archive' = archive, followed' = followed, dropped' = dropped,
             \A s \in Slots : run'[s] = run[s] \/ run'[s] = Idle
      PROVE  LoopInv' /\ FollowUpsPublished'
  BY <1>1, <1>2, LoopKept DEF LoopInv
<1>3. ASSUME NEW b \in Bodies, Publish(b) PROVE LoopInv' /\ FollowUpsPublished'
  BY <1>2, <1>3 DEF Publish
<1>4. CASE Poll \/ Tick \/ Crash \/ PollFails \/ UNCHANGED vars
  BY <1>2, <1>4 DEF Poll, Tick, Crash, PollFails, SelectFails, ClaimFails, vars
<1>5. CASE PollStep
  <2>1. ASSUME NEW m \in poller.batch, Claim(m) PROVE LoopInv' /\ FollowUpsPublished'
    <3>1. PICK s \in Slots : run' = [run EXCEPT ![s] = Started(m)]
      BY <2>1 DEF Claim, FirstFree, Free
    <3>2. ASSUME NEW r \in Slots, r # s PROVE run'[r] = run[r]
      BY <3>1, <3>2 DEF Typed, TypeInvariant
    <3>3. run'[s].pc = "consume"
      BY <3>1 DEF Started, Typed, TypeInvariant
    <3> QED BY <1>1, <2>1, <3>2, <3>3, LoopKept DEF Claim, LoopInv, HandledSoFar
  <2>2. CASE TakeToken \/ FinishTopic
    BY <1>2, <2>2 DEF TakeToken, FinishTopic
  <2>3. ASSUME NEW t \in Topics, SkipTopic(t) \/ SelectDue(t)
        PROVE LoopInv' /\ FollowUpsPublished'
    BY <1>2, <2>3 DEF SkipTopic, SelectDue
  <2>4. ASSUME NEW m \in poller.batch, ClaimGone(m) PROVE LoopInv' /\ FollowUpsPublished'
    BY <1>2, <2>4 DEF ClaimGone
  <2> QED BY <1>5, <2>1, <2>2, <2>3, <2>4 DEF PollStep
<1>6. ASSUME NEW s \in Slots, HandlerStep(s) \/ HandlerFails(s)
      PROVE  LoopInv' /\ FollowUpsPublished'
  <2>1. run[s] \in Handler
    BY <1>6, HandlerPc DEF Typed, HandlerStep, HandlerFails, Consume, PublishFollowUp, Retry, Archive,
       Delete, Release, FollowUpRejected, FollowUpFails, SettleFails, DeleteFails
  <2>2. /\ followed \subseteq followed' /\ dropped \subseteq dropped'
        /\ \A r \in Slots \ {s} : run'[r] = run[r]
    BY <1>6 DEF Typed, TypeInvariant, HandlerStep, HandlerFails, Consume, PublishFollowUp, Retry,
       Archive, Delete, Release, FollowUpRejected, FollowUpFails, SettleFails, DeleteFails, NextFollowUp
  <2>3. ASSUME HandledSoFar(run[s])' PROVE LoopInv'
    BY <2>2, <2>3, LoopKept DEF LoopInv
  <2>4. ASSUME NEW out \in Outcomes, Consume(s, out) PROVE LoopInv' /\ FollowUpsPublished'
    <3>1. /\ run'[s].pc = "publish" => run'[s].next = 1
          /\ run'[s].pc = "settle" /\ run'[s].out = "ok" => OnSuccess[run'[s].body] = << >>
      BY <2>1, <2>4 DEF Consume, Typed, TypeInvariant, LoopInRange, Handler
    <3>2. HandledSoFar(run[s])'
      BY <3>1 DEF HandledSoFar
    <3> QED BY <1>1, <2>3, <2>4, <3>2 DEF Consume
  <2>5. CASE PublishFollowUp(s) \/ FollowUpRejected(s) \/ FollowUpFails(s)
    <3>1. <<run[s].uid, run[s].next>> \in followed' \cup dropped'
      BY <2>5 DEF PublishFollowUp, FollowUpRejected, FollowUpFails, Handled
    <3>2. \A k \in 1..(run[s].next - 1) : <<run[s].uid, k>> \in followed' \cup dropped'
      BY <2>2, <2>5 DEF LoopInv, HandledSoFar, Handled, PublishFollowUp, FollowUpRejected, FollowUpFails
    <3>3. /\ run'[s].uid = run[s].uid /\ run'[s].body = run[s].body
          /\ run'[s].next = run[s].next + 1
          /\ run'[s].pc = "settle" => run[s].next = Len(OnSuccess[run[s].body])
      BY <2>1, <2>5 DEF PublishFollowUp, FollowUpRejected, FollowUpFails, NextFollowUp, Typed, TypeInvariant, Handler
    <3>4. OnSuccess[run[s].body] \in Seq(Bodies) /\ run[s].next \in Nat
      BY <2>1 DEF Handler
    <3>5. \A k \in 1..run[s].next : <<run[s].uid, k>> \in followed' \cup dropped'
      <4> TAKE k \in 1..run[s].next
      <4>1. k = run[s].next \/ k \in 1..(run[s].next - 1)
        BY <3>4
      <4> QED BY <3>1, <3>2, <4>1
    <3>6. HandledSoFar(run[s])'
      <4>1. run'[s].next - 1 = run[s].next
        BY <3>3, <3>4
      <4>2. DOMAIN OnSuccess[run[s].body] = 1..Len(OnSuccess[run[s].body])
        BY <3>4
      <4> QED BY <3>3, <3>5, <4>1, <4>2 DEF HandledSoFar, Handled
    <3> QED BY <1>1, <2>2, <2>3, <2>5, <3>6 DEF PublishFollowUp, FollowUpRejected, FollowUpFails
  <2>6. CASE Archive(s)
    <3>1. HandledSoFar(run[s])'
      BY <2>6 DEF HandledSoFar, Archive, Typed, TypeInvariant
    <3>2. FollowUpsPublished'
      BY <2>6 DEF Archive, FollowUpsPublished, LoopInv, HandledSoFar, Handled
    <3> QED BY <2>3, <3>1, <3>2
  <2>7. CASE Retry(s) \/ Delete(s) \/ Release(s) \/ SettleFails(s) \/ DeleteFails(s)
    <3>1. run'[s].pc \in {"release", "idle"}
      <4>1. run' = [run EXCEPT ![s].pc = "release"] \/ run' = [run EXCEPT ![s] = Idle]
        BY <2>7 DEF Retry, Delete, Release, SettleFails, DeleteFails
      <4>2. run \in [Slots -> Handler \cup {Idle}]
        BY DEF Typed, TypeInvariant
      <4> QED BY <2>1, <4>1, <4>2 DEF Idle, Handler
    <3>2. HandledSoFar(run[s])'
      BY <3>1 DEF HandledSoFar
    <3> QED BY <1>1, <2>2, <2>3, <2>7, <3>2 DEF Retry, Delete, Release, SettleFails, DeleteFails
  <2> QED BY <1>6, <2>4, <2>5, <2>6, <2>7 DEF HandlerStep, HandlerFails
<1> QED BY <1>3, <1>4, <1>5, <1>6 DEF Next

\* A message archived as a success has had each follow-up published, or its INSERT
\* failed: whatever crashes, expires or is run twice.
THEOREM FollowUps == Spec => []FollowUpsPublished
<1>1. Init => FollowUpInv
  BY InitTyped DEF FollowUpInv, Init, LoopInv, HandledSoFar, FollowUpsPublished, Idle
<1>2. FollowUpInv /\ [Next]_vars => FollowUpInv'
  BY FollowUpStep, NextTyped DEF FollowUpInv
<1>3. FollowUpInv => FollowUpsPublished
  BY DEF FollowUpInv
<1> QED BY <1>1, <1>2, <1>3, PTL DEF Spec

-----------------------------------------------------------------------------
(* Topics: what is stored, selected or handled is valid with all it leads to *)

ValidInv ==
  /\ \A i \in DOMAIN rows : Valid(rows[i].body)
  /\ \A m \in poller.batch : Valid(m.body)
  /\ \A s \in Slots : run[s] # Idle => Valid(run[s].body)

LEMMA FollowUpValid ==
  ASSUME NEW b \in Bodies, Valid(b), NEW k \in DOMAIN OnSuccess[b]
  PROVE  Valid(OnSuccess[b][k])
BY DEF Valid, ValidBodies, Consumed

LEMMA EnqueueValid ==
  ASSUME ValidInv, NEW b \in Bodies, Valid(b), Enqueue(b)
  PROVE  \A i \in DOMAIN rows' : Valid(rows'[i].body)
<1>1. PICK n \in {1} \cup {i + 1 : i \in DOMAIN rows} :
        rows' = Assign(rows, n, [uid |-> published + 1, body |-> b, age |-> Never, wait |-> 0])
  BY DEF Enqueue
<1> QED BY <1>1 DEF Assign, ValidInv

\* Time touches only the clocks of the rows.
LEMMA TickRows ==
  ASSUME TypeInvariant, Tick
  PROVE  /\ DOMAIN rows' = DOMAIN rows
         /\ \A i \in DOMAIN rows :
              /\ rows'[i].uid = rows[i].uid
              /\ rows'[i].body = rows[i].body
              /\ rows'[i].age = IF rows[i].age < Never THEN rows[i].age + 1 ELSE rows[i].age
<1>1. DOMAIN rows' = DOMAIN rows
  BY DEF Tick
<1> SUFFICES ASSUME NEW i \in DOMAIN rows
             PROVE  /\ rows'[i].uid = rows[i].uid
                    /\ rows'[i].body = rows[i].body
                    /\ rows'[i].age = IF rows[i].age < Never THEN rows[i].age + 1 ELSE rows[i].age
  BY <1>1
<1> DEFINE age == IF rows[i].age < Never THEN rows[i].age + 1 ELSE rows[i].age
           wait == IF rows[i].wait > 0 THEN rows[i].wait - 1 ELSE rows[i].wait
<1>2. rows'[i] = [rows[i] EXCEPT !.age = age, !.wait = wait]
  BY DEF Tick
<1>3. rows[i] \in Row
  BY DEF TypeInvariant
<1> HIDE DEF age, wait
<1>4. rows'[i].uid = rows[i].uid /\ rows'[i].body = rows[i].body /\ rows'[i].age = age
  BY <1>2, <1>3 DEF Row
<1> QED BY <1>4 DEF age

LEMMA ValidStep ==
  ASSUME Typed, ValidInv, [Next]_vars
  PROVE  ValidInv'
<1> USE BrokerAssumption
<1>1. ASSUME NEW b \in Bodies, Publish(b) PROVE ValidInv'
  BY <1>1, EnqueueValid DEF Publish, ValidInv
<1>2. CASE Poll \/ UNCHANGED vars
  BY <1>2 DEF Poll, vars, ValidInv
<1>3. CASE Tick
  BY <1>3, TickRows DEF Tick, ValidInv, Typed
<1>4. CASE Crash
  <2>1. poller'.batch = {}
    BY <1>4 DEF Crash, EndRound, Typed, TypeInvariant, Poller
  <2> QED BY <1>4, <2>1 DEF Crash, ValidInv
<1>5. CASE PollFails
  BY <1>5 DEF PollFails, SelectFails, ClaimFails, EndRound, ValidInv, Typed, TypeInvariant, Poller
<1>6. CASE TakeToken \/ FinishTopic
  <2>1. poller'.batch = poller.batch
    BY <1>6 DEF TakeToken, FinishTopic, Typed, TypeInvariant, Poller
  <2> QED BY <1>6, <2>1 DEF TakeToken, FinishTopic, ValidInv
<1>7. ASSUME NEW t \in Topics, SkipTopic(t) PROVE ValidInv'
  BY <1>7 DEF SkipTopic, ValidInv, Typed, TypeInvariant, Poller
<1>8. ASSUME NEW t \in Topics, SelectDue(t) PROVE ValidInv'
  <2>1. PICK B \in SUBSET Due(t) :
          poller'.batch = {[id |-> i, uid |-> rows[i].uid, body |-> rows[i].body] : i \in B}
    <3>1. PICK B \in SUBSET Due(t) :
            poller' = [pc |-> "claim", todo |-> poller.todo \ {t}, found |-> FALSE,
                       batch |-> {[id |-> i, uid |-> rows[i].uid, body |-> rows[i].body] : i \in B}]
      BY <1>8 DEF SelectDue
    <3> QED BY <3>1
  <2>2. \A n \in poller'.batch : Valid(n.body)
    <3> TAKE n \in poller'.batch
    <3>1. PICK i \in B : n = [id |-> i, uid |-> rows[i].uid, body |-> rows[i].body]
      BY <2>1
    <3> QED BY <3>1 DEF Due, ValidInv
  <2> QED BY <1>8, <2>2 DEF SelectDue, ValidInv
<1>9. ASSUME NEW m \in poller.batch, Claim(m) PROVE ValidInv'
  <2>1. PICK s \in Slots : run' = [run EXCEPT ![s] = Started(m)]
    BY <1>9 DEF Claim, FirstFree, Free
  <2>2. run \in [Slots -> Handler \cup {Idle}] /\ poller \in Poller
    BY DEF Typed, TypeInvariant
  <2>3. \A r \in Slots : run'[r] # Idle => Valid(run'[r].body)
    BY <2>1, <2>2 DEF Started, ValidInv
  <2>4. \A n \in poller'.batch : Valid(n.body)
    BY <1>9, <2>2 DEF Claim, ValidInv, Poller
  <2>5. \A i \in DOMAIN rows' : Valid(rows'[i].body)
    <3>1. \A i \in DOMAIN rows' : i \in DOMAIN rows /\ rows'[i].body = rows[i].body
      BY <1>9 DEF Claim, Typed, TypeInvariant, Row
    <3> QED BY <3>1 DEF ValidInv
  <2> QED BY <2>3, <2>4, <2>5 DEF ValidInv
<1>10. ASSUME NEW m \in poller.batch, ClaimGone(m) PROVE ValidInv'
  BY <1>10 DEF ClaimGone, ValidInv, Typed, TypeInvariant, Poller
<1>11. ASSUME NEW s \in Slots, HandlerStep(s) \/ HandlerFails(s) PROVE ValidInv'
  <2>1. run[s] \in Handler
    BY <1>11, HandlerPc DEF Typed, HandlerStep, HandlerFails, Consume, PublishFollowUp, Retry, Archive,
       Delete, Release, FollowUpRejected, FollowUpFails, SettleFails, DeleteFails
  <2>2. run \in [Slots -> Handler \cup {Idle}]
    BY DEF Typed, TypeInvariant
  <2>3. Valid(run[s].body)
    BY <2>1 DEF ValidInv, Handler, Idle
  <2>4. \A r \in Slots : run'[r] # Idle => Valid(run'[r].body)
    <3>1. \A r \in Slots \ {s} : run'[r] = run[r]
      BY <1>11, <2>2 DEF HandlerStep, HandlerFails, Consume, PublishFollowUp, Retry,
         Archive, Delete, Release, FollowUpRejected, FollowUpFails, SettleFails, DeleteFails, NextFollowUp
    <3>2. run'[s] = Idle \/ run'[s].body = run[s].body
      <4>1. CASE Release(s)
        BY <2>2, <4>1 DEF Release
      <4>2. CASE PublishFollowUp(s) \/ FollowUpRejected(s) \/ FollowUpFails(s)
        BY <2>1, <2>2, <4>2 DEF PublishFollowUp, FollowUpRejected, FollowUpFails, NextFollowUp, Handler
      <4>3. CASE \E out \in Outcomes : Consume(s, out)
        BY <2>1, <2>2, <4>3 DEF Consume, Handler
      <4>4. CASE Retry(s) \/ Archive(s) \/ Delete(s) \/ SettleFails(s) \/ DeleteFails(s)
        BY <2>1, <2>2, <4>4 DEF Retry, Archive, Delete, SettleFails, DeleteFails, Handler
      <4> QED BY <1>11, <4>1, <4>2, <4>3, <4>4 DEF HandlerStep, HandlerFails
    <3> QED BY <2>3, <3>1, <3>2 DEF ValidInv
  <2>5. poller' = poller
    BY <1>11 DEF HandlerStep, HandlerFails, Consume, PublishFollowUp, Retry, Archive,
       Delete, Release, FollowUpRejected, FollowUpFails, SettleFails, DeleteFails
  <2>6. \A i \in DOMAIN rows' : Valid(rows'[i].body)
    <3>1. CASE PublishFollowUp(s)
      <4>1. OnSuccess[run[s].body] \in Seq(Bodies)
        BY <2>1 DEF Handler
      <4>2. run[s].next \in DOMAIN OnSuccess[run[s].body]
        BY <3>1 DEF PublishFollowUp, Typed, LoopInRange
      <4>3. OnSuccess[run[s].body][run[s].next] \in Bodies
        BY <4>1, <4>2
      <4>4. run[s].body \in Bodies
        BY <2>1 DEF Handler
      <4> QED BY <2>3, <3>1, <4>2, <4>3, <4>4, FollowUpValid, EnqueueValid DEF PublishFollowUp
    <3>2. CASE Retry(s)
      BY <2>3, <3>2 DEF Retry, ValidInv
    <3>3. CASE Delete(s)
      BY <3>3 DEF Delete, Remove, ValidInv
    <3>4. CASE rows' = rows
      BY <3>4 DEF ValidInv
    <3> QED BY <1>11, <3>1, <3>2, <3>3, <3>4 DEF HandlerStep, HandlerFails, Consume, Archive,
         Release, FollowUpRejected, FollowUpFails, SettleFails, DeleteFails
  <2> QED BY <2>4, <2>5, <2>6 DEF ValidInv
<1> QED BY <1>1, <1>2, <1>3, <1>4, <1>5, <1>6, <1>7, <1>8, <1>9, <1>10, <1>11
         DEF Next, PollStep

LEMMA ValidAlways == Spec => [](Typed /\ ValidInv)
<1>1. Init => Typed /\ ValidInv
  BY InitTyped DEF Init, ValidInv
<1>2. Typed /\ ValidInv /\ [Next]_vars => (Typed /\ ValidInv)'
  BY NextTyped, ValidStep
<1> QED BY <1>1, <1>2, PTL DEF Spec

\* What was valid when its message was accepted fails the second validation only for a
\* payload: the bodies that are both valid and reloadable, with all that follows on them,
\* are closed under follow-ups.
LEMMA AcceptedAgain ==
  ASSUME NEW b, Valid(b), Reloadable(b)
  PROVE  ValidReloaded(b)
<1>1. PICK S \in SUBSET Bodies :
        /\ b \in S
        /\ \A c \in S : /\ TopicOf[c] \in Topics
                        /\ \A k \in DOMAIN OnSuccess[c] : OnSuccess[c][k] \in S
  BY DEF Valid, ValidBodies, Consumed
<1>2. PICK R \in SUBSET Reloads :
        /\ b \in R
        /\ \A c \in R : \A k \in DOMAIN OnSuccess[c] : OnSuccess[c][k] \in R
  BY DEF Reloadable
<1>3. S \cap R \in SUBSET Reloads
  BY <1>2
<1>4. /\ b \in S \cap R
      /\ \A c \in S \cap R : /\ TopicOf[c] \in Topics
                             /\ \A k \in DOMAIN OnSuccess[c] : OnSuccess[c][k] \in S \cap R
  BY <1>1, <1>2
<1> QED BY <1>3, <1>4 DEF ValidReloaded, ReloadedBodies, Consumed

\* A step that spends something from the bounds changes them.
LEMMA SpendChanges ==
  ASSUME TypeInvariant, NEW what \in {"publish", "crash", "fault", "retry"}, Spend(what)
  PROVE  budget' # budget
<1>1. what \in DOMAIN Bounds
  BY DEF Bounds
<1>2. budget \in [DOMAIN Bounds -> Nat]
  BY DEF TypeInvariant
<1>3. budget'[what] = budget[what] - 1
  BY <1>1, <1>2 DEF Spend
<1>4. budget[what] \in Nat
  BY <1>1, <1>2
<1> QED BY <1>3, <1>4

\* Only the handler whose turn it is, and only by being refused, adds to dropped without
\* a failing statement.
LEMMA OnlyRejected ==
  ASSUME Typed, [Next]_vars, NEW s \in Slots, run'[s] # run[s],
         dropped' # dropped, budget' = budget
  PROVE  FollowUpRejected(s)
<1> USE DEF Typed
<1>1. PICK r \in Slots : HandlerStep(r) \/ HandlerFails(r)
  BY DEF Next, Publish, Poll, PollStep, PollFails, TakeToken, SkipTopic, SelectDue, Claim, ClaimGone,
     FinishTopic, SelectFails, ClaimFails, Tick, Crash, vars
<1>2. FollowUpRejected(r)
  BY <1>1, SpendChanges DEF HandlerStep, HandlerFails, Consume, PublishFollowUp, Retry, Archive,
     Delete, Release, FollowUpFails, SettleFails, DeleteFails
<1>3. r = s
  BY <1>2 DEF FollowUpRejected, NextFollowUp, TypeInvariant
<1> QED BY <1>2, <1>3

\* Publish accepts no message one of whose follow-ups, at any depth, it will refuse for
\* its topic: whatever crashes, fails or is run twice, a follow-up is refused only for a
\* payload that the table did not keep.
THEOREM AcceptedForGood == Spec => RefusedForPayload
<1> DEFINE Kept == \A s \in Slots :
             run[s].pc = "publish" /\ run'[s] # run[s] /\ dropped' # dropped /\ budget' = budget
               => ~Reloadable(OnSuccess[run[s].body][run[s].next])
<1>1. Typed /\ ValidInv /\ [Next]_vars => [Kept]_vars
  <2> SUFFICES ASSUME Typed, ValidInv, [Next]_vars, NEW s \in Slots,
                      run'[s] # run[s], dropped' # dropped, budget' = budget
               PROVE  ~Reloadable(OnSuccess[run[s].body][run[s].next])
    OBVIOUS
  <2>1. FollowUpRejected(s)
    BY OnlyRejected
  <2>2. run[s] \in Handler /\ run[s].next \in DOMAIN OnSuccess[run[s].body]
    BY <2>1, HandlerPc DEF FollowUpRejected, Typed, LoopInRange
  <2>3. run[s].body \in Bodies /\ Valid(run[s].body)
    BY <2>1, <2>2 DEF FollowUpRejected, ValidInv, Handler, Idle
  <2>4. Valid(OnSuccess[run[s].body][run[s].next])
    BY <2>2, <2>3, FollowUpValid
  <2> QED BY <2>1, <2>4, AcceptedAgain DEF FollowUpRejected
<1> QED BY <1>1, ValidAlways, PTL DEF Spec, RefusedForPayload

-----------------------------------------------------------------------------
(* Room for a batch *)

\* A batch is of one topic, and the semaphore of that topic has room for all of it.
Room ==
  /\ IsFiniteSet(DOMAIN rows)
  /\ IsFiniteSet(poller.batch)
  /\ \A m, n \in poller.batch : TopicOf[m.body] = TopicOf[n.body]
  /\ PollerNeverBlocks

LEMMA FreeFinite ==
  ASSUME NEW t
  PROVE  IsFiniteSet(Free(t)) /\ IsFiniteSet(Free(t)')
<1>1. CASE t \in Topics
  <2>1. IsFiniteSet({t}) /\ IsFiniteSet(1..Concurrency[t])
    <3>1. Concurrency[t] \in Int
      BY <1>1, BrokerAssumption
    <3>2. IsFiniteSet(1..Concurrency[t])
      BY <3>1, FS_Interval
    <3> QED BY <3>2, FS_Singleton
  <2>2. IsFiniteSet({t} \X (1..Concurrency[t]))
    BY <2>1, FS_Product
  <2>3. Free(t) \subseteq {t} \X (1..Concurrency[t])
    BY DEF Free, Slots
  <2>4. Free(t)' \subseteq {t} \X (1..Concurrency[t])
    BY DEF Free, Slots
  <2> QED BY <2>2, <2>3, <2>4, FS_Subset
<1>2. CASE t \notin Topics
  <2>1. Free(t) = {} /\ Free(t)' = {}
    BY <1>2 DEF Free, Slots
  <2> QED BY <2>1, FS_EmptySet
<1> QED BY <1>1, <1>2

\* Goroutines that end make room, and a batch that shrinks needs less.
LEMMA RoomStays ==
  ASSUME Room, \A t : Free(t) \subseteq Free(t)',
         poller'.batch \subseteq poller.batch, IsFiniteSet(DOMAIN rows')
  PROVE  Room'
<1>1. IsFiniteSet(poller'.batch) /\ Cardinality(poller'.batch) <= Cardinality(poller.batch)
  BY FS_Subset DEF Room
<1>2. ASSUME NEW m \in poller'.batch
      PROVE  Cardinality(poller'.batch) <= Cardinality(Free(TopicOf[m.body])')
  <2> DEFINE t == TopicOf[m.body]
  <2>1. Cardinality(poller.batch) <= Cardinality(Free(t))
    BY DEF Room, PollerNeverBlocks
  <2>2. IsFiniteSet(Free(t)) /\ IsFiniteSet(Free(t)') 
    BY FreeFinite
  <2>3. Cardinality(Free(t)) <= Cardinality(Free(t)')
    BY <2>2, FS_Subset
  <2>4. /\ Cardinality(poller'.batch) \in Nat /\ Cardinality(poller.batch) \in Nat
        /\ Cardinality(Free(t)) \in Nat /\ Cardinality(Free(t)') \in Nat
    BY <1>1, <2>2, FS_CardinalityType DEF Room
  <2>5. QED  BY <1>1, <2>1, <2>3, <2>4
<1>3. PollerNeverBlocks'
  BY <1>2 DEF PollerNeverBlocks
<1>4. QED  BY <1>1, <1>3 DEF Room

LEMMA SelectFits ==
  ASSUME Typed, Room, NEW t \in Topics, SelectDue(t)
  PROVE  Room'
<1> USE BrokerAssumption
<1>1. PICK B \in SUBSET Due(t) :
        /\ Cardinality(B) <= Cardinality(Free(t))
        /\ poller'.batch = {[id |-> i, uid |-> rows[i].uid, body |-> rows[i].body] : i \in B}
  <2>1. PICK B \in SUBSET Due(t) :
          /\ LimitOf(B, Due(t), Cardinality(Free(t)))
          /\ poller' = [pc |-> "claim", todo |-> poller.todo \ {t}, found |-> FALSE,
                        batch |-> {[id |-> i, uid |-> rows[i].uid, body |-> rows[i].body] : i \in B}]
    BY DEF SelectDue
  <2> QED BY <2>1 DEF LimitOf
<1>2. IsFiniteSet(B)
  BY FS_Subset DEF Room, Due
<1>3. IsFiniteSet(poller'.batch) /\ Cardinality(poller'.batch) <= Cardinality(B)
  <2> DEFINE copy == [i \in B |-> [id |-> i, uid |-> rows[i].uid, body |-> rows[i].body]]
  <2>1. copy \in Surjection(B, poller'.batch)
    BY <1>1 DEF Surjection
  <2> HIDE DEF copy
  <2> QED BY <1>2, <2>1, FS_Surjection
<1>4. \A m \in poller'.batch : TopicOf[m.body] = t
  BY <1>1 DEF Due
<1>5. run' = run /\ rows' = rows
  BY DEF SelectDue
<1>6. \A m \in poller'.batch : Free(TopicOf[m.body])' = Free(t)
  BY <1>4, <1>5 DEF Free
<1>7. /\ Cardinality(poller'.batch) \in Nat /\ Cardinality(B) \in Nat
      /\ Cardinality(Free(t)) \in Nat
  BY <1>2, <1>3, FreeFinite, FS_CardinalityType
<1>8. PollerNeverBlocks'
  BY <1>1, <1>3, <1>6, <1>7 DEF PollerNeverBlocks
<1> QED BY <1>3, <1>4, <1>5, <1>8 DEF Room

\* The poller takes a place and has one row less to find a place for.
LEMMA ClaimFits ==
  ASSUME Typed, Room, NEW m \in poller.batch, Claim(m)
  PROVE  Room'
<1> DEFINE t == TopicOf[m.body]
<1>1. PICK s \in Free(t) : run' = [run EXCEPT ![s] = Started(m)]
  BY DEF Claim, FirstFree
<1>2. run \in [Slots -> Handler \cup {Idle}] /\ poller \in Poller
  BY DEF Typed, TypeInvariant
<1>3. poller'.batch = poller.batch \ {m} /\ DOMAIN rows' = DOMAIN rows
  BY <1>2 DEF Claim, Poller
<1>4. s \in Slots /\ Started(m) # Idle
  <2>1. Started(m).pc = "consume" /\ Idle.pc = "idle"
    BY DEF Started, Idle
  <2> QED BY <2>1 DEF Free
<1>5. run'[s] # Idle /\ \A r \in Slots \ {s} : run'[r] = run[r]
  BY <1>1, <1>2, <1>4
<1>6. \A u : u = t => Free(u)' = Free(t) \ {s}
  BY <1>1, <1>5 DEF Free
<1>7. \A n \in poller'.batch : TopicOf[n.body] = t
  BY <1>3 DEF Room
<1>8. /\ IsFiniteSet(poller'.batch)
      /\ Cardinality(poller'.batch) = Cardinality(poller.batch) - 1
  BY <1>3, FS_RemoveElement DEF Room
<1>9. Cardinality(Free(t) \ {s}) = Cardinality(Free(t)) - 1
  BY FreeFinite, FS_RemoveElement
<1>10. Cardinality(poller.batch) <= Cardinality(Free(t))
  BY DEF Room, PollerNeverBlocks
<1>11. Cardinality(poller.batch) \in Nat /\ Cardinality(Free(t)) \in Nat
  BY FreeFinite, FS_CardinalityType DEF Room
<1>12. \A n \in poller'.batch : Free(TopicOf[n.body])' = Free(t) \ {s}
  BY <1>6, <1>7
<1>13. PollerNeverBlocks'
  <2>1. Cardinality(poller'.batch) <= Cardinality(Free(t) \ {s})
    BY ONLY <1>8, <1>9, <1>10, <1>11
  <2> HIDE DEF t
  <2>2. SUFFICES ASSUME NEW n \in poller'.batch
                 PROVE  Cardinality(poller'.batch) <= Cardinality(Free(TopicOf[n.body])')
    BY DEF PollerNeverBlocks
  <2>3. Free(TopicOf[n.body])' = Free(t) \ {s}
    BY <1>12
  <2> QED BY <2>1, <2>3
<1> QED BY <1>3, <1>7, <1>8, <1>13 DEF Room

LEMMA EnqueueFinite ==
  ASSUME IsFiniteSet(DOMAIN rows), NEW b, Enqueue(b)
  PROVE  IsFiniteSet(DOMAIN rows')
<1>1. PICK n : DOMAIN rows' = DOMAIN rows \cup {n}
  BY DEF Enqueue, Assign
<1> QED BY <1>1, FS_AddElement

\* A handler moves or ends, and takes no place.
LEMMA HandlerMakesRoom ==
  ASSUME Typed, NEW s \in Slots, HandlerStep(s) \/ HandlerFails(s)
  PROVE  \A t : Free(t) \subseteq Free(t)'
<1>1. run \in [Slots -> Handler \cup {Idle}]
  BY DEF Typed, TypeInvariant
<1>2. run[s].pc # "idle"
  BY DEF HandlerStep, HandlerFails, Consume, PublishFollowUp, Retry, Archive, Delete, Release,
     FollowUpRejected, FollowUpFails, SettleFails, DeleteFails
<1>3. run[s] # Idle
  BY <1>2 DEF Idle
<1>4. \A r \in Slots \ {s} : run'[r] = run[r]
  BY <1>1 DEF HandlerStep, HandlerFails, Consume, PublishFollowUp, Retry, Archive, Delete, Release,
     FollowUpRejected, FollowUpFails, SettleFails, DeleteFails, NextFollowUp
<1> QED BY <1>3, <1>4 DEF Free

LEMMA RoomStep ==
  ASSUME Typed, Room, [Next]_vars
  PROVE  Room'
<1>0. poller \in Poller /\ IsFiniteSet(DOMAIN rows)
  BY DEF Typed, TypeInvariant, Room
<1>1. ASSUME run' = run, poller'.batch \subseteq poller.batch, IsFiniteSet(DOMAIN rows')
      PROVE  Room'
  <2>1. \A t : Free(t) \subseteq Free(t)'
    BY <1>1 DEF Free
  <2> QED BY <1>1, <2>1, RoomStays
<1>2. ASSUME NEW b \in Bodies, Publish(b) PROVE Room'
  BY <1>0, <1>1, <1>2, EnqueueFinite DEF Publish
<1>3. CASE Poll \/ UNCHANGED vars
  BY <1>0, <1>1, <1>3 DEF Poll, vars
<1>4. CASE Tick
  <2>1. DOMAIN rows' = DOMAIN rows
    BY <1>4 DEF Tick
  <2> QED BY <1>0, <1>1, <1>4, <2>1 DEF Tick
<1>5. CASE PollFails
  <2>1. poller'.batch \subseteq poller.batch
    BY <1>0, <1>5 DEF PollFails, SelectFails, ClaimFails, EndRound, Poller
  <2> QED BY <1>0, <1>1, <1>5, <2>1 DEF PollFails, SelectFails, ClaimFails
<1>6. CASE TakeToken \/ FinishTopic
  <2>1. poller'.batch = poller.batch
    <3>1. poller' = [poller EXCEPT !.todo = Topics]
          \/ poller' = [poller EXCEPT !.pc = "topics", !.found = FALSE]
      BY <1>6 DEF TakeToken, FinishTopic
    <3> QED BY <1>0, <3>1 DEF Poller
  <2> QED BY <1>0, <1>1, <1>6, <2>1 DEF TakeToken, FinishTopic
<1>7. ASSUME NEW t \in Topics, SkipTopic(t) PROVE Room'
  <2>1. poller'.batch = poller.batch
    BY <1>0, <1>7 DEF SkipTopic, Poller
  <2> QED BY <1>0, <1>1, <1>7, <2>1 DEF SkipTopic
<1>8. ASSUME NEW m \in poller.batch, ClaimGone(m) PROVE Room'
  <2>1. poller'.batch \subseteq poller.batch
    BY <1>0, <1>8 DEF ClaimGone, Poller
  <2> QED BY <1>0, <1>1, <1>8, <2>1 DEF ClaimGone
<1>9. CASE Crash
  <2>1. poller'.batch \subseteq poller.batch
    BY <1>0, <1>9 DEF Crash, EndRound, Poller
  <2>2. \A t : Free(t) \subseteq Free(t)'
    BY <1>9 DEF Crash, Free
  <2>3. rows' = rows
    BY <1>9 DEF Crash
  <2> QED BY <1>0, <2>1, <2>2, <2>3, RoomStays
<1>10. ASSUME NEW s \in Slots, HandlerStep(s) \/ HandlerFails(s) PROVE Room'
  <2>1. poller' = poller
    BY <1>10 DEF HandlerStep, HandlerFails, Consume, PublishFollowUp, Retry, Archive,
       Delete, Release, FollowUpRejected, FollowUpFails, SettleFails, DeleteFails
  <2>2. IsFiniteSet(DOMAIN rows')
    <3>1. CASE PublishFollowUp(s)
      BY <1>0, <3>1, EnqueueFinite DEF PublishFollowUp
    <3>2. CASE Delete(s)
      <4>1. DOMAIN rows' \subseteq DOMAIN rows
        BY <3>2 DEF Delete, Remove
      <4> QED BY <1>0, <4>1, FS_Subset
    <3>3. CASE Retry(s)
      <4>1. DOMAIN rows' = DOMAIN rows
        BY <3>3 DEF Retry
      <4> QED BY <1>0, <4>1
    <3>4. CASE rows' = rows
      BY <1>0, <3>4
    <3> QED BY <1>10, <3>1, <3>2, <3>3, <3>4 DEF HandlerStep, HandlerFails, Consume, Archive,
         Release, FollowUpRejected, FollowUpFails, SettleFails, DeleteFails
  <2> QED BY <1>10, <2>1, <2>2, HandlerMakesRoom, RoomStays
<1> QED BY <1>2, <1>3, <1>4, <1>5, <1>6, <1>7, <1>8, <1>9, <1>10, SelectFits, ClaimFits
     DEF Next, PollStep

\* The goroutine that polls all topics never waits at a full semaphore, whatever handlers
\* expire or fail meanwhile: only it starts goroutines, so that a place that was free at the
\* SELECT is free at the send.
THEOREM NeverBlocks == Spec => []PollerNeverBlocks
<1>1. Init => Typed /\ Room
  <2> SUFFICES ASSUME Init PROVE Room
    BY InitTyped
  <2>1. DOMAIN rows = {} /\ poller.batch = {}
    BY DEF Init
  <2> QED BY <2>1, FS_EmptySet DEF Room, PollerNeverBlocks
<1>2. Typed /\ Room /\ [Next]_vars => (Typed /\ Room)'
  BY NextTyped, RoomStep
<1>3. Typed /\ Room => PollerNeverBlocks
  BY DEF Room
<1> QED BY <1>1, <1>2, <1>3, PTL DEF Spec

=============================================================================

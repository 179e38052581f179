------------------------- MODULE QliteBroker_timely -------------------------
(***************************************************************************)
(* What the broker guarantees when every handler ends before its row       *)
(* expires: nothing is lost, nobody works twice on one message at a time,  *)
(* and the abstract work queue is implemented.  Without that assumption    *)
(* all three are false (Broker_idreuse.cfg shows it of the first).         *)
(***************************************************************************)
EXTENDS QliteBroker_proofs

\* The inductive invariant: ownership of rows, the order of ids, and that only
\* published uids occur.
Own ==
  /\ HandlerOwnsRow
  /\ IdsFollowPublication
  /\ \A i \in DOMAIN rows : rows[i].uid <= published
  /\ \A a \in archive : a.uid <= published
  /\ \A s \in Slots : run[s].pc = "delete" => Archived(run[s].uid)
  /\ NoMessageLost

Inv == Typed /\ Own

\* What an INSERT does to the table.
LEMMA EnqueueRow ==
  ASSUME TypeInvariant, NEW b \in Bodies, Enqueue(b)
  PROVE  \E n \in RowId :
           /\ \A i \in DOMAIN rows : i < n
           /\ DOMAIN rows' = DOMAIN rows \cup {n}
           /\ \A i \in DOMAIN rows : rows'[i] = rows[i]
           /\ rows'[n] = [uid |-> published + 1, body |-> b, age |-> Never, wait |-> 0]
<1>1. PICK n \in {1} \cup {i + 1 : i \in DOMAIN rows} :
        /\ FreshId(n)
        /\ rows' = Assign(rows, n, [uid |-> published + 1, body |-> b, age |-> Never, wait |-> 0])
  BY DEF Enqueue
<1>2. n \in RowId
  BY DEF TypeInvariant, RowId
<1>3. \A i \in DOMAIN rows : i < n /\ i # n
  BY <1>1, <1>2 DEF FreshId, TypeInvariant, RowId
<1> QED BY <1>1, <1>2, <1>3 DEF Assign

\* Rows that keep their content, handlers that keep theirs or end, and a batch that
\* shrinks leave ownership as it is.
LEMMA OwnershipKept ==
  ASSUME HandlerOwnsRow,
         \A i \in DOMAIN rows : i \in DOMAIN rows' /\ rows'[i] = rows[i],
         \A s \in Slots : Live(s)' => /\ Live(s)
                                      /\ run'[s].id = run[s].id
                                      /\ run'[s].uid = run[s].uid
                                      /\ run'[s].body = run[s].body,
         poller'.batch \subseteq poller.batch
  PROVE  HandlerOwnsRow'
BY DEF HandlerOwnsRow

LEMMA EnqueueOwned ==
  ASSUME Inv, NEW b \in Bodies, Enqueue(b), archive' = archive,
         \A s \in Slots : run'[s].pc = "delete" => run[s].pc = "delete" /\ run'[s].uid = run[s].uid
  PROVE  /\ IdsFollowPublication'
         /\ \A i \in DOMAIN rows' : rows'[i].uid <= published'
         /\ \A a \in archive' : a.uid <= published'
         /\ \A s \in Slots : run'[s].pc = "delete" => Archived(run[s].uid)'
         /\ NoMessageLost'
         /\ \A i \in DOMAIN rows : i \in DOMAIN rows' /\ rows'[i] = rows[i]
<1> USE BrokerAssumption DEF Inv, Typed
<1>1. PICK n \in RowId :
           /\ \A i \in DOMAIN rows : i < n
           /\ DOMAIN rows' = DOMAIN rows \cup {n}
           /\ \A i \in DOMAIN rows : rows'[i] = rows[i]
           /\ rows'[n] = [uid |-> published + 1, body |-> b, age |-> Never, wait |-> 0]
  BY EnqueueRow
<1>2. published' = published + 1 /\ published \in Nat
  BY DEF Enqueue, TypeInvariant
<1>3. \A i \in DOMAIN rows : i \in Nat /\ rows[i].uid \in Nat /\ rows[i].uid <= published
  BY DEF TypeInvariant, RowId, Row, Own
<1>4. IdsFollowPublication'
  BY <1>1, <1>2, <1>3 DEF IdsFollowPublication, Own, RowId
<1>5. \A i \in DOMAIN rows' : rows'[i].uid <= published'
  BY <1>1, <1>2, <1>3
<1>6. \A a \in archive' : a.uid <= published'
  <2>1. \A a \in archive : a.uid \in Nat /\ a.uid <= published
    BY DEF Own, TypeInvariant
  <2> QED BY <1>2, <2>1
<1>7. \A s \in Slots : run'[s].pc = "delete" => Archived(run[s].uid)'
  BY DEF Own, Archived
<1>8. NoMessageLost'
  <2> SUFFICES ASSUME NEW u \in 1..(published + 1)
               PROVE  Archived(u)' \/ \E i \in DOMAIN rows' : rows'[i].uid = u
    BY <1>2 DEF NoMessageLost
  <2>1. CASE u = published + 1
    BY <1>1, <2>1
  <2>2. CASE u \in 1..published
    BY <1>1, <2>2 DEF Own, NoMessageLost, Archived
  <2> QED BY <1>2, <2>1, <2>2
<1> QED BY <1>1, <1>4, <1>5, <1>6, <1>7, <1>8

\* The actions that leave the table, the archive and the identity of the live handlers
\* alone.
LEMMA QuietStep ==
  ASSUME Inv, rows' = rows, archive' = archive, published' = published,
         \A s \in Slots : Live(s)' => /\ Live(s)
                                      /\ run'[s].id = run[s].id
                                      /\ run'[s].uid = run[s].uid
                                      /\ run'[s].body = run[s].body,
         \A s \in Slots : run'[s].pc = "delete" => run[s].pc = "delete" /\ run'[s].uid = run[s].uid,
         poller'.batch \subseteq poller.batch
  PROVE  Own'
<1>1. HandlerOwnsRow'
  BY OwnershipKept DEF Inv, Own
<1> QED BY <1>1 DEF Inv, Own, IdsFollowPublication, NoMessageLost, Archived

LEMMA TickOwned ==
  ASSUME Timely, Inv, Tick
  PROVE  Own'
<1> USE BrokerAssumption DEF Inv, Typed
<1>1. /\ DOMAIN rows' = DOMAIN rows
      /\ \A i \in DOMAIN rows : rows'[i].uid = rows[i].uid /\ rows'[i].body = rows[i].body
      /\ \A i \in DOMAIN rows :
           rows'[i].age = IF rows[i].age < Never THEN rows[i].age + 1 ELSE rows[i].age
  BY TickRows
<1>2. archive' = archive /\ run' = run /\ poller' = poller /\ published' = published
  BY DEF Tick
<1>3. \A i \in DOMAIN rows : rows[i].age \in 0..Never
  BY DEF TypeInvariant, Row
<1>4. \A s \in Slots : Live(s) => rows'[run[s].id].age <= StartExpire
  <2> SUFFICES ASSUME NEW s \in Slots, Live(s) PROVE rows'[run[s].id].age <= StartExpire
    OBVIOUS
  <2>1. run[s].id \in DOMAIN rows
    BY DEF Own, HandlerOwnsRow
  <2>2. rows[run[s].id].age < StartExpire
    BY DEF Tick
  <2> QED BY <1>1, <1>3, <2>1, <2>2 DEF Never
<1>5. \A m \in poller.batch : m.id \in DOMAIN rows /\ rows'[m.id].age = Never
  BY <1>1 DEF Own, HandlerOwnsRow, Never
<1>6. HandlerOwnsRow'
  BY <1>1, <1>2, <1>4, <1>5 DEF HandlerOwnsRow, Own, Live
<1>7. IdsFollowPublication'
  BY <1>1 DEF Own, IdsFollowPublication
<1>8. NoMessageLost'
  BY <1>1, <1>2 DEF Own, NoMessageLost, Archived
<1>9. \A i \in DOMAIN rows' : rows'[i].uid <= published'
  BY <1>1, <1>2 DEF Own
<1> QED BY <1>2, <1>6, <1>7, <1>8, <1>9 DEF Own, Archived

LEMMA RowAged ==
  ASSUME NEW r \in Row, NEW a \in 0..Never
  PROVE  LET q == [r EXCEPT !.age = a]
         IN  q.uid = r.uid /\ q.body = r.body /\ q.age = a
BY DEF Row

LEMMA SamePicked ==
  ASSUME NEW m \in Picked, NEW n \in Picked, m.id = n.id, m.uid = n.uid, m.body = n.body
  PROVE  m = n
<1>1. \A p \in Picked : p = [id |-> p.id, uid |-> p.uid, body |-> p.body]
  BY DEF Picked
<1>2. /\ m = [id |-> m.id, uid |-> m.uid, body |-> m.body]
      /\ n = [id |-> n.id, uid |-> n.uid, body |-> n.body]
  BY <1>1
<1> QED BY <1>2

\* A due row is no live handler's, so that each message is claimed by one.
LEMMA ClaimOwned ==
  ASSUME Inv, NEW m \in poller.batch, Claim(m)
  PROVE  Own'
<1> USE BrokerAssumption DEF Inv, Typed
<1>1. PICK s \in Slots : run[s] = Idle /\ run' = [run EXCEPT ![s] = Started(m)]
  BY DEF Claim, FirstFree, Free
<1>2. /\ run \in [Slots -> Handler \cup {Idle}] /\ poller \in Poller
      /\ \A i \in DOMAIN rows : rows[i] \in Row
  BY DEF TypeInvariant
<1>3. /\ m.id \in DOMAIN rows /\ rows[m.id].uid = m.uid
      /\ rows[m.id].body = m.body /\ rows[m.id].age = Never
  BY DEF Own, HandlerOwnsRow
<1>4. /\ DOMAIN rows' = DOMAIN rows
      /\ \A i \in DOMAIN rows : i # m.id => rows'[i] = rows[i]
      /\ rows'[m.id] = [rows[m.id] EXCEPT !.age = 0]
  BY <1>3 DEF Claim
<1>6. /\ rows'[m.id].age = 0
      /\ rows'[m.id].uid = rows[m.id].uid /\ rows'[m.id].body = rows[m.id].body
  <2>1. rows[m.id] \in Row /\ 0 \in 0..Never
    BY <1>2, <1>3 DEF Never
  <2> QED BY <1>4, <2>1, RowAged
<1>5. \A i \in DOMAIN rows : rows'[i].uid = rows[i].uid /\ rows'[i].body = rows[i].body
  BY <1>4, <1>6
<1>7. \A r \in Slots \ {s} : run'[r] = run[r] /\ (Live(r) => run[r].id # m.id)
  BY <1>1, <1>2, <1>3 DEF Own, HandlerOwnsRow, Never
<1>8. /\ run'[s].id = m.id /\ run'[s].uid = m.uid /\ run'[s].body = m.body
      /\ run'[s].pc = "consume"
  BY <1>1, <1>2 DEF Started
<1>9. poller'.batch = poller.batch \ {m}
  BY <1>2 DEF Claim, Poller
<1>10. \A n \in poller.batch \ {m} : n.id # m.id
  <2> SUFFICES ASSUME NEW n \in poller.batch, n.id = m.id PROVE n = m
    OBVIOUS
  <2>1. n.uid = m.uid /\ n.body = m.body
    BY DEF Own, HandlerOwnsRow
  <2>2. n \in Picked /\ m \in Picked
    BY <1>2 DEF Poller
  <2> QED BY <2>1, <2>2, SamePicked
<1>11. \A r \in Slots : Live(r)' =>
         /\ run'[r].id \in DOMAIN rows'
         /\ rows'[run'[r].id].uid = run'[r].uid
         /\ rows'[run'[r].id].body = run'[r].body
         /\ rows'[run'[r].id].age <= StartExpire
  <2> SUFFICES ASSUME NEW r \in Slots, Live(r)'
               PROVE  /\ run'[r].id \in DOMAIN rows'
                      /\ rows'[run'[r].id].uid = run'[r].uid
                      /\ rows'[run'[r].id].body = run'[r].body
                      /\ rows'[run'[r].id].age <= StartExpire
    OBVIOUS
  <2>1. CASE r = s
    <3>1. rows'[m.id].uid = m.uid /\ rows'[m.id].body = m.body /\ rows'[m.id].age = 0
      BY <1>3, <1>6
    <3>2. 0 <= StartExpire
      OBVIOUS
    <3>3. run'[r].id = m.id /\ run'[r].uid = m.uid /\ run'[r].body = m.body
      BY <1>8, <2>1
    <3>4. m.id \in DOMAIN rows'
      BY <1>3, <1>4
    <3> QED BY ONLY <3>1, <3>2, <3>3, <3>4
  <2>2. CASE r # s
    <3>1. Live(r) /\ run'[r] = run[r] /\ run[r].id # m.id
      BY <1>7, <2>2 DEF Live
    <3> QED BY <1>4, <3>1 DEF Own, HandlerOwnsRow
  <2> QED BY <2>1, <2>2
<1>12. \A q, r \in Slots : Live(q)' /\ Live(r)' /\ run'[q].id = run'[r].id => q = r
  BY <1>7, <1>8 DEF Live, Own, HandlerOwnsRow
<1>13. \A n \in poller'.batch : /\ n.id \in DOMAIN rows' /\ rows'[n.id].uid = n.uid
                                /\ rows'[n.id].body = n.body /\ rows'[n.id].age = Never
  BY <1>4, <1>9, <1>10 DEF Own, HandlerOwnsRow
<1>14. HandlerOwnsRow'
  BY <1>11, <1>12, <1>13 DEF HandlerOwnsRow
<1>15. archive' = archive /\ published' = published
  BY DEF Claim
<1>16. \A r \in Slots : run'[r].pc = "delete" => run[r].pc = "delete" /\ run'[r].uid = run[r].uid
  BY <1>7, <1>8
<1>17. DOMAIN rows' = DOMAIN rows
  BY <1>4
<1>18. IdsFollowPublication'
  BY <1>5, <1>17 DEF Own, IdsFollowPublication
<1>19. NoMessageLost'
  BY <1>5, <1>15, <1>17 DEF Own, NoMessageLost, Archived
<1>20. \A i \in DOMAIN rows' : rows'[i].uid <= published'
  BY <1>5, <1>15, <1>17 DEF Own
<1>21. (\A r \in Slots : run[r].pc = "delete" => Archived(run[r].uid))'
  BY <1>15, <1>16 DEF Own, Archived
<1> QED BY <1>14, <1>15, <1>18, <1>19, <1>20, <1>21 DEF Own

LEMMA SelectOwned ==
  ASSUME Inv, NEW t \in Topics, SelectDue(t)
  PROVE  Own'
<1> USE BrokerAssumption DEF Inv, Typed
<1>1. PICK B \in SUBSET Due(t) :
        poller' = [pc |-> "claim", todo |-> poller.todo \ {t}, found |-> FALSE,
                   batch |-> {[id |-> i, uid |-> rows[i].uid, body |-> rows[i].body] : i \in B}]
  BY DEF SelectDue
<1>2. \A m \in poller'.batch : /\ m.id \in DOMAIN rows /\ rows[m.id].uid = m.uid
                               /\ rows[m.id].body = m.body /\ rows[m.id].age = Never
  <2> TAKE m \in poller'.batch
  <2>1. PICK i \in B : m = [id |-> i, uid |-> rows[i].uid, body |-> rows[i].body]
    BY <1>1
  <2>2. i \in DOMAIN rows /\ rows[i].age > StartExpire /\ rows[i].age \in 0..Never
    BY DEF Due, TypeInvariant, Row
  <2> QED BY <2>1, <2>2 DEF Never
<1>3. rows' = rows /\ archive' = archive /\ run' = run /\ published' = published
  BY DEF SelectDue
<1>4. HandlerOwnsRow'
  BY <1>2, <1>3 DEF HandlerOwnsRow, Own, Live
<1>5. IdsFollowPublication' /\ NoMessageLost'
  BY <1>3 DEF Own, IdsFollowPublication, NoMessageLost, Archived
<1> QED BY <1>3, <1>4, <1>5 DEF Own, Archived

LEMMA PublishOwned ==
  ASSUME Inv, NEW b \in Bodies, Publish(b)
  PROVE  Own'
<1>1. archive' = archive /\ run' = run /\ poller' = poller
  BY DEF Publish
<1>2. HandlerOwnsRow'
  BY <1>1, EnqueueOwned, OwnershipKept DEF Publish, Inv, Own, Live
<1> QED BY <1>1, <1>2, EnqueueOwned DEF Publish, Own

LEMMA FollowUpOwned ==
  ASSUME Inv, NEW s \in Slots, PublishFollowUp(s)
  PROVE  Own'
<1> USE BrokerAssumption DEF Inv, Typed
<1>1. run[s] \in Handler /\ run \in [Slots -> Handler \cup {Idle}]
  BY HandlerPc DEF PublishFollowUp, TypeInvariant
<1>2. OnSuccess[run[s].body][run[s].next] \in Bodies
  <2>1. OnSuccess[run[s].body] \in Seq(Bodies)
    BY <1>1 DEF Handler
  <2>2. run[s].next \in DOMAIN OnSuccess[run[s].body]
    BY DEF PublishFollowUp, LoopInRange
  <2> QED BY <2>1, <2>2
<1>3. archive' = archive /\ poller' = poller
  BY DEF PublishFollowUp
<1>4. /\ run'[s].id = run[s].id /\ run'[s].uid = run[s].uid /\ run'[s].body = run[s].body
      /\ run'[s].pc \in {"settle", "publish"}
  BY <1>1 DEF PublishFollowUp, NextFollowUp, Handler
<1>5. \A r \in Slots \ {s} : run'[r] = run[r]
  BY <1>1 DEF PublishFollowUp, NextFollowUp
<1>6. \A r \in Slots : run'[r].pc = "delete" => run[r].pc = "delete" /\ run'[r].uid = run[r].uid
  BY <1>4, <1>5
<1>7. \A r \in Slots : Live(r)' => /\ Live(r)
                                   /\ run'[r].id = run[r].id
                                   /\ run'[r].uid = run[r].uid
                                   /\ run'[r].body = run[r].body
  <2> SUFFICES ASSUME NEW r \in Slots, Live(r)'
               PROVE  /\ Live(r)
                      /\ run'[r].id = run[r].id
                      /\ run'[r].uid = run[r].uid
                      /\ run'[r].body = run[r].body
    OBVIOUS
  <2>1. CASE r = s
    BY <1>4, <2>1 DEF Live, PublishFollowUp
  <2>2. CASE r # s
    BY <1>5, <2>2 DEF Live
  <2> QED BY <2>1, <2>2
<1>8. HandlerOwnsRow'
  BY <1>2, <1>3, <1>6, <1>7, EnqueueOwned, OwnershipKept DEF PublishFollowUp, Own
<1> QED BY <1>2, <1>3, <1>6, <1>8, EnqueueOwned DEF PublishFollowUp, Own

\* The handler that rewrites its row gives it up; nobody else has that row.
LEMMA RetryOwned ==
  ASSUME Inv, NEW s \in Slots, Retry(s)
  PROVE  Own'
<1> USE BrokerAssumption DEF Inv, Typed
<1>1. run[s] \in Handler /\ run \in [Slots -> Handler \cup {Idle}]
  BY HandlerPc DEF Retry, TypeInvariant
<1>2. /\ run[s].id \in DOMAIN rows /\ rows[run[s].id].uid = run[s].uid
      /\ rows[run[s].id].age <= StartExpire
  BY DEF Retry, Live, Own, HandlerOwnsRow
<1>3. rows' = [rows EXCEPT ![run[s].id] = [uid |-> run[s].uid, body |-> run[s].body,
                                           age |-> Never, wait |-> RetryDelay]]
  BY <1>2 DEF Retry
<1>4. /\ DOMAIN rows' = DOMAIN rows
      /\ \A i \in DOMAIN rows : i # run[s].id => rows'[i] = rows[i]
      /\ \A i \in DOMAIN rows : rows'[i].uid = rows[i].uid
  BY <1>2, <1>3
<1>5. run'[s].pc = "release" /\ \A r \in Slots \ {s} : run'[r] = run[r]
  BY <1>1 DEF Retry
<1>6. \A r \in Slots : Live(r)' => /\ r # s /\ Live(r) /\ run'[r] = run[r]
                                   /\ run[r].id # run[s].id
  BY <1>5 DEF Live, Retry, Own, HandlerOwnsRow
<1>7. poller' = poller /\ archive' = archive /\ published' = published
  BY DEF Retry
<1>8. \A m \in poller.batch : m.id # run[s].id
  BY <1>2 DEF Own, HandlerOwnsRow, Never
<1>9. HandlerOwnsRow'
  BY <1>4, <1>6, <1>7, <1>8 DEF Own, HandlerOwnsRow
<1>10. \A r \in Slots : run'[r].pc = "delete" => run[r].pc = "delete" /\ run'[r].uid = run[r].uid
  BY <1>5
<1>11. IdsFollowPublication'
  BY <1>4 DEF Own, IdsFollowPublication
<1>12. NoMessageLost'
  BY <1>4, <1>7 DEF Own, NoMessageLost, Archived
<1>13. \A i \in DOMAIN rows' : rows'[i].uid <= published'
  BY <1>4, <1>7 DEF Own
<1> QED BY <1>7, <1>9, <1>10, <1>11, <1>12, <1>13 DEF Own, Archived

\* The handler that deletes its row has archived it, and nobody else has that row.
LEMMA DeleteOwned ==
  ASSUME Inv, NEW s \in Slots, Delete(s)
  PROVE  Own'
<1> USE BrokerAssumption DEF Inv, Typed
<1>1. run[s] \in Handler /\ run \in [Slots -> Handler \cup {Idle}]
  BY HandlerPc DEF Delete, TypeInvariant
<1>2. /\ run[s].id \in DOMAIN rows /\ rows[run[s].id].uid = run[s].uid
      /\ rows[run[s].id].age <= StartExpire /\ Archived(run[s].uid)
  BY DEF Delete, Live, Own, HandlerOwnsRow
<1>3. /\ DOMAIN rows' = DOMAIN rows \ {run[s].id}
      /\ \A i \in DOMAIN rows' : rows'[i] = rows[i]
  BY DEF Delete, Remove
<1>4. run'[s].pc = "release" /\ \A r \in Slots \ {s} : run'[r] = run[r]
  BY <1>1 DEF Delete
<1>5. \A r \in Slots : Live(r)' => /\ r # s /\ Live(r) /\ run'[r] = run[r]
                                   /\ run[r].id # run[s].id
  BY <1>4 DEF Live, Delete, Own, HandlerOwnsRow
<1>6. poller' = poller /\ archive' = archive /\ published' = published
  BY DEF Delete
<1>7. \A m \in poller.batch : m.id # run[s].id
  BY <1>2 DEF Own, HandlerOwnsRow, Never
<1>8. HandlerOwnsRow'
  <2>1. \A r \in Slots : Live(r)' =>
          /\ run'[r].id \in DOMAIN rows'
          /\ rows'[run'[r].id].uid = run'[r].uid
          /\ rows'[run'[r].id].body = run'[r].body
          /\ rows'[run'[r].id].age <= StartExpire
    BY <1>3, <1>5 DEF Own, HandlerOwnsRow
  <2>2. \A q, r \in Slots : Live(q)' /\ Live(r)' /\ run'[q].id = run'[r].id => q = r
    BY <1>5 DEF Own, HandlerOwnsRow
  <2>3. \A m \in poller'.batch : /\ m.id \in DOMAIN rows' /\ rows'[m.id].uid = m.uid
                                 /\ rows'[m.id].body = m.body /\ rows'[m.id].age = Never
    BY <1>3, <1>6, <1>7 DEF Own, HandlerOwnsRow
  <2> QED BY <2>1, <2>2, <2>3 DEF HandlerOwnsRow
<1>9. \A r \in Slots : run'[r].pc = "delete" => run[r].pc = "delete" /\ run'[r].uid = run[r].uid
  BY <1>4
<1>10. NoMessageLost'
  <2> SUFFICES ASSUME NEW u \in 1..published
               PROVE  Archived(u) \/ \E i \in DOMAIN rows' : rows'[i].uid = u
    BY <1>6 DEF NoMessageLost, Archived
  <2>1. CASE Archived(u)
    BY <2>1
  <2>2. ASSUME NEW i \in DOMAIN rows, rows[i].uid = u
        PROVE  Archived(u) \/ \E j \in DOMAIN rows' : rows'[j].uid = u
    BY <1>2, <1>3, <2>2
  <2> QED BY <2>1, <2>2 DEF Own, NoMessageLost
<1>11. IdsFollowPublication'
  BY <1>3 DEF Own, IdsFollowPublication
<1> QED BY <1>3, <1>6, <1>8, <1>9, <1>10, <1>11 DEF Own, Archived

LEMMA ArchiveOwned ==
  ASSUME Inv, NEW s \in Slots, Archive(s)
  PROVE  Own'
<1> USE BrokerAssumption DEF Inv, Typed
<1>1. run[s] \in Handler /\ run \in [Slots -> Handler \cup {Idle}]
  BY HandlerPc DEF Archive, TypeInvariant
<1>2. run[s].id \in DOMAIN rows /\ rows[run[s].id].uid = run[s].uid
  BY DEF Archive, Live, Own, HandlerOwnsRow
<1>3. run[s].uid <= published
  BY <1>2 DEF Own
<1> DEFINE outcome == [uid |-> run[s].uid, body |-> run[s].body, out |-> run[s].out]
<1>4. archive' = archive \cup {outcome} /\ outcome.uid = run[s].uid
  BY DEF Archive
<1>5. /\ run'[s].pc = "delete" /\ run'[s].id = run[s].id /\ run'[s].uid = run[s].uid
      /\ run'[s].body = run[s].body
  BY <1>1 DEF Archive, Handler
<1>6. \A r \in Slots \ {s} : run'[r] = run[r]
  BY <1>1 DEF Archive
<1>7. rows' = rows /\ poller' = poller /\ published' = published
  BY DEF Archive
<1>8. \A r \in Slots : Live(r)' => /\ Live(r)
                                   /\ run'[r].id = run[r].id
                                   /\ run'[r].uid = run[r].uid
                                   /\ run'[r].body = run[r].body
  <2> SUFFICES ASSUME NEW r \in Slots, Live(r)'
               PROVE  /\ Live(r)
                      /\ run'[r].id = run[r].id
                      /\ run'[r].uid = run[r].uid
                      /\ run'[r].body = run[r].body
    OBVIOUS
  <2>1. CASE r = s
    BY <1>5, <2>1 DEF Live, Archive
  <2>2. CASE r # s
    BY <1>6, <2>2 DEF Live
  <2> QED BY <2>1, <2>2
<1>9. HandlerOwnsRow'
  BY <1>7, <1>8, OwnershipKept DEF Own
<1>10. \A u : Archived(u) => Archived(u)'
  BY <1>4 DEF Archived
<1>11. Archived(run[s].uid)'
  BY <1>4, <1>5 DEF Archived
<1>12. \A r \in Slots : run'[r].pc = "delete" => Archived(run[r].uid)'
  <2> SUFFICES ASSUME NEW r \in Slots, run'[r].pc = "delete"
               PROVE  Archived(run[r].uid)'
    OBVIOUS
  <2>1. CASE r # s
    <3>1. run'[r] = run[r]
      BY <1>6, <2>1
    <3>2. Archived(run[r].uid)
      BY <3>1 DEF Own
    <3> QED BY <1>4, <3>1, <3>2 DEF Archived
  <2> QED BY <1>11, <2>1
<1>13. \A a \in archive' : a.uid <= published'
  BY <1>3, <1>4, <1>7 DEF Own
<1>14. NoMessageLost'
  BY <1>7, <1>10 DEF NoMessageLost, Own
<1> QED BY <1>7, <1>9, <1>12, <1>13, <1>14 DEF Own, IdsFollowPublication

\* The steps of the poller and the handlers that touch neither table nor archive.
LEMMA OthersOwned ==
  ASSUME Inv,
         \/ Poll \/ Crash \/ PollFails \/ TakeToken \/ FinishTopic \/ UNCHANGED vars
         \/ \E t \in Topics : SkipTopic(t)
         \/ \E m \in poller.batch : ClaimGone(m)
         \/ \E s \in Slots : \/ \E out \in Outcomes : Consume(s, out)
                             \/ Release(s) \/ FollowUpRejected(s) \/ HandlerFails(s)
  PROVE  Own'
<1> USE BrokerAssumption DEF Inv, Typed
<1>1. run \in [Slots -> Handler \cup {Idle}] /\ poller \in Poller
  BY DEF TypeInvariant
<1>2. ASSUME rows' = rows, archive' = archive, published' = published, run' = run,
             poller'.batch \subseteq poller.batch
      PROVE  Own'
  BY <1>2, QuietStep DEF Live
<1>3. CASE Poll \/ UNCHANGED vars
  BY <1>2, <1>3 DEF Poll, vars
<1>4. CASE PollFails
  <2>1. poller'.batch \subseteq poller.batch
    BY <1>1, <1>4 DEF PollFails, SelectFails, ClaimFails, EndRound, Poller
  <2> QED BY <1>2, <1>4, <2>1 DEF PollFails, SelectFails, ClaimFails
<1>5. CASE TakeToken \/ FinishTopic
  <2>1. poller'.batch = poller.batch
    BY <1>1, <1>5 DEF TakeToken, FinishTopic, Poller
  <2> QED BY <1>2, <1>5, <2>1 DEF TakeToken, FinishTopic
<1>6. ASSUME NEW t \in Topics, SkipTopic(t) PROVE Own'
  <2>1. poller'.batch = poller.batch
    BY <1>1, <1>6 DEF SkipTopic, Poller
  <2> QED BY <1>2, <1>6, <2>1 DEF SkipTopic
<1>7. ASSUME NEW m \in poller.batch, ClaimGone(m) PROVE Own'
  <2>1. poller'.batch \subseteq poller.batch
    BY <1>1, <1>7 DEF ClaimGone, Poller
  <2> QED BY <1>2, <1>7, <2>1 DEF ClaimGone
<1>8. CASE Crash
  <2>1. poller'.batch \subseteq poller.batch
    BY <1>1, <1>8 DEF Crash, EndRound, Poller
  <2>2. \A s \in Slots : run'[s].pc = "idle"
    BY <1>8 DEF Crash, Idle
  <2> QED BY <1>8, <2>1, <2>2, QuietStep DEF Crash, Live
<1>9. ASSUME NEW s \in Slots,
             \/ \E out \in Outcomes : Consume(s, out)
             \/ Release(s) \/ FollowUpRejected(s) \/ HandlerFails(s)
      PROVE  Own'
  <2>1. run[s] \in Handler
    BY <1>9, HandlerPc DEF HandlerFails, Consume, Release, FollowUpRejected, FollowUpFails, SettleFails, DeleteFails
  <2>2. \A r \in Slots \ {s} : run'[r] = run[r]
    BY <1>1, <1>9 DEF HandlerFails, Consume, Release, FollowUpRejected, FollowUpFails, SettleFails, DeleteFails,
       NextFollowUp
  <2>3. /\ run'[s].pc # "delete"
        /\ Live(s)' => /\ Live(s) /\ run'[s].id = run[s].id
                       /\ run'[s].uid = run[s].uid /\ run'[s].body = run[s].body
    <3>1. CASE Release(s)
      BY <1>1, <3>1 DEF Release, Idle, Live
    <3>2. CASE FollowUpRejected(s) \/ FollowUpFails(s)
      <4>1. /\ run'[s].id = run[s].id /\ run'[s].uid = run[s].uid
            /\ run'[s].body = run[s].body /\ run'[s].pc # "delete"
        BY <1>1, <2>1, <3>2 DEF FollowUpRejected, FollowUpFails, NextFollowUp, Handler
      <4> QED BY <3>2, <4>1 DEF FollowUpRejected, FollowUpFails, Live
    <3>3. CASE \E out \in Outcomes : Consume(s, out)
      <4>1. /\ run'[s].id = run[s].id /\ run'[s].uid = run[s].uid
            /\ run'[s].body = run[s].body /\ run'[s].pc # "delete"
        BY <1>1, <2>1, <3>3 DEF Consume, Handler
      <4> QED BY <3>3, <4>1 DEF Consume, Live
    <3>4. CASE SettleFails(s) \/ DeleteFails(s)
      BY <1>1, <2>1, <3>4 DEF SettleFails, DeleteFails, Live, Handler
    <3> QED BY <1>9, <3>1, <3>2, <3>3, <3>4 DEF HandlerFails
  <2>4. /\ rows' = rows /\ archive' = archive /\ published' = published
        /\ poller'.batch = poller.batch
    BY <1>9 DEF HandlerFails, Consume, Release, FollowUpRejected, FollowUpFails, SettleFails, DeleteFails
  <2>5. \A r \in Slots : Live(r)' => /\ Live(r) /\ run'[r].id = run[r].id
                                     /\ run'[r].uid = run[r].uid /\ run'[r].body = run[r].body
    <3>1. ASSUME NEW r \in Slots \ {s}
          PROVE  Live(r)' => /\ Live(r) /\ run'[r].id = run[r].id
                             /\ run'[r].uid = run[r].uid /\ run'[r].body = run[r].body
      BY <2>2 DEF Live
    <3> QED BY <2>3, <3>1
  <2>6. \A r \in Slots : run'[r].pc = "delete" => run[r].pc = "delete" /\ run'[r].uid = run[r].uid
    BY <2>2, <2>3
  <2> QED BY <2>4, <2>5, <2>6, QuietStep
<1> QED BY <1>3, <1>4, <1>5, <1>6, <1>7, <1>8, <1>9

LEMMA InitOwned == Init => Own
<1> USE BrokerAssumption
<1>1. ASSUME Init PROVE Own
  BY <1>1 DEF Init, Own, HandlerOwnsRow, IdsFollowPublication, NoMessageLost, Idle, Live
<1> QED BY <1>1

LEMMA OwnStep ==
  ASSUME Timely, Inv, [Next]_vars
  PROVE  Own'
BY TickOwned, ClaimOwned, SelectOwned, PublishOwned, FollowUpOwned, RetryOwned, DeleteOwned,
   ArchiveOwned, OthersOwned DEF Next, PollStep, HandlerStep

LEMMA Owned == ASSUME Timely PROVE Spec => []Inv
<1>1. Init => Inv
  BY InitTyped, InitOwned DEF Inv
<1>2. Inv /\ [Next]_vars => Inv'
  BY NextTyped, OwnStep DEF Inv
<1> QED BY <1>1, <1>2, PTL DEF Spec

\* Nothing that was published is lost, through crashes, failing statements and retries,
\* as long as no handler outlives the expiry of its row.
THEOREM NothingLost == ASSUME Timely PROVE Spec => []NoMessageLost
<1>1. Inv => NoMessageLost
  BY DEF Inv, Own
<1> QED BY <1>1, Owned, PTL

\* The rows handlers rewrite and delete by id are their own.
THEOREM RowsOwned == ASSUME Timely PROVE Spec => []HandlerOwnsRow
<1>1. Inv => HandlerOwnsRow
  BY DEF Inv, Own
<1> QED BY <1>1, Owned, PTL

\* started_at keeps a second handler away from a message: two with one uid would own two
\* rows with it, and the order of ids rules that out.
THEOREM SingleHandler == ASSUME Timely PROVE Spec => []OneHandler
<1>1. Inv => OneHandler
  <2> SUFFICES ASSUME Inv, NEW s \in Slots, NEW r \in Slots, Live(s), Live(r),
                      run[s].uid = run[r].uid
               PROVE  s = r
    BY DEF OneHandler
  <2>1. /\ run[s].id \in DOMAIN rows /\ rows[run[s].id].uid = run[s].uid
        /\ run[r].id \in DOMAIN rows /\ rows[run[r].id].uid = run[r].uid
    BY DEF Inv, Own, HandlerOwnsRow
  <2>2. rows[run[s].id].uid \in Nat
    BY <2>1, BrokerAssumption DEF Inv, Typed, TypeInvariant, Row
  <2>3. run[s].id \in Nat /\ run[r].id \in Nat
    BY <2>1 DEF Inv, Typed, TypeInvariant, RowId
  <2>4. run[s].id = run[r].id
    BY <2>1, <2>2, <2>3 DEF Inv, Own, IdsFollowPublication
  <2> QED BY <2>4 DEF Inv, Own, HandlerOwnsRow
<1> QED BY <1>1, Owned, PTL

\* Ids that SQLite hands out again keep the order of publication in the table.
THEOREM OrderKept == ASSUME Timely PROVE Spec => []IdsFollowPublication
<1>1. Inv => IdsFollowPublication
  BY DEF Inv, Own
<1> QED BY <1>1, Owned, PTL

-----------------------------------------------------------------------------
(* Without trouble a row whose message is archived is about to be deleted *)

Quiet == budget["crash"] = MaxCrashes /\ budget["fault"] = MaxFaults

Deleting(i) == \E s \in Slots : run[s].pc = "delete" /\ run[s].id = i

Marked == \A i \in DOMAIN rows : Archived(rows[i].uid) => Deleting(i)

Settled ==
  /\ budget["crash"] <= MaxCrashes /\ budget["fault"] <= MaxFaults
  /\ Quiet => Marked

LEMMA BudgetShrinks ==
  ASSUME Typed, Settled, [Next]_vars
  PROVE  /\ budget'["crash"] <= MaxCrashes /\ budget'["fault"] <= MaxFaults
         /\ Quiet' => Quiet
<1> USE BrokerAssumption
<1>1. budget["crash"] \in Nat /\ budget["fault"] \in Nat
      /\ budget \in [{"publish", "crash", "fault", "retry"} -> Nat]
  BY DEF Typed, TypeInvariant, Bounds
<1>2. budget' = budget \/ \E what \in {"publish", "crash", "fault", "retry"} : Spend(what)
  BY DEF Next, Publish, Poll, PollStep, PollFails, TakeToken, SkipTopic, SelectDue, Claim, ClaimGone,
     FinishTopic, SelectFails, ClaimFails, HandlerStep, HandlerFails, Consume, PublishFollowUp,
     FollowUpRejected, FollowUpFails, Retry, Archive, SettleFails, Delete, DeleteFails, Release,
     Tick, Crash, vars
<1>3. \A what \in {"publish", "crash", "fault", "retry"} :
        Spend(what) => /\ budget'["crash"] <= budget["crash"] /\ budget'["fault"] <= budget["fault"]
                       /\ budget'["crash"] \in Int /\ budget'["fault"] \in Int
  BY <1>1 DEF Spend
<1> QED BY <1>1, <1>2, <1>3 DEF Settled, Quiet

\* Steps of a crash or a fault end the quiet.
LEMMA TroubleIsHeard ==
  ASSUME Typed, Settled, NEW what \in {"crash", "fault"}, Spend(what)
  PROVE  ~Quiet'
<1> USE BrokerAssumption
<1>1. budget \in [{"publish", "crash", "fault", "retry"} -> Nat]
  BY DEF Typed, TypeInvariant, Bounds
<1> QED BY <1>1 DEF Spend, Settled, Quiet

\* Rows that stay as they were, with handlers that do not begin or end a deletion.
LEMMA SettledStays ==
  ASSUME Settled, Quiet, archive' = archive,
         \A i \in DOMAIN rows' : i \in DOMAIN rows /\ rows'[i].uid = rows[i].uid,
         \A s \in Slots : run[s].pc = "delete" => \/ run'[s].pc = "delete" /\ run'[s].id = run[s].id
                                                  \/ run[s].id \notin DOMAIN rows'
  PROVE  Marked'
BY DEF Settled, Marked, Archived, Deleting

LEMMA SettledEnqueue ==
  ASSUME Inv, Settled, Quiet, NEW b \in Bodies, Enqueue(b), archive' = archive,
         \A s \in Slots : run[s].pc = "delete" => run'[s].pc = "delete" /\ run'[s].id = run[s].id
  PROVE  Marked'
<1> USE BrokerAssumption DEF Inv, Typed
<1>1. PICK n \in RowId :
        /\ DOMAIN rows' = DOMAIN rows \cup {n}
        /\ \A i \in DOMAIN rows : rows'[i] = rows[i]
        /\ rows'[n] = [uid |-> published + 1, body |-> b, age |-> Never, wait |-> 0]
  BY EnqueueRow
<1>2. ~Archived(published + 1)
  <2>1. published \in Nat /\ \A a \in archive : a.uid \in Nat /\ a.uid <= published
    BY DEF Own, TypeInvariant
  <2> QED BY <2>1 DEF Archived
<1>3. ASSUME NEW i \in DOMAIN rows', NEW u, u = rows'[i].uid, Archived(u)' PROVE Deleting(i)'
  <2>1. Archived(u)
    BY <1>3 DEF Archived
  <2>2. i \in DOMAIN rows /\ rows'[i] = rows[i]
    BY <1>1, <1>2, <1>3, <2>1
  <2>3. Deleting(i)
    BY <1>3, <2>1, <2>2 DEF Settled, Marked
  <2> QED BY <2>3 DEF Deleting
<1> QED BY <1>3 DEF Marked

LEMMA SameRow ==
  ASSUME Inv, NEW i \in DOMAIN rows, NEW j \in DOMAIN rows, rows[i].uid = rows[j].uid
  PROVE  i = j
<1>1. i \in Nat /\ j \in Nat /\ rows[i].uid \in Nat
  BY BrokerAssumption DEF Inv, Typed, TypeInvariant, RowId, Row
<1> QED BY <1>1 DEF Inv, Own, IdsFollowPublication

LEMMA SettledArchive ==
  ASSUME Inv, Settled, Quiet, NEW s \in Slots, Archive(s)
  PROVE  Marked'
<1> USE BrokerAssumption DEF Inv, Typed
<1>1. run[s] \in Handler /\ run \in [Slots -> Handler \cup {Idle}]
  BY HandlerPc DEF Archive, TypeInvariant
<1>2. run[s].id \in DOMAIN rows /\ rows[run[s].id].uid = run[s].uid
  BY DEF Archive, Live, Own, HandlerOwnsRow
<1>3. /\ run'[s].pc = "delete" /\ run'[s].id = run[s].id
      /\ \A r \in Slots \ {s} : run'[r] = run[r]
  BY <1>1 DEF Archive, Handler
<1>4. rows' = rows /\ \A u : Archived(u)' => Archived(u) \/ u = run[s].uid
  BY DEF Archive, Archived
<1>5. ASSUME NEW i \in DOMAIN rows', NEW u, u = rows'[i].uid, Archived(u)' PROVE Deleting(i)'
  <2>1. CASE rows[i].uid = run[s].uid
    <3>1. i = run[s].id
      BY <1>2, <1>4, <2>1, SameRow
    <3> QED BY <1>3, <3>1 DEF Deleting
  <2>2. CASE rows[i].uid # run[s].uid
    <3>1. Archived(rows[i].uid)
      BY <1>4, <1>5, <2>2
    <3>2. PICK r \in Slots : run[r].pc = "delete" /\ run[r].id = i
      BY <1>4, <3>1 DEF Settled, Marked, Deleting
    <3>3. r # s
      BY <3>2 DEF Archive
    <3> QED BY <1>3, <3>2, <3>3 DEF Deleting
  <2> QED BY <2>1, <2>2
<1> QED BY <1>5 DEF Marked

LEMMA SettledStep ==
  ASSUME Inv, Settled, [Next]_vars
  PROVE  Settled'
<1> USE BrokerAssumption DEF Inv, Typed
<1>0. run \in [Slots -> Handler \cup {Idle}]
  BY DEF TypeInvariant
<1> SUFFICES ASSUME Quiet, Quiet' PROVE Marked'
  BY BudgetShrinks DEF Settled
<1>1. ASSUME rows' = rows, archive' = archive,
             \A s \in Slots : run[s].pc = "delete" => run'[s] = run[s]
      PROVE  Marked'
  BY <1>1, SettledStays
<1>2. ASSUME NEW b \in Bodies, Publish(b) PROVE Marked'
  BY <1>2, SettledEnqueue DEF Publish
<1>3. CASE Poll \/ TakeToken \/ FinishTopic \/ UNCHANGED vars
           \/ (\E t \in Topics : SkipTopic(t) \/ SelectDue(t))
           \/ (\E m \in poller.batch : ClaimGone(m))
  BY <1>1, <1>3 DEF Poll, TakeToken, FinishTopic, SkipTopic, SelectDue, ClaimGone, vars
<1>4. CASE PollFails \/ Crash
  BY <1>4, TroubleIsHeard DEF PollFails, SelectFails, ClaimFails, Crash
<1>5. CASE Tick
  <2>1. DOMAIN rows' = DOMAIN rows /\ \A i \in DOMAIN rows : rows'[i].uid = rows[i].uid
    BY <1>5, TickRows
  <2> QED BY <1>5, <2>1, SettledStays DEF Tick
<1>6. ASSUME NEW m \in poller.batch, Claim(m) PROVE Marked'
  <2>1. PICK s \in Slots : run[s] = Idle /\ run' = [run EXCEPT ![s] = Started(m)]
    BY <1>6 DEF Claim, FirstFree, Free
  <2>2. run[s].pc # "delete" /\ \A r \in Slots \ {s} : run'[r] = run[r]
    BY <1>0, <2>1 DEF Idle
  <2>3. \A i \in DOMAIN rows' : i \in DOMAIN rows /\ rows'[i].uid = rows[i].uid
    BY <1>6 DEF Claim, TypeInvariant, Row
  <2>4. archive' = archive
    BY <1>6 DEF Claim
  <2> QED BY <2>2, <2>3, <2>4, SettledStays
<1>7. ASSUME NEW s \in Slots, HandlerFails(s) PROVE Marked'
  BY <1>7, TroubleIsHeard DEF HandlerFails, FollowUpFails, SettleFails, DeleteFails
<1>8. ASSUME NEW s \in Slots, HandlerStep(s) PROVE Marked'
  <2>1. \A r \in Slots \ {s} : run'[r] = run[r]
    BY <1>0, <1>8 DEF HandlerStep, Consume, PublishFollowUp, Retry, Archive, Delete, Release,
       FollowUpRejected, NextFollowUp
  <2>2. CASE Release(s) \/ FollowUpRejected(s) \/ (\E out \in Outcomes : Consume(s, out))
    BY <1>1, <2>1, <2>2 DEF Release, FollowUpRejected, Consume
  <2>3. CASE PublishFollowUp(s)
    <3>1. run[s] \in Handler
      BY <2>3, HandlerPc DEF PublishFollowUp
    <3>2. OnSuccess[run[s].body][run[s].next] \in Bodies
      <4>1. OnSuccess[run[s].body] \in Seq(Bodies)
        BY <3>1 DEF Handler
      <4>2. run[s].next \in DOMAIN OnSuccess[run[s].body]
        BY <2>3 DEF PublishFollowUp, LoopInRange
      <4> QED BY <4>1, <4>2
    <3>3. \A r \in Slots : run[r].pc = "delete" => run'[r] = run[r]
      BY <2>1, <2>3 DEF PublishFollowUp
    <3> QED BY <2>3, <3>2, <3>3, SettledEnqueue DEF PublishFollowUp
  <2>4. CASE Retry(s)
    <3>1. \A i \in DOMAIN rows' : i \in DOMAIN rows /\ rows'[i].uid = rows[i].uid
      BY <2>4 DEF Retry, Live, Own, HandlerOwnsRow
    <3>2. \A r \in Slots : run[r].pc = "delete" => run'[r] = run[r]
      BY <2>1, <2>4 DEF Retry
    <3> QED BY <2>4, <3>1, <3>2, SettledStays DEF Retry
  <2>5. CASE Archive(s)
    BY <2>5, SettledArchive
  <2>6. CASE Delete(s)
    <3>1. \A i \in DOMAIN rows' : i \in DOMAIN rows /\ rows'[i].uid = rows[i].uid
      BY <2>6 DEF Delete, Remove
    <3>2. run[s].id \notin DOMAIN rows'
      BY <2>6 DEF Delete, Remove
    <3> QED BY <2>1, <2>6, <3>1, <3>2, SettledStays DEF Delete
  <2> QED BY <1>8, <2>2, <2>3, <2>4, <2>5, <2>6 DEF HandlerStep
<1> QED BY <1>2, <1>3, <1>4, <1>5, <1>6, <1>7, <1>8 DEF Next, PollStep

\* Only the poller starts handlers.
LEMMA StartsByClaim ==
  ASSUME Inv, Next, NEW s \in Slots, run[s] = Idle, run'[s] # Idle
  PROVE  \E m \in poller.batch : Claim(m) /\ run'[s] = Started(m)
<1>0. run \in [Slots -> Handler \cup {Idle}]
  BY DEF Inv, Typed, TypeInvariant
<1>1. run[s].pc = "idle"
  BY DEF Idle
<1>2. ASSUME NEW r \in Slots, HandlerStep(r) \/ HandlerFails(r) PROVE FALSE
  <2>1. r # s
    BY <1>1, <1>2 DEF HandlerStep, HandlerFails, Consume, PublishFollowUp, Retry, Archive, Delete,
       Release, FollowUpRejected, FollowUpFails, SettleFails, DeleteFails
  <2>2. run'[s] = run[s]
    BY <1>0, <1>2, <2>1 DEF HandlerStep, HandlerFails, Consume, PublishFollowUp, Retry, Archive, Delete,
       Release, FollowUpRejected, FollowUpFails, SettleFails, DeleteFails, NextFollowUp
  <2> QED BY <2>2
<1>3. ASSUME run' = run \/ Crash PROVE FALSE
  BY <1>3 DEF Crash
<1>4. PICK m \in poller.batch : Claim(m)
  BY <1>2, <1>3 DEF Next, Publish, Poll, PollStep, PollFails, TakeToken, SkipTopic, SelectDue,
     ClaimGone, FinishTopic, SelectFails, ClaimFails, Tick
<1>5. run'[s] = Started(m)
  BY <1>0, <1>4 DEF Claim, FirstFree, Free
<1> QED BY <1>4, <1>5

\* Without crashes and failing statements a message is not given to a handler again once it is
\* archived: its row is marked until it is deleted, and the poller's copies are of unmarked rows.
THEOREM HandledOnce == ASSUME Timely PROVE Spec => ProcessedOnce
<1> DEFINE Once == Quiet => \A s \in Slots : run[s] = Idle /\ run'[s] # Idle => ~Archived(run'[s].uid)
<1>1. Init => Settled
  <2>1. Bounds["crash"] = MaxCrashes /\ Bounds["fault"] = MaxFaults
    BY DEF Bounds
  <2>2. Init => rows = << >> /\ budget = Bounds
    BY DEF Init
  <2> QED BY <2>1, <2>2, BrokerAssumption DEF Settled, Marked
<1>2. Inv /\ Settled /\ [Next]_vars => Settled'
  BY SettledStep
<1>3. Inv /\ Settled /\ [Next]_vars => [Once]_vars
  <2> SUFFICES ASSUME Inv, Settled, Next, Quiet, NEW s \in Slots, run[s] = Idle, run'[s] # Idle,
                      Archived(run'[s].uid)
               PROVE  FALSE
    OBVIOUS
  <2>1. PICK m \in poller.batch : Claim(m) /\ run'[s] = Started(m)
    BY StartsByClaim
  <2>2. /\ m.id \in DOMAIN rows /\ rows[m.id].uid = m.uid /\ rows[m.id].age = Never
    BY DEF Inv, Own, HandlerOwnsRow
  <2>3. Archived(rows[m.id].uid)
    BY <2>1, <2>2 DEF Started
  <2>4. PICK r \in Slots : run[r].pc = "delete" /\ run[r].id = m.id
    BY <2>2, <2>3 DEF Settled, Marked, Deleting
  <2>5. rows[m.id].age <= StartExpire
    BY <2>4 DEF Inv, Own, HandlerOwnsRow, Live
  <2> QED BY <2>2, <2>5, BrokerAssumption DEF Never
<1> QED BY <1>1, <1>2, <1>3, Owned, PTL DEF Spec, ProcessedOnce, Quiet

-----------------------------------------------------------------------------
(***************************************************************************)
(* QliteBroker implements WorkQueue.  A message waits while its row is in  *)
(* the table with no handler at work and no outcome on record; SELECTs,    *)
(* tokens, marks and deletions are steps the abstract queue does not see.  *)
(***************************************************************************)

AtWork == {"consume", "publish", "settle"}

\* What the steps of the proof compare, without set comprehensions.
Busy(u) == \E s \in Slots : run[s].pc \in AtWork /\ run[s].uid = u
Stored(u) == \E i \in DOMAIN rows : rows[i].uid = u

LEMMA Reading ==
  /\ \A u : u \in Done <=> Archived(u)
  /\ \A u : u \in Taken <=> Busy(u) /\ ~Archived(u)
  /\ \A u : u \in Waiting <=> Stored(u) /\ ~Archived(u) /\ ~Busy(u)
<1>1. \A u : u \in Done <=> Archived(u)
  BY DEF Done, Archived
<1>2. \A u : u \in Taken <=> Busy(u) /\ ~Archived(u)
  BY <1>1 DEF Taken, Busy, AtWork
<1>3. \A u : u \in Waiting <=> Stored(u) /\ ~Archived(u) /\ ~Busy(u)
  BY <1>1, <1>2 DEF Waiting, Stored
<1> QED BY <1>1, <1>2, <1>3

LEMMA ReadingNext ==
  /\ \A u : u \in Done' <=> Archived(u)'
  /\ \A u : u \in Taken' <=> Busy(u)' /\ ~Archived(u)'
  /\ \A u : u \in Waiting' <=> Stored(u)' /\ ~Archived(u)' /\ ~Busy(u)'
<1>1. \A u : u \in Done' <=> Archived(u)'
  BY DEF Done, Archived
<1>2. \A u : u \in Taken' <=> Busy(u)' /\ ~Archived(u)'
  BY <1>1 DEF Taken, Busy, AtWork
<1>3. \A u : u \in Waiting' <=> Stored(u)' /\ ~Archived(u)' /\ ~Busy(u)'
  BY <1>1, <1>2 DEF Waiting, Stored
<1> QED BY <1>1, <1>2, <1>3

\* A step that changes none of the three readings is a stutter of the queue.
LEMMA Stutters ==
  ASSUME \A u : Stored(u)' <=> Stored(u),
         \A u : Archived(u)' <=> Archived(u),
         \A u : Busy(u)' <=> Busy(u)
  PROVE  UNCHANGED Promise!queue
<1>1. Done' = Done /\ Taken' = Taken /\ Waiting' = Waiting
  BY Reading, ReadingNext
<1> QED BY <1>1 DEF Promise!queue

\* Handlers that end with nothing on record give their messages back.
LEMMA GivesBack ==
  ASSUME Inv, \A u : Stored(u)' <=> Stored(u), \A u : Archived(u)' <=> Archived(u),
         \A u : Busy(u)' => Busy(u)
  PROVE  [Promise!Next]_(Promise!queue)
<1> DEFINE S == Taken \ Taken'
<1>1. \A u : Busy(u) => Stored(u)
  BY DEF Busy, Stored, AtWork, Inv, Own, HandlerOwnsRow, Live
<1>2. Done' = Done
  BY Reading, ReadingNext
<1>3. S \subseteq Taken /\ Taken' = Taken \ S
  BY Reading, ReadingNext
<1>4. Waiting' = Waiting \cup S
  BY <1>1, Reading, ReadingNext
<1>5. Promise!Abandon(S)
  BY <1>2, <1>3, <1>4 DEF Promise!Abandon
<1> QED BY <1>3, <1>5 DEF Promise!Next

LEMMA Accepts ==
  ASSUME Inv, NEW b \in Bodies, Enqueue(b), archive' = archive,
         \A u : Busy(u)' <=> Busy(u)
  PROVE  Promise!Next
<1> USE BrokerAssumption DEF Inv, Typed
<1> DEFINE u == published + 1
<1>1. PICK n \in RowId :
           /\ DOMAIN rows' = DOMAIN rows \cup {n} /\ n \notin DOMAIN rows
           /\ \A i \in DOMAIN rows : rows'[i] = rows[i]
           /\ rows'[n].uid = u
  <2>1. PICK n \in RowId :
           /\ \A i \in DOMAIN rows : i < n
           /\ DOMAIN rows' = DOMAIN rows \cup {n}
           /\ \A i \in DOMAIN rows : rows'[i] = rows[i]
           /\ rows'[n] = [uid |-> published + 1, body |-> b, age |-> Never, wait |-> 0]
    BY EnqueueRow
  <2>2. n \notin DOMAIN rows
    BY <2>1 DEF TypeInvariant, RowId
  <2> QED BY <2>1, <2>2
<1>2. u \in Uid /\ published \in Nat
  BY DEF Enqueue, TypeInvariant
<1>3. ~Stored(u)
  BY <1>2 DEF Stored, Own, TypeInvariant, Row
<1>4. ~Archived(u)
  BY <1>2 DEF Archived, Own
<1>5. ~Busy(u)
  BY <1>3 DEF Busy, Stored, AtWork, Own, HandlerOwnsRow, Live
<1> HIDE DEF u
<1>6. \A v : Stored(v)' <=> Stored(v) \/ v = u
  BY <1>1 DEF Stored
<1>7. \A v : Archived(v)' <=> Archived(v)
  BY DEF Archived
<1>8. Done' = Done /\ Taken' = Taken
  BY <1>7, Reading, ReadingNext
<1>9. Waiting' = Waiting \cup {u} /\ u \notin Waiting \cup Taken \cup Done
  BY <1>3, <1>4, <1>5, <1>6, <1>7, Reading, ReadingNext
<1> QED BY <1>2, <1>8, <1>9 DEF Promise!Next, Promise!Accept

\* A handler starts on a due row: nobody else can be at work on that message.
LEMMA Takes ==
  ASSUME Inv, NEW m \in poller.batch, Claim(m)
  PROVE  [Promise!Next]_(Promise!queue)
<1> USE BrokerAssumption DEF Inv, Typed
<1> DEFINE u == m.uid
<1>1. PICK s \in Slots : run[s] = Idle /\ run' = [run EXCEPT ![s] = Started(m)]
  BY DEF Claim, FirstFree, Free
<1>2. /\ m.id \in DOMAIN rows /\ rows[m.id].uid = u /\ rows[m.id].age = Never
      /\ run \in [Slots -> Handler \cup {Idle}]
  BY DEF Own, HandlerOwnsRow, TypeInvariant
<1>3. Stored(u) /\ u \in Uid
  BY <1>2 DEF Stored, TypeInvariant, Row
<1>4. ~Busy(u)
  <2> SUFFICES ASSUME NEW r \in Slots, run[r].pc \in AtWork, run[r].uid = u
               PROVE  FALSE
    BY DEF Busy
  <2>1. /\ run[r].id \in DOMAIN rows /\ rows[run[r].id].uid = u
        /\ rows[run[r].id].age <= StartExpire
    BY DEF AtWork, Live, Own, HandlerOwnsRow
  <2>2. run[r].id = m.id
    <3>1. run[r].id \in Nat /\ m.id \in Nat /\ u \in Nat
      BY <1>2, <1>3, <2>1 DEF TypeInvariant, RowId
    <3>2. rows[run[r].id].uid = rows[m.id].uid /\ rows[m.id].uid \in Nat
      BY <1>2, <2>1, <3>1
    <3>3. ~(run[r].id < m.id) /\ ~(m.id < run[r].id)
      BY <1>2, <2>1, <3>2 DEF Own, IdsFollowPublication
    <3> QED BY <3>1, <3>3
  <2> QED BY <1>2, <2>1, <2>2 DEF Never
<1>5. run'[s].pc = "consume" /\ run'[s].uid = u /\ \A r \in Slots \ {s} : run'[r] = run[r]
  BY <1>1, <1>2 DEF Started
<1>6. \A v : Busy(v)' <=> Busy(v) \/ v = u
  BY <1>1, <1>5 DEF Busy, AtWork, Idle
<1>7. \A v : Stored(v)' <=> Stored(v)
  <2>1. DOMAIN rows' = DOMAIN rows /\ \A i \in DOMAIN rows : rows'[i].uid = rows[i].uid
    BY <1>2 DEF Claim, TypeInvariant, Row
  <2> QED BY <2>1 DEF Stored
<1>8. \A v : Archived(v)' <=> Archived(v)
  BY DEF Claim, Archived
<1> HIDE DEF u
<1>9. CASE Archived(u)
  <2>1. Done' = Done /\ Taken' = Taken /\ Waiting' = Waiting
    BY <1>6, <1>7, <1>8, <1>9, Reading, ReadingNext
  <2> QED BY <2>1 DEF Promise!queue
<1>10. CASE ~Archived(u)
  <2>1. Done' = Done /\ Taken' = Taken \cup {u} /\ Waiting' = Waiting \ {u} /\ u \in Waiting
    BY <1>3, <1>4, <1>6, <1>7, <1>8, <1>10, Reading, ReadingNext
  <2> QED BY <1>3, <2>1 DEF Promise!Next, Promise!Take
<1> QED BY <1>9, <1>10

\* The outcome of an attempt is put on record.
LEMMA Finishes ==
  ASSUME Inv, NEW s \in Slots, Archive(s)
  PROVE  [Promise!Next]_(Promise!queue)
<1> USE BrokerAssumption DEF Inv, Typed
<1> DEFINE u == run[s].uid
<1>1. run[s] \in Handler /\ run \in [Slots -> Handler \cup {Idle}]
  BY HandlerPc DEF Archive, TypeInvariant
<1>2. Busy(u) /\ u \in Uid
  BY <1>1 DEF Busy, Archive, AtWork, Handler
<1>3. /\ run'[s].pc = "delete"
      /\ \A r \in Slots \ {s} : run'[r] = run[r]
  BY <1>1 DEF Archive
<1>4. \A v : v # u => (Busy(v)' <=> Busy(v))
  BY <1>3 DEF Busy, AtWork
<1>5. \A v : Stored(v)' <=> Stored(v)
  BY DEF Archive, Stored
<1>6. \A v : Archived(v)' <=> Archived(v) \/ v = u
  <2> DEFINE outcome == [uid |-> u, body |-> run[s].body, out |-> run[s].out]
  <2>1. archive' = archive \cup {outcome} /\ outcome.uid = u
    BY DEF Archive
  <2> HIDE DEF outcome, u
  <2> QED BY <2>1 DEF Archived
<1> HIDE DEF u
<1>7. CASE Archived(u)
  <2>1. Done' = Done /\ Taken' = Taken /\ Waiting' = Waiting
    BY <1>4, <1>5, <1>6, <1>7, Reading, ReadingNext
  <2> QED BY <2>1 DEF Promise!queue
<1>8. CASE ~Archived(u)
  <2>1. Done' = Done \cup {u} /\ Taken' = Taken \ {u} /\ Waiting' = Waiting /\ u \in Taken
    BY <1>2, <1>4, <1>5, <1>6, <1>8, Reading, ReadingNext
  <2> QED BY <1>2, <2>1 DEF Promise!Next, Promise!Finish
<1> QED BY <1>7, <1>8

LEMMA PromiseInit == Init => Promise!Init
<1> SUFFICES ASSUME Init PROVE Promise!Init
  OBVIOUS
<1>1. \A u : ~Archived(u) /\ ~Stored(u) /\ ~Busy(u)
  BY DEF Init, Archived, Stored, Busy, AtWork, Idle
<1>2. Done = {} /\ Taken = {} /\ Waiting = {}
  BY <1>1, Reading
<1> QED BY <1>2 DEF Promise!Init

\* The handler's own steps, its end aside.
LEMMA HandlerKeeps ==
  ASSUME Inv, NEW s \in Slots, HandlerStep(s) \/ HandlerFails(s)
  PROVE  [Promise!Next]_(Promise!queue)
<1> USE BrokerAssumption DEF Inv, Typed
<1>1. run[s] \in Handler /\ run \in [Slots -> Handler \cup {Idle}]
  BY HandlerPc DEF TypeInvariant, HandlerStep, HandlerFails, Consume, PublishFollowUp, Retry, Archive,
     Delete, Release, FollowUpRejected, FollowUpFails, SettleFails, DeleteFails
<1>2. \A r \in Slots \ {s} : run'[r] = run[r]
  BY <1>1 DEF HandlerStep, HandlerFails, Consume, PublishFollowUp, Retry, Archive, Delete, Release,
     FollowUpRejected, FollowUpFails, SettleFails, DeleteFails, NextFollowUp
<1>3. ASSUME run[s].pc \in AtWork, run'[s].pc \in AtWork, run'[s].uid = run[s].uid
      PROVE  \A u : Busy(u)' <=> Busy(u)
  BY <1>2, <1>3 DEF Busy
<1>4. ASSUME run'[s].pc \notin AtWork
      PROVE  \A u : Busy(u)' => Busy(u)
  BY <1>2, <1>4 DEF Busy
<1>5. ASSUME rows' = rows, archive' = archive
      PROVE  \A u : (Stored(u)' <=> Stored(u)) /\ (Archived(u)' <=> Archived(u))
  BY <1>5 DEF Stored, Archived
<1>6. ASSUME NEW out \in Outcomes, Consume(s, out) PROVE UNCHANGED Promise!queue
  <2>1. /\ run[s].pc \in AtWork /\ run'[s].pc \in AtWork /\ run'[s].uid = run[s].uid
        /\ rows' = rows /\ archive' = archive
    BY <1>1, <1>6 DEF Consume, AtWork, Handler
  <2> QED BY <1>3, <1>5, <2>1, Stutters
<1>7. ASSUME run[s].pc = "publish", NextFollowUp(s)
      PROVE  run[s].pc \in AtWork /\ run'[s].pc \in AtWork /\ run'[s].uid = run[s].uid
  BY <1>1, <1>7 DEF NextFollowUp, AtWork, Handler
<1>8. CASE PublishFollowUp(s)
  <2>1. OnSuccess[run[s].body] \in Seq(Bodies)
    BY <1>1 DEF Handler
  <2>2. run[s].next \in DOMAIN OnSuccess[run[s].body]
    BY <1>8 DEF PublishFollowUp, LoopInRange
  <2>3. OnSuccess[run[s].body][run[s].next] \in Bodies
    BY <2>1, <2>2
  <2> QED BY <1>3, <1>7, <1>8, <2>3, Accepts DEF PublishFollowUp
<1>9. CASE FollowUpRejected(s) \/ FollowUpFails(s)
  BY <1>3, <1>5, <1>7, <1>9, Stutters DEF FollowUpRejected, FollowUpFails
<1>10. CASE Retry(s)
  <2>1. run'[s].pc \notin AtWork
    BY <1>1, <1>10 DEF Retry, AtWork
  <2>2. \A u : Stored(u)' <=> Stored(u)
    <3>1. run[s].id \in DOMAIN rows /\ rows[run[s].id].uid = run[s].uid
      BY <1>10 DEF Retry, Live, Own, HandlerOwnsRow
    <3>2. DOMAIN rows' = DOMAIN rows /\ \A i \in DOMAIN rows : rows'[i].uid = rows[i].uid
      BY <1>10, <3>1 DEF Retry
    <3> QED BY <3>2 DEF Stored
  <2>3. \A u : Archived(u)' <=> Archived(u)
    BY <1>10 DEF Retry, Archived
  <2> QED BY <1>4, <2>1, <2>2, <2>3, GivesBack
<1>11. CASE SettleFails(s)
  <2>1. run'[s].pc \notin AtWork /\ rows' = rows /\ archive' = archive
    BY <1>1, <1>11 DEF SettleFails, AtWork
  <2> QED BY <1>4, <1>5, <2>1, GivesBack
<1>12. CASE DeleteFails(s) \/ Release(s)
  <2>1. run'[s].pc \notin AtWork /\ rows' = rows /\ archive' = archive
    <3>1. CASE DeleteFails(s)
      BY <1>1, <3>1 DEF DeleteFails, AtWork
    <3>2. CASE Release(s)
      BY <1>1, <3>2 DEF Release, AtWork, Idle
    <3> QED BY <1>12, <3>1, <3>2
  <2>2. \A u : Stored(u)' <=> Stored(u)
    BY <1>5, <2>1
  <2>3. \A u : Archived(u)' <=> Archived(u)
    BY <1>5, <2>1
  <2>4. \A u : Busy(u)' => Busy(u)
    BY <1>4, <2>1
  <2> QED BY <2>2, <2>3, <2>4, GivesBack
<1>13. CASE Delete(s)
  <2>1. /\ run[s].id \in DOMAIN rows /\ rows[run[s].id].uid = run[s].uid
        /\ Archived(run[s].uid)
    BY <1>13 DEF Delete, Live, Own, HandlerOwnsRow
  <2>2. \A u : Archived(u)' <=> Archived(u)
    BY <1>13 DEF Delete, Archived
  <2>3. \A u : ~Archived(u) => (Stored(u)' <=> Stored(u))
    <3>1. /\ DOMAIN rows' = DOMAIN rows \ {run[s].id}
          /\ \A i \in DOMAIN rows' : rows'[i] = rows[i]
      BY <1>13 DEF Delete, Remove
    <3> QED BY <2>1, <3>1 DEF Stored
  <2>4. run[s].pc \notin AtWork /\ run'[s].pc \notin AtWork
    BY <1>1, <1>13 DEF Delete, AtWork
  <2>5. \A u : Busy(u)' <=> Busy(u)
    BY <1>2, <2>4 DEF Busy
  <2>6. Done' = Done /\ Taken' = Taken /\ Waiting' = Waiting
    BY <2>2, <2>3, <2>5, Reading, ReadingNext
  <2> QED BY <2>6 DEF Promise!queue
<1> QED BY <1>6, <1>8, <1>9, <1>10, <1>11, <1>12, <1>13, Finishes DEF HandlerStep, HandlerFails

LEMMA PromiseStep ==
  ASSUME Inv, [Next]_vars
  PROVE  [Promise!Next]_(Promise!queue)
<1> USE BrokerAssumption DEF Inv, Typed
<1>1. ASSUME rows' = rows, archive' = archive, run' = run
      PROVE  UNCHANGED Promise!queue
  BY <1>1, Stutters DEF Stored, Archived, Busy
<1>2. ASSUME NEW b \in Bodies, Publish(b) PROVE Promise!Next
  BY <1>2, Accepts DEF Publish, Busy
<1>3. CASE Poll \/ PollFails \/ TakeToken \/ FinishTopic \/ UNCHANGED vars
  BY <1>1, <1>3 DEF Poll, PollFails, SelectFails, ClaimFails, TakeToken, FinishTopic, vars
<1>4. ASSUME NEW t \in Topics, SkipTopic(t) \/ SelectDue(t) PROVE UNCHANGED Promise!queue
  BY <1>1, <1>4 DEF SkipTopic, SelectDue
<1>5. ASSUME NEW m \in poller.batch, ClaimGone(m) PROVE UNCHANGED Promise!queue
  BY <1>1, <1>5 DEF ClaimGone
<1>6. CASE Tick
  <2>1. DOMAIN rows' = DOMAIN rows /\ \A i \in DOMAIN rows : rows'[i].uid = rows[i].uid
    BY <1>6, TickRows
  <2> QED BY <1>6, <2>1, Stutters DEF Stored, Archived, Busy, Tick
<1>7. CASE Crash
  <2>1. \A u : ~Busy(u)'
    BY <1>7 DEF Crash, Busy, AtWork, Idle
  <2> QED BY <1>7, <2>1, GivesBack DEF Crash, Stored, Archived
<1> QED BY <1>2, <1>3, <1>4, <1>5, <1>6, <1>7, Takes, HandlerKeeps DEF Next, PollStep

\* The tables, the poller and the handlers together are a durable work queue: every
\* message is waiting, taken or done, leaves "waiting" only for a handler and leaves a
\* handler only with its outcome on record or back to "waiting".
THEOREM PromiseKept == ASSUME Timely PROVE Spec => KeepsPromise
<1>1. Init => Promise!Init
  BY PromiseInit
<1>2. Inv /\ [Next]_vars => [Promise!Next]_(Promise!queue)
  BY PromiseStep
<1> QED BY <1>1, <1>2, Owned, PTL DEF Spec, KeepsPromise, Promise!SafeSpec

=============================================================================

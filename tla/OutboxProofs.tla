---------------------------- MODULE OutboxProofs ----------------------------
(***************************************************************************)
(* Proofs about Outbox, for any number of events, endpoints, dispatchers,  *)
(* attempts and faults.                                                    *)
(***************************************************************************)
EXTENDS Outbox, TLAPS

-----------------------------------------------------------------------------
(* Type correctness                                                        *)

\* What deliver() makes of a row that failed is a row.
LEMMA FailedType ==
    ASSUME NEW row \in Delivery, NEW n \in Nat
    PROVE  Failed(row, n) \in Delivery
<1>1. backoff_for(n) \in Nat
  BY OutboxAssumption DEF backoff_for
<1> QED BY <1>1 DEF Failed, Delivery

LEMMA Marked ==
    ASSUME NEW row \in Delivery,
           NEW s \in {"none", "pending", "delivering", "delivered", "exhausted"}
    PROVE  /\ [row EXCEPT !.status = s] \in Delivery
           /\ [row EXCEPT !.status = s].status = s
           /\ [row EXCEPT !.status = s].attempt_count = row.attempt_count
           /\ [row EXCEPT !.status = s].delay = row.delay
BY DEF Delivery

\* A claimed row is counted before it is posted.
LEMMA Claimed ==
    ASSUME NEW row \in Delivery
    PROVE  LET r == [row EXCEPT !.status = "delivering", !.attempt_count = @ + 1]
           IN  /\ r \in Delivery
               /\ r.status = "delivering"
               /\ r.attempt_count = row.attempt_count + 1
               /\ r.delay = row.delay
<1> DEFINE half == [row EXCEPT !.status = "delivering"]
           r == [half EXCEPT !.attempt_count = row.attempt_count + 1]
<1>1. /\ half \in Delivery /\ half.status = "delivering"
      /\ half.attempt_count = row.attempt_count /\ half.delay = row.delay
  BY Marked
<1>2. r = [row EXCEPT !.status = "delivering", !.attempt_count = @ + 1]
  OBVIOUS
<1> HIDE DEF half
<1>3. /\ r \in Delivery /\ r.status = "delivering"
      /\ r.attempt_count = row.attempt_count + 1 /\ r.delay = row.delay
  BY <1>1 DEF Delivery
<1> QED BY <1>2, <1>3

LEMMA InitType == Init => TypeOK
BY OutboxAssumption DEF Init, TypeOK, Delivery, NoBatch

\* The finished POST of a dispatcher leaves nothing behind.
LEMMA IdleEffect ==
    ASSUME TypeOK, NEW d \in Dispatchers, Idle(d)
    PROVE  /\ sending' \in [Dispatchers -> Rows \cup {None}]
           /\ count' \in [Dispatchers -> Nat]
           /\ answer' \in [Dispatchers -> {"none", "2xx", "error"}]
           /\ \A c \in Dispatchers : sending'[c] = IF c = d THEN None ELSE sending[c]
           /\ \A c \in Dispatchers \ {d} : count'[c] = count[c] /\ answer'[c] = answer[c]
BY DEF TypeOK, Idle

LEMMA NextType == TypeOK /\ [Next]_vars => TypeOK'
<1> SUFFICES ASSUME TypeOK, [Next]_vars PROVE TypeOK'
  OBVIOUS
<1> USE DEF TypeOK, dispatcher, network
<1>1. ASSUME NEW p \in Endpoints, create(p) \/ disable(p) PROVE TypeOK'
  BY <1>1 DEF create, disable
<1>2. ASSUME NEW e \in Events, EmitRead(e) PROVE TypeOK'
  BY <1>2 DEF EmitRead, Live
<1>3. ASSUME NEW e \in Events, EmitCommit(e) PROVE TypeOK'
  <2>1. delivery' \in [Rows -> Delivery]
    BY <1>3, Marked DEF EmitCommit
  <2> QED BY <1>3, <2>1 DEF EmitCommit
<1>4. ASSUME NEW e \in Events, EmitAbort(e) PROVE TypeOK'
  BY <1>4 DEF EmitAbort
<1>5. ASSUME NEW d \in Dispatchers, NEW S \in SUBSET Rows, claim(d, S) PROVE TypeOK'
  <2>1. delivery' \in [Rows -> Delivery]
    BY <1>5, Claimed DEF claim
  <2>2. [x \in Rows |-> IF x \in S THEN delivery[x].attempt_count + 1 ELSE 0] \in [Rows -> Nat]
    BY DEF Delivery
  <2>3. batch' \in [Dispatchers -> [Rows -> Nat]]
    BY <1>5, <2>2 DEF claim
  <2> QED BY <1>5, <2>1, <2>3 DEF claim
<1>6. ASSUME NEW d \in Dispatchers, NEW x \in Rows, Post(d, x) PROVE TypeOK'
  <2>1. batch' \in [Dispatchers -> [Rows -> Nat]]
    BY <1>6 DEF Post
  <2> QED BY <1>6, <2>1 DEF Post
<1>7. ASSUME NEW d \in Dispatchers, Receive(d) PROVE TypeOK'
  BY <1>7 DEF Receive
<1>8. ASSUME NEW d \in Dispatchers, Succeed(d) PROVE TypeOK'
  <2>1. delivery' \in [Rows -> Delivery]
    BY <1>8 DEF Succeed, Delivery
  <2> QED BY <1>8, <2>1, IdleEffect DEF Succeed
<1>9. ASSUME NEW d \in Dispatchers, Fail(d) PROVE TypeOK'
  <2>1. sending[d] \in Rows
    BY <1>9 DEF Fail
  <2>2. Failed(delivery[sending[d]], count[d]) \in Delivery
    BY <2>1, FailedType
  <2>3. delivery' \in [Rows -> Delivery]
    BY <1>9, <2>2 DEF Fail
  <2> QED BY <1>9, <2>3, IdleEffect DEF Fail
<1>10. ASSUME NEW d \in Dispatchers, Fault(d) PROVE TypeOK'
  <2>1. batch' \in [Dispatchers -> [Rows -> Nat]]
    BY <1>10 DEF Fault, NoBatch
  <2> QED BY <1>10, <2>1, IdleEffect, OutboxAssumption DEF Fault
<1>11. CASE UNCHANGED vars
  BY <1>11 DEF vars
<1> QED
  BY <1>1, <1>2, <1>3, <1>4, <1>5, <1>6, <1>7, <1>8, <1>9, <1>10, <1>11 DEF Next

\* Every variable keeps its type. (the CHECK of webhook_deliveries.status)
THEOREM TypeCorrect == Spec => []TypeOK
<1> QED BY InitType, NextType, PTL DEF Spec

-----------------------------------------------------------------------------
(* The invariant: what a dispatcher knows of the rows it holds is current, *)
(* and every row's count is that of its POSTs.                             *)

AloneWith(x) ==
    \A c, d \in Dispatchers : Holds(c, x) /\ Holds(d, x) => c = d

\* The part of the invariant that speaks of one row.
RowInv(x) ==
    /\ RowAddsUp(x)
    /\ \A d \in Dispatchers : HolderIsCurrent(d, x)
    /\ AloneWith(x)

LEMMA InvByRow ==
    ASSUME TypeOK
    PROVE  OutboxInv <=> (\A x \in Rows : RowInv(x)) /\ QueuedByCommit /\ AnswersAreOwn
BY DEF OutboxInv, RowInv, AloneWith, OneHolder, HolderIsCurrent, Holds, TypeOK, Delivery

LEMMA InitInv == Init => OutboxInv
<1> SUFFICES ASSUME Init PROVE OutboxInv
  OBVIOUS
<1>1. \A x \in Rows : RowInv(x)
  BY OutboxAssumption DEF Init, RowInv, RowAddsUp, HolderIsCurrent, AloneWith, Holds, NoBatch
<1>2. QueuedByCommit
  BY DEF Init, QueuedByCommit, Rows
<1>3. AnswersAreOwn
  BY DEF Init, AnswersAreOwn
<1> QED BY <1>1, <1>2, <1>3, InitType, InvByRow

\* Nothing a row's invariant speaks of has changed.
SameRow(x) ==
    /\ delivery'[x] = delivery[x]
    /\ posted'[x] = posted[x]
    /\ x \in accepted => x \in accepted'
    /\ \A d \in Dispatchers : /\ batch'[d][x] \in {0, batch[d][x]}
                              /\ sending'[d] = x => /\ sending[d] = x
                                                    /\ count'[d] = count[d]
                                                    /\ answer'[d] = answer[d]

LEMMA SameRowKeeps ==
    ASSUME TypeOK, NEW x \in Rows, RowInv(x), SameRow(x)
    PROVE  RowInv(x)'
<1>0. \A d \in Dispatchers : batch[d][x] \in Nat
  BY DEF TypeOK
<1>1. RowAddsUp(x)'
  BY DEF RowInv, RowAddsUp, SameRow
<1>2. \A d \in Dispatchers : HolderIsCurrent(d, x)'
  BY <1>0 DEF RowInv, HolderIsCurrent, SameRow
<1>3. AloneWith(x)'
  BY <1>0 DEF RowInv, AloneWith, Holds, SameRow
<1> QED BY <1>1, <1>2, <1>3 DEF RowInv

\* A committed event queues rows that nobody has seen before.
LEMMA EmitCommitKeeps ==
    ASSUME TypeOK, OutboxInv, NEW e \in Events, EmitCommit(e), NEW x \in Rows
    PROVE  RowInv(x)'
<1>1. RowInv(x)
  BY InvByRow
<1>2. CASE x[1] = e /\ x[2] \in emission[e].seen
  <2>1. delivery[x].status = "none"
    <3>1. x = <<x[1], x[2]>> /\ x[2] \in Endpoints
      BY DEF Rows
    <3> QED BY <1>2, <3>1 DEF OutboxInv, QueuedByCommit, EmitCommit
  <2>2. /\ delivery'[x].status = "pending"
        /\ delivery'[x].attempt_count = 0 /\ delivery'[x].delay = 0
        /\ posted'[x] = 0
    <3>1. delivery'[x] = [delivery[x] EXCEPT !.status = "pending"]
      BY <1>2 DEF EmitCommit
    <3>2. delivery[x].attempt_count = 0 /\ delivery[x].delay = 0 /\ posted'[x] = 0
      BY <1>1, <2>1 DEF RowInv, RowAddsUp, EmitCommit, network
    <3> QED BY <3>1, <3>2, Marked DEF TypeOK
  <2>3. UNCHANGED <<batch, sending>> /\ \A d \in Dispatchers : ~Holds(d, x)
    BY <1>1, <2>1 DEF RowInv, HolderIsCurrent, Holds, EmitCommit, dispatcher
  <2>4. RowAddsUp(x)'
    BY <2>2, OutboxAssumption DEF RowAddsUp
  <2> QED BY <2>3, <2>4 DEF RowInv, HolderIsCurrent, AloneWith, Holds
<1>3. CASE ~(x[1] = e /\ x[2] \in emission[e].seen)
  <2>1. SameRow(x)
    BY <1>3 DEF EmitCommit, SameRow, dispatcher, network
  <2> QED BY <1>1, <2>1, SameRowKeeps
<1> QED BY <1>2, <1>3

\* A pending row has no holder, so the dispatcher that claims it is the only one.
LEMMA ClaimKeeps ==
    ASSUME TypeOK, OutboxInv, NEW d \in Dispatchers, NEW S \in SUBSET Rows, claim(d, S),
           NEW x \in Rows
    PROVE  RowInv(x)'
<1>1. RowInv(x)
  BY InvByRow
<1>2. /\ \A c \in Dispatchers \ {d} : batch'[c] = batch[c]
      /\ batch'[d][x] = IF x \in S THEN delivery[x].attempt_count + 1 ELSE 0
      /\ UNCHANGED <<sending, count, answer, posted, accepted>>
      /\ sending[d] = None
      /\ batch \in [Dispatchers -> [Rows -> Nat]]
  BY DEF claim, network, TypeOK
<1>3. CASE x \in S
  <2>1. delivery[x].status = "pending"
    BY <1>3 DEF claim, Pending
  <2>2. /\ delivery'[x].status = "delivering"
        /\ delivery'[x].attempt_count = delivery[x].attempt_count + 1
    BY <1>3, Claimed DEF claim, TypeOK
  <2>3. \A c \in Dispatchers : ~Holds(c, x)
    BY <1>1, <2>1 DEF RowInv, HolderIsCurrent, Holds
  <2>4. /\ delivery[x].attempt_count \in Nat /\ delivery[x].attempt_count < MaxAttempts
        /\ posted[x] = delivery[x].attempt_count
    BY <1>1, <2>1 DEF RowInv, RowAddsUp, TypeOK, Delivery
  <2>5. RowAddsUp(x)'
    BY <2>2, <2>4, OutboxAssumption DEF RowAddsUp
  <2>6. \A c \in Dispatchers : sending'[c] # x /\ (c # d => ~(batch'[c][x] > 0))
    BY <1>2, <2>3 DEF Holds
  <2>7. \A c \in Dispatchers : HolderIsCurrent(c, x)'
    BY <1>2, <1>3, <2>2, <2>4, <2>6 DEF HolderIsCurrent
  <2>8. AloneWith(x)'
    BY <2>6 DEF AloneWith, Holds
  <2> QED BY <2>5, <2>7, <2>8 DEF RowInv
<1>4. CASE x \notin S
  <2>1. delivery'[x] = delivery[x]
    BY <1>4 DEF claim
  <2>2. SameRow(x)
    BY <1>2, <1>4, <2>1 DEF SameRow
  <2> QED BY <1>1, <2>2, SameRowKeeps
<1> QED BY <1>3, <1>4

LEMMA PostKeeps ==
    ASSUME TypeOK, OutboxInv, NEW d \in Dispatchers, NEW y \in Rows, Post(d, y),
           NEW x \in Rows
    PROVE  RowInv(x)'
<1>1. RowInv(x)
  BY InvByRow
<1>2. /\ batch \in [Dispatchers -> [Rows -> Nat]]
      /\ \A c \in Dispatchers, z \in Rows :
            batch'[c][z] = IF c = d /\ z = y THEN 0 ELSE batch[c][z]
      /\ \A c \in Dispatchers :
            /\ sending'[c] = IF c = d THEN y ELSE sending[c]
            /\ count'[c] = IF c = d THEN batch[d][y] ELSE count[c]
      /\ posted'[x] = IF x = y THEN posted[x] + 1 ELSE posted[x]
      /\ UNCHANGED <<delivery, answer, accepted>>
      /\ sending[d] = None /\ batch[d][y] > 0 /\ answer[d] = "none"
  BY DEF Post, TypeOK, OutboxInv, AnswersAreOwn
<1>3. CASE x = y
  <2>1. /\ Holds(d, x) /\ \A c \in Dispatchers : Holds(c, x) => c = d
        /\ delivery[x].status = "delivering"
        /\ batch[d][x] = delivery[x].attempt_count
        /\ posted[x] + 1 = delivery[x].attempt_count
    BY <1>1, <1>2, <1>3 DEF RowInv, HolderIsCurrent, AloneWith, Holds
  <2>2. RowAddsUp(x)'
    BY <1>1, <1>2, <2>1 DEF RowInv, RowAddsUp
  <2>3. \A c \in Dispatchers : ~(batch'[c][x] > 0) /\ (c # d => sending'[c] # x)
    BY <1>2, <1>3, <2>1 DEF Holds
  <2>4. \A c \in Dispatchers : HolderIsCurrent(c, x)'
    BY <1>2, <1>3, <2>1, <2>3 DEF HolderIsCurrent
  <2>5. AloneWith(x)'
    BY <2>3 DEF AloneWith, Holds
  <2> QED BY <2>2, <2>4, <2>5 DEF RowInv
<1>4. CASE x # y
  <2>1. SameRow(x)
    BY <1>2, <1>4 DEF SameRow
  <2> QED BY <1>1, <2>1, SameRowKeeps
<1> QED BY <1>3, <1>4

LEMMA ReceiveKeeps ==
    ASSUME TypeOK, OutboxInv, NEW d \in Dispatchers, Receive(d), NEW x \in Rows
    PROVE  RowInv(x)'
<1>1. RowInv(x)
  BY InvByRow
<1>2. /\ UNCHANGED <<delivery, batch, sending, count, posted>>
      /\ \A c \in Dispatchers \ {d} : answer'[c] = answer[c]
      /\ x \in accepted => x \in accepted'
      /\ answer'[d] = "2xx" => sending[d] \in accepted'
  BY DEF Receive, dispatcher, TypeOK
<1>3. RowAddsUp(x)' /\ AloneWith(x)'
  BY <1>1, <1>2 DEF RowInv, RowAddsUp, AloneWith, Holds
<1>4. \A c \in Dispatchers : HolderIsCurrent(c, x)'
  BY <1>1, <1>2 DEF RowInv, HolderIsCurrent
<1> QED BY <1>3, <1>4 DEF RowInv

\* What is left of the row a dispatcher has recorded the outcome of.
Released(d, x, row) ==
    /\ sending[d] = x
    /\ delivery' = [delivery EXCEPT ![x] = row]
    /\ Idle(d)
    /\ UNCHANGED <<batch, posted, accepted>>

\* The row has lost its only holder, so any settled or pending row that adds up
\* will do.
LEMMA ReleasedKeeps ==
    ASSUME TypeOK, OutboxInv, NEW d \in Dispatchers, NEW y \in Rows, NEW row,
           Released(d, y, row), RowAddsUp(y)',
           NEW x \in Rows
    PROVE  RowInv(x)'
<1>1. RowInv(x)
  BY InvByRow
<1>2. /\ sending[d] = y
      /\ \A z \in Rows \ {y} : delivery'[z] = delivery[z]
      /\ \A c \in Dispatchers : sending'[c] = IF c = d THEN None ELSE sending[c]
      /\ \A c \in Dispatchers \ {d} : count'[c] = count[c] /\ answer'[c] = answer[c]
      /\ UNCHANGED <<batch, posted, accepted>>
      /\ None # x
      /\ batch \in [Dispatchers -> [Rows -> Nat]]
  BY IdleEffect, OutboxAssumption DEF Released, TypeOK
<1>3. CASE x = y
  <2>1. \A c \in Dispatchers : Holds(c, x) => c = d /\ ~(batch[c][x] > 0)
    BY <1>1, <1>2, <1>3 DEF RowInv, AloneWith, HolderIsCurrent, Holds
  <2>2. \A c \in Dispatchers : ~(batch'[c][x] > 0) /\ sending'[c] # x
    BY <1>2, <2>1 DEF Holds
  <2> QED BY <1>3, <2>2 DEF RowInv, HolderIsCurrent, AloneWith, Holds
<1>4. CASE x # y
  <2>1. SameRow(x)
    BY <1>2, <1>4 DEF SameRow
  <2> QED BY <1>1, <2>1, SameRowKeeps
<1> QED BY <1>3, <1>4

LEMMA SucceedKeeps ==
    ASSUME TypeOK, OutboxInv, NEW d \in Dispatchers, Succeed(d), NEW x \in Rows
    PROVE  RowInv(x)'
<1>0. PICK y : y = sending[d]
  OBVIOUS
<1>1. y \in Rows /\ answer[d] = "2xx"
  BY <1>0 DEF Succeed, TypeOK
<1>2. RowInv(y)
  BY <1>1, InvByRow
<1>3. Released(d, y, [delivery[y] EXCEPT !.status = "delivered"])
  BY <1>0, <1>1 DEF Succeed, Released
<1>4. /\ delivery'[y].status = "delivered"
      /\ delivery'[y].attempt_count = delivery[y].attempt_count
      /\ posted' = posted /\ accepted' = accepted
  BY <1>1, <1>3, Marked DEF Released, TypeOK
<1>5. /\ posted[y] = delivery[y].attempt_count /\ y \in accepted
      /\ delivery[y].attempt_count <= MaxAttempts
  BY <1>0, <1>1, <1>2 DEF RowInv, RowAddsUp, HolderIsCurrent
<1>6. RowAddsUp(y)'
  BY <1>4, <1>5 DEF RowAddsUp
<1> QED BY <1>1, <1>3, <1>6, ReleasedKeeps

LEMMA FailKeeps ==
    ASSUME TypeOK, OutboxInv, NEW d \in Dispatchers, Fail(d), NEW x \in Rows
    PROVE  RowInv(x)'
<1>0. PICK y, row, n :
        y = sending[d] /\ row = delivery[y] /\ n = row.attempt_count
  OBVIOUS
<1>1. y \in Rows /\ row \in Delivery
  BY <1>0 DEF Fail, TypeOK
<1>2. RowInv(y)
  BY <1>1, InvByRow
<1>3. /\ count[d] = n /\ posted[y] = n /\ row.status = "delivering"
      /\ n \in Nat /\ n > 0 /\ n <= MaxAttempts
  BY <1>0, <1>1, <1>2 DEF RowInv, RowAddsUp, HolderIsCurrent, Delivery
<1>4. Released(d, y, Failed(row, n))
  BY <1>0, <1>1, <1>3 DEF Fail, Released
<1>5. delivery'[y] = Failed(row, n) /\ posted' = posted
  BY <1>1, <1>4 DEF Released, TypeOK
<1>6. CASE n >= MaxAttempts
  <2>1. Failed(row, n) = [row EXCEPT !.status = "exhausted"]
    BY <1>6 DEF Failed
  <2>2. /\ delivery'[y].status = "exhausted" /\ delivery'[y].attempt_count = n
        /\ n = MaxAttempts /\ posted'[y] = n
    BY <1>0, <1>1, <1>3, <1>5, <1>6, <2>1, Marked, OutboxAssumption
  <2>3. RowAddsUp(y)'
    BY <2>2, OutboxAssumption DEF RowAddsUp
  <2> QED BY <1>1, <1>4, <2>3, ReleasedKeeps
<1>7. CASE ~(n >= MaxAttempts)
  <2>1. backoff_for(n) = n
    BY <1>3, <1>7, OutboxAssumption DEF backoff_for
  <2>2. Failed(row, n) = [row EXCEPT !.status = "pending", !.delay = n]
    BY <1>7, <2>1 DEF Failed
  <2>3. /\ delivery'[y].status = "pending" /\ delivery'[y].attempt_count = n
        /\ delivery'[y].delay = n /\ posted'[y] = n
    BY <1>0, <1>1, <1>3, <1>5, <2>2 DEF Delivery
  <2>4. RowAddsUp(y)'
    BY <1>3, <1>7, <2>3, OutboxAssumption DEF RowAddsUp
  <2> QED BY <1>1, <1>4, <2>4, ReleasedKeeps
<1> QED BY <1>6, <1>7

LEMMA FaultKeeps ==
    ASSUME TypeOK, OutboxInv, NEW d \in Dispatchers, Fault(d), NEW x \in Rows
    PROVE  RowInv(x)'
<1>1. RowInv(x)
  BY InvByRow
<1>2. \A c \in Dispatchers : batch'[c][x] \in {0, batch[c][x]}
  BY DEF Fault, NoBatch, TypeOK
<1>3. \A c \in Dispatchers : sending'[c] = x =>
          sending[c] = x /\ count'[c] = count[c] /\ answer'[c] = answer[c]
  BY IdleEffect, OutboxAssumption DEF Fault
<1>4. SameRow(x)
  BY <1>2, <1>3 DEF Fault, SameRow
<1> QED BY <1>1, <1>4, SameRowKeeps

LEMMA RowsKeep == TypeOK /\ OutboxInv /\ [Next]_vars => \A x \in Rows : RowInv(x)'
<1> SUFFICES ASSUME TypeOK, OutboxInv, [Next]_vars, NEW x \in Rows PROVE RowInv(x)'
  OBVIOUS
<1>1. ASSUME UNCHANGED <<delivery, dispatcher, network>> PROVE RowInv(x)'
  <2>1. SameRow(x)
    BY <1>1 DEF SameRow, dispatcher, network
  <2> QED BY <2>1, InvByRow, SameRowKeeps
<1>2. ASSUME NEW p \in Endpoints, create(p) \/ disable(p) PROVE RowInv(x)'
  BY <1>1, <1>2 DEF create, disable
<1>3. ASSUME NEW e \in Events, EmitRead(e) \/ EmitAbort(e) PROVE RowInv(x)'
  BY <1>1, <1>3 DEF EmitRead, EmitAbort
<1>4. CASE UNCHANGED vars
  BY <1>1, <1>4 DEF vars
<1> QED
  BY <1>2, <1>3, <1>4, EmitCommitKeeps, ClaimKeeps, PostKeeps, ReceiveKeeps,
     SucceedKeeps, FailKeeps, FaultKeeps DEF Next

LEMMA AnswersKeep == TypeOK /\ OutboxInv /\ [Next]_vars => AnswersAreOwn'
<1> SUFFICES ASSUME TypeOK, OutboxInv, [Next]_vars, NEW c \in Dispatchers, sending'[c] = None
             PROVE  answer'[c] = "none"
  BY DEF AnswersAreOwn
<1>0. sending[c] = None => answer[c] = "none"
  BY DEF OutboxInv, AnswersAreOwn
<1>1. UNCHANGED <<sending, answer>> => answer'[c] = "none"
  BY <1>0
<1>2. ASSUME NEW d \in Dispatchers, Idle(d) PROVE answer'[c] = "none"
  BY <1>0, <1>2 DEF Idle, TypeOK
<1>3. ASSUME NEW d \in Dispatchers, NEW x \in Rows, Post(d, x) PROVE answer'[c] = "none"
  BY <1>0, <1>3, OutboxAssumption DEF Post, TypeOK
<1>4. ASSUME NEW d \in Dispatchers, Receive(d) PROVE answer'[c] = "none"
  BY <1>0, <1>4 DEF Receive, dispatcher, TypeOK
<1> QED
  BY <1>1, <1>2, <1>3, <1>4 DEF Next, vars, dispatcher, network, create, disable, EmitRead,
     EmitCommit, EmitAbort, claim, Succeed, Fail, Fault

-----------------------------------------------------------------------------
(* How a row may change: the steps of OutboxRow, the claim and the retry.  *)

Same(x) ==
    delivery'[x].status = delivery[x].status
    /\ delivery'[x].attempt_count = delivery[x].attempt_count

Moved(x, from, to) ==
    /\ delivery[x].status = from /\ delivery'[x].status = to
    /\ delivery'[x].attempt_count = delivery[x].attempt_count

RowStep(x) ==
    \/ Same(x)
    \/ /\ Moved(x, "none", "pending")
       /\ emission[x[1]].tx = "open" /\ x[2] \in emission[x[1]].seen
       /\ EmitCommit(x[1])
    \/ /\ delivery[x].status = "pending" /\ delivery'[x].status = "delivering"
       /\ delivery[x].attempt_count < MaxAttempts
       /\ delivery'[x].attempt_count = delivery[x].attempt_count + 1
    \/ Moved(x, "delivering", "delivered") /\ delivery[x].attempt_count > 0
    \/ Moved(x, "delivering", "exhausted") /\ delivery[x].attempt_count = MaxAttempts
    \/ Moved(x, "delivering", "pending")

LEMMA NextRowStep ==
    ASSUME TypeOK, OutboxInv, [Next]_vars, NEW x \in Rows
    PROVE  RowStep(x)
<1>0. RowInv(x) /\ delivery[x] \in Delivery
  BY InvByRow DEF TypeOK
<1>1. delivery' = delivery => RowStep(x)
  BY DEF RowStep, Same
<1>2. ASSUME NEW e \in Events, EmitCommit(e) PROVE RowStep(x)
  <2>1. CASE x[1] = e /\ x[2] \in emission[e].seen
    <3>1. x = <<e, x[2]>> /\ x[2] \in Endpoints
      BY <2>1 DEF Rows
    <3>2. delivery[x].status = "none"
      BY <1>2, <3>1 DEF OutboxInv, QueuedByCommit, EmitCommit
    <3>3. delivery'[x] = [delivery[x] EXCEPT !.status = "pending"]
      BY <1>2, <2>1 DEF EmitCommit
    <3>4. Moved(x, "none", "pending")
      BY <1>0, <3>2, <3>3, Marked DEF Moved
    <3> QED BY <1>2, <2>1, <3>4 DEF RowStep, EmitCommit
  <2>2. CASE ~(x[1] = e /\ x[2] \in emission[e].seen)
    BY <1>2, <2>2 DEF EmitCommit, RowStep, Same
  <2> QED BY <2>1, <2>2
<1>3. ASSUME NEW d \in Dispatchers, NEW S \in SUBSET Rows, claim(d, S) PROVE RowStep(x)
  <2>1. CASE x \in S
    <3>1. delivery[x].status = "pending" /\ delivery[x].attempt_count < MaxAttempts
      BY <1>0, <1>3, <2>1 DEF claim, Pending, RowInv, RowAddsUp
    <3>2. /\ delivery'[x].status = "delivering"
          /\ delivery'[x].attempt_count = delivery[x].attempt_count + 1
      BY <1>0, <1>3, <2>1, Claimed DEF claim
    <3> QED BY <3>1, <3>2 DEF RowStep
  <2>2. CASE x \notin S
    BY <1>3, <2>2 DEF claim, RowStep, Same
  <2> QED BY <2>1, <2>2
<1>4. ASSUME NEW d \in Dispatchers, sending[d] \in Rows, sending[d] # x,
             Succeed(d) \/ Fail(d)
      PROVE  RowStep(x)
  BY <1>4 DEF Succeed, Fail, TypeOK, RowStep, Same
<1>5. ASSUME NEW d \in Dispatchers, sending[d] = x
      PROVE  /\ delivery[x].status = "delivering" /\ delivery[x].attempt_count > 0
             /\ delivery[x].attempt_count <= MaxAttempts
             /\ count[d] = delivery[x].attempt_count
  BY <1>0, <1>5 DEF RowInv, RowAddsUp, HolderIsCurrent
<1>6. ASSUME NEW d \in Dispatchers, Succeed(d), sending[d] = x PROVE RowStep(x)
  <2>1. delivery'[x] = [delivery[x] EXCEPT !.status = "delivered"]
    BY <1>6 DEF Succeed, TypeOK
  <2>2. Moved(x, "delivering", "delivered")
    BY <1>0, <1>5, <1>6, <2>1, Marked DEF Moved
  <2> QED BY <1>5, <1>6, <2>2 DEF RowStep
<1>7. ASSUME NEW d \in Dispatchers, Fail(d), sending[d] = x PROVE RowStep(x)
  <2>1. delivery'[x] = Failed(delivery[x], delivery[x].attempt_count)
    BY <1>5, <1>7 DEF Fail, TypeOK
  <2>2. CASE delivery[x].attempt_count >= MaxAttempts
    <3>1. delivery'[x] = [delivery[x] EXCEPT !.status = "exhausted"]
      BY <2>1, <2>2 DEF Failed
    <3>2. Moved(x, "delivering", "exhausted")
      BY <1>0, <1>5, <1>7, <3>1, Marked DEF Moved
    <3>3. delivery[x].attempt_count = MaxAttempts
      BY <1>0, <1>5, <1>7, <2>2, OutboxAssumption DEF Delivery
    <3> QED BY <3>2, <3>3 DEF RowStep
  <2>3. CASE ~(delivery[x].attempt_count >= MaxAttempts)
    <3>1. Moved(x, "delivering", "pending")
      BY <1>0, <1>5, <1>7, <2>1, <2>3 DEF Moved, Failed, Delivery
    <3> QED BY <3>1 DEF RowStep
  <2> QED BY <2>2, <2>3
<1>8. ASSUME NEW d \in Dispatchers, Succeed(d) \/ Fail(d) PROVE RowStep(x)
  <2>1. sending[d] \in Rows
    BY <1>8 DEF Succeed, Fail, TypeOK
  <2> QED BY <1>4, <1>6, <1>7, <1>8, <2>1
<1> QED
  BY <1>1, <1>2, <1>3, <1>8 DEF Next, vars, dispatcher, network, create, disable, EmitRead,
     EmitAbort, Post, Receive, Fault

LEMMA QueuedByCommitKeeps == TypeOK /\ OutboxInv /\ [Next]_vars => QueuedByCommit'
<1> SUFFICES ASSUME TypeOK, OutboxInv, [Next]_vars, NEW e \in Events, NEW p \in Endpoints,
                    emission'[e].tx # "over"
             PROVE  delivery'[<<e, p>>].status = "none"
  BY DEF QueuedByCommit
<1>0. <<e, p>> \in Rows
  BY DEF Rows
<1>1. emission[e].tx # "over"
  BY DEF Next, vars, create, disable, EmitRead, EmitCommit, EmitAbort, claim, Post, Receive,
     Succeed, Fail, Fault, TypeOK
<1>2. delivery[<<e, p>>].status = "none"
  BY <1>1 DEF OutboxInv, QueuedByCommit
<1>3. ~EmitCommit(e)
  BY DEF EmitCommit, TypeOK
<1>4. RowStep(<<e, p>>)
  BY <1>0, NextRowStep
<1> QED BY <1>2, <1>3, <1>4 DEF RowStep, Same, Moved

LEMMA NextInv == TypeOK /\ OutboxInv /\ [Next]_vars => OutboxInv'
<1> SUFFICES ASSUME TypeOK, OutboxInv, [Next]_vars PROVE OutboxInv'
  OBVIOUS
<1>1. TypeOK'
  BY NextType
<1>2. (\A x \in Rows : RowInv(x))' /\ QueuedByCommit' /\ AnswersAreOwn'
  BY RowsKeep, QueuedByCommitKeeps, AnswersKeep
<1>3. TypeOK' => (OutboxInv' <=>
          (\A x \in Rows : RowInv(x))' /\ QueuedByCommit' /\ AnswersAreOwn')
  BY InvByRow, PTL
<1> QED BY <1>1, <1>2, <1>3

\* The invariant holds of every reachable state: what a dispatcher knows of a
\* row it holds is current, although its UPDATEs never look.
THEOREM OutboxInvariant == Spec => []OutboxInv
<1> QED BY InitInv, NextInv, TypeCorrect, PTL DEF Spec

\* A row has one holder at most, and is 'delivering' while it has one, however
\* many replicas dispatch. (the claiming UPDATE of outbox.rs, its SKIP LOCKED)
THEOREM RowsHaveOneHolder == Spec => []OneHolder
<1>1. OutboxInv => OneHolder
  BY DEF OutboxInv
<1> QED BY <1>1, OutboxInvariant, PTL

\* attempt_count counts POSTs: a row is given up after MAX_ATTEMPTS of them, no
\* sooner and no later, and delivered only if one was answered 2xx. (deliver())
THEOREM AttemptsArePosts == Spec => []AttemptsAreReal
<1>1. TypeOK /\ OutboxInv => AttemptsAreReal
  BY DEF OutboxInv, AttemptsAreReal, RowAddsUp, HolderIsCurrent, TypeOK, Delivery
<1> QED BY <1>1, TypeCorrect, OutboxInvariant, PTL

\* A retry waits for the delay of the attempt that failed. (backoff_for())
THEOREM ScheduleIsFollowed == Spec => []RetriesFollowSchedule
<1>1. OutboxInv => RetriesFollowSchedule
  BY DEF OutboxInv, RetriesFollowSchedule, RowAddsUp
<1> QED BY <1>1, OutboxInvariant, PTL

-----------------------------------------------------------------------------
(* Each row implements OutboxRow.                                          *)

LEMMA RowStepImplements ==
    ASSUME TypeOK, NEW x \in Rows, RowStep(x)
    PROVE  [Row(x)!Next]_(Row(x)!vars)
<1> USE DEF Row!Next, Row!vars, Moved
<1>1. CASE Same(x)
  BY <1>1 DEF Same
<1>2. CASE Moved(x, "none", "pending")
  BY <1>2 DEF Row!Queue
<1>3. CASE /\ delivery[x].status = "pending" /\ delivery'[x].status = "delivering"
           /\ delivery[x].attempt_count < MaxAttempts
           /\ delivery'[x].attempt_count = delivery[x].attempt_count + 1
  BY <1>3 DEF Row!Attempt
<1>4. CASE Moved(x, "delivering", "delivered") /\ delivery[x].attempt_count > 0
  BY <1>4 DEF Row!Deliver
<1>5. CASE Moved(x, "delivering", "exhausted") /\ delivery[x].attempt_count = MaxAttempts
  BY <1>5 DEF Row!Exhaust
<1>6. CASE Moved(x, "delivering", "pending")
  BY <1>6
<1> QED BY <1>1, <1>2, <1>3, <1>4, <1>5, <1>6 DEF RowStep

\* Seen from outside, every row is tried at most MaxAttempts times and ends as
\* delivered or exhausted, whatever the replicas do. (outbox.rs as a whole)
THEOREM RowIsImplemented == Spec => ImplementsRow
<1>1. Init => \A x \in Rows : Row(x)!Init
  BY DEF Init, Row!Init
<1>2. TypeOK /\ OutboxInv /\ [Next]_vars => [\A x \in Rows : [Row(x)!Next]_(Row(x)!vars)]_vars
  BY NextRowStep, RowStepImplements
<1> QED BY <1>1, <1>2, TypeCorrect, OutboxInvariant, PTL DEF Spec, ImplementsRow

-----------------------------------------------------------------------------
(* What disabling an endpoint does.                                        *)

\* Once an event's transaction would no longer see the endpoint, it stays so.
OutOfSight(e, p) ==
    /\ endpoint[p] = "disabled"
    /\ emission[e].tx = "idle" \/ p \notin emission[e].seen
    /\ delivery[<<e, p>>].status = "none"

LEMMA OutOfSightStays ==
    ASSUME NEW e \in Events, NEW p \in Endpoints
    PROVE  TypeOK /\ OutboxInv /\ [Next]_vars /\ OutOfSight(e, p) => OutOfSight(e, p)'
<1> SUFFICES ASSUME TypeOK, OutboxInv, [Next]_vars, OutOfSight(e, p) PROVE OutOfSight(e, p)'
  OBVIOUS
<1>0. /\ <<e, p>> \in Rows /\ <<e, p>>[1] = e /\ <<e, p>>[2] = p
      /\ endpoint[p] = "disabled" /\ delivery[<<e, p>>].status = "none"
      /\ emission[e].tx = "idle" \/ p \notin emission[e].seen
      /\ endpoint \in [Endpoints -> {"absent", "live", "disabled"}]
      /\ emission \in [Events -> [tx : {"idle", "open", "over"}, seen : SUBSET Endpoints]]
  BY DEF OutOfSight, Rows, TypeOK
<1>1. delivery'[<<e, p>>].status = "none"
  <2>1. RowStep(<<e, p>>)
    BY <1>0, NextRowStep
  <2> QED BY <1>0, <2>1 DEF RowStep, Same, Moved
<1>2. endpoint'[p] = "disabled"
  BY <1>0 DEF Next, vars, create, disable, EmitRead, EmitCommit, EmitAbort, claim, Post,
     Receive, Succeed, Fail, Fault
<1>3. emission'[e].tx = "idle" \/ p \notin emission'[e].seen
  <2>1. emission' = emission => emission'[e].tx = "idle" \/ p \notin emission'[e].seen
    BY <1>0
  <2>2. ASSUME NEW f \in Events, EmitRead(f)
        PROVE  emission'[e].tx = "idle" \/ p \notin emission'[e].seen
    BY <1>0, <2>2 DEF EmitRead, Live
  <2>3. ASSUME NEW f \in Events, EmitCommit(f) \/ EmitAbort(f)
        PROVE  emission'[e].tx = "idle" \/ p \notin emission'[e].seen
    BY <1>0, <2>3 DEF EmitCommit, EmitAbort
  <2> QED BY <2>1, <2>2, <2>3 DEF Next, vars, create, disable, claim, Post, Receive,
             Succeed, Fail, Fault
<1> QED BY <1>1, <1>2, <1>3 DEF OutOfSight

\* An event whose transaction had not begun when an endpoint was disabled never
\* gets a row for it. (the SELECT of emit(), inside the transaction)
THEOREM DisabledStaysAlone == Spec => DisabledIsLeftAlone
<1> SUFFICES ASSUME NEW e \in Events, NEW p \in Endpoints
             PROVE  Spec => [](emission[e].tx = "idle" /\ endpoint[p] = "disabled"
                                => [](delivery[<<e, p>>].status = "none"))
  BY DEF DisabledIsLeftAlone
<1>1. OutboxInv /\ emission[e].tx = "idle" /\ endpoint[p] = "disabled" => OutOfSight(e, p)
  BY DEF OutboxInv, QueuedByCommit, OutOfSight
<1>2. TypeOK /\ OutboxInv /\ [Next]_vars /\ OutOfSight(e, p) => OutOfSight(e, p)'
  BY OutOfSightStays
<1>3. OutOfSight(e, p) => delivery[<<e, p>>].status = "none"
  BY DEF OutOfSight
<1> QED BY <1>1, <1>2, <1>3, TypeCorrect, OutboxInvariant, PTL DEF Spec

-----------------------------------------------------------------------------
(* Rows without a holder.                                                  *)

LEMMA HoldersStay ==
    ASSUME TypeOK, OutboxInv, OrphansComeFromFaults, [Next]_vars, NEW x \in Rows,
           Orphaned(x)'
    PROVE  faults' > 0
<1> USE DEF Orphaned, Holds
<1>0. /\ faults \in Nat /\ (Orphaned(x) => faults > 0)
      /\ batch \in [Dispatchers -> [Rows -> Nat]]
      /\ RowInv(x)
  BY OutboxAssumption, InvByRow DEF TypeOK, OrphansComeFromFaults
<1>1. delivery'[x].status = "delivering"
      /\ \A d \in Dispatchers : ~(batch'[d][x] > 0) /\ sending'[d] # x
  OBVIOUS
<1>2. ASSUME faults' = faults,
             delivery[x].status = "delivering",
             \A d \in Dispatchers : Holds(d, x) => Holds(d, x)'
      PROVE  faults' > 0
  BY <1>0, <1>1, <1>2
<1>3. ASSUME UNCHANGED <<delivery, batch, sending, faults>> PROVE faults' > 0
  BY <1>0, <1>3
<1>4. ASSUME NEW e \in Events, EmitCommit(e) PROVE faults' > 0
  BY <1>0, <1>1, <1>4, Marked DEF EmitCommit, dispatcher, TypeOK
<1>5. ASSUME NEW d \in Dispatchers, NEW S \in SUBSET Rows, claim(d, S) PROVE faults' > 0
  <2>1. CASE x \in S
    <3>1. batch'[d][x] = delivery[x].attempt_count + 1 /\ delivery[x].attempt_count \in Nat
      BY <1>5, <2>1 DEF claim, TypeOK, Delivery
    <3>2. batch'[d][x] > 0
      BY <3>1
    <3> QED BY <1>1, <3>2
  <2>2. CASE x \notin S
    <3>1. delivery'[x] = delivery[x] /\ faults' = faults /\ sending' = sending
      BY <1>5, <2>2 DEF claim
    <3>2. \A c \in Dispatchers : batch[c][x] > 0 => batch'[c][x] > 0
      BY <1>0, <1>5, <2>2 DEF claim, NoBatch
    <3> QED BY <1>0, <1>1, <3>1, <3>2
  <2> QED BY <2>1, <2>2
<1>6. ASSUME NEW d \in Dispatchers, NEW y \in Rows, Post(d, y) PROVE faults' > 0
  <2>1. \A c \in Dispatchers : Holds(c, x) => Holds(c, x)'
    BY <1>0, <1>6, OutboxAssumption DEF Post, TypeOK
  <2> QED BY <1>0, <1>1, <1>6, <2>1 DEF Post
<1>7. ASSUME NEW d \in Dispatchers, Succeed(d) \/ Fail(d) PROVE faults' > 0
  <2>1. sending[d] \in Rows
    BY <1>7 DEF Succeed, Fail, TypeOK
  <2>2. sending[d] # x
    <3>1. CASE sending[d] = x /\ Succeed(d)
      <4>1. delivery'[x].status = "delivered"
        BY <3>1, Marked DEF Succeed, TypeOK
      <4> QED BY <1>1, <4>1
    <3>2. CASE sending[d] = x /\ Fail(d)
      <4>1. delivery'[x] = Failed(delivery[x], count[d]) /\ delivery[x] \in Delivery
        BY <3>2 DEF Fail, TypeOK
      <4>2. delivery'[x].status # "delivering"
        BY <4>1 DEF Failed, Delivery
      <4> QED BY <1>1, <4>2
    <3> QED BY <1>7, <3>1, <3>2
  <2>3. delivery'[x] = delivery[x] /\ batch' = batch /\ faults' = faults
    BY <1>7, <2>1, <2>2 DEF Succeed, Fail, TypeOK
  <2>4. \A c \in Dispatchers : sending[c] = x => sending'[c] = x
    BY <1>7, <2>2, IdleEffect DEF Succeed, Fail
  <2> QED BY <1>0, <1>1, <2>3, <2>4
<1>8. ASSUME NEW d \in Dispatchers, Fault(d) PROVE faults' > 0
  BY <1>0, <1>8 DEF Fault
<1> QED
  BY <1>3, <1>4, <1>5, <1>6, <1>7, <1>8 DEF Next, vars, dispatcher, create, disable,
     EmitRead, EmitAbort, Receive

\* A row is left 'delivering' with nobody to deliver it only by a crash or a
\* failed transaction of the dispatcher that held it: neither the receivers nor
\* the owners of endpoints, nor any race of two replicas, loses one. (deliver())
THEOREM OnlyFaultsOrphan == Spec => []OrphansComeFromFaults
<1>1. Init => OrphansComeFromFaults
  BY DEF Init, OrphansComeFromFaults, Orphaned
<1>2. TypeOK /\ OutboxInv /\ OrphansComeFromFaults /\ [Next]_vars => OrphansComeFromFaults'
  BY HoldersStay DEF OrphansComeFromFaults
<1> QED BY <1>1, <1>2, TypeCorrect, OutboxInvariant, PTL DEF Spec


-----------------------------------------------------------------------------
(* How much work a row can make.                                           *)

\* Crash or no crash, a row has counted every POST made for it and at most one
\* that was not made, the one its claim counted ahead; so a receiver sees an
\* event at most MaxAttempts times, although rows are orphaned, replicas die
\* with claimed batches, and answers arrive too late to be believed.
\* (attempt_count + 1 in the claiming UPDATE, the POST of deliver())
PostsAreCounted ==
    \A x \in Rows :
        LET n == delivery[x].attempt_count IN
        /\ posted[x] <= n /\ n <= posted[x] + 1 /\ n <= MaxAttempts
        /\ n = posted[x] + 1 => delivery[x].status = "delivering"

LEMMA PostStep ==
    ASSUME TypeOK, OutboxInv, [Next]_vars, NEW x \in Rows
    PROVE  \/ posted'[x] = posted[x]
           \/ /\ posted'[x] = posted[x] + 1 /\ delivery' = delivery
              /\ posted[x] + 1 = delivery[x].attempt_count
<1>1. ASSUME NEW d \in Dispatchers, NEW y \in Rows, Post(d, y), posted'[x] # posted[x]
      PROVE  /\ posted'[x] = posted[x] + 1 /\ delivery' = delivery
             /\ posted[x] + 1 = delivery[x].attempt_count
  <2>1. y = x /\ batch[d][x] > 0 /\ delivery' = delivery /\ posted'[x] = posted[x] + 1
    BY <1>1 DEF Post, TypeOK
  <2> QED BY <2>1 DEF OutboxInv, HolderIsCurrent
<1> QED
  BY <1>1 DEF Next, vars, dispatcher, network, create, disable, EmitRead, EmitCommit,
     EmitAbort, claim, Receive, Succeed, Fail, Fault

\* Every POST is counted, and a row makes at most MaxAttempts of them.
THEOREM NoPostIsUncounted == Spec => []PostsAreCounted
<1>1. Init => PostsAreCounted
  BY OutboxAssumption DEF Init, PostsAreCounted
<1>2. TypeOK /\ OutboxInv /\ PostsAreCounted /\ OutboxInv' /\ [Next]_vars => PostsAreCounted'
  <2> SUFFICES ASSUME TypeOK, OutboxInv, PostsAreCounted, OutboxInv', [Next]_vars,
                      NEW x \in Rows
               PROVE  (LET n == delivery[x].attempt_count IN
                       /\ posted[x] <= n /\ n <= posted[x] + 1 /\ n <= MaxAttempts
                       /\ n = posted[x] + 1 => delivery[x].status = "delivering")'
    BY DEF PostsAreCounted
  <2>0. /\ delivery[x] \in Delivery /\ posted[x] \in Nat
        /\ RowStep(x) /\ RowAddsUp(x) /\ RowAddsUp(x)'
    BY NextRowStep DEF OutboxInv, TypeOK
  <2>1. LET n == delivery[x].attempt_count IN
        /\ n \in Nat /\ posted[x] <= n /\ n <= posted[x] + 1
        /\ n = posted[x] + 1 => delivery[x].status = "delivering"
    BY <2>0 DEF PostsAreCounted, Delivery
  <2>2. CASE posted'[x] = posted[x]
    <3>1. CASE Same(x)
      BY <2>0, <2>1, <2>2, <3>1 DEF Same, RowAddsUp
    <3>2. CASE Moved(x, "none", "pending")
      BY <2>0, <2>1, <2>2, <3>2 DEF Moved, RowAddsUp
    <3>3. CASE /\ delivery[x].status = "pending" /\ delivery'[x].status = "delivering"
               /\ delivery'[x].attempt_count = delivery[x].attempt_count + 1
      BY <2>0, <2>1, <2>2, <3>3 DEF RowAddsUp
    <3>4. CASE delivery'[x].status \in {"delivered", "exhausted", "pending"}
      BY <2>0, <2>1, <2>2, <3>4 DEF RowAddsUp
    <3> QED BY <2>0, <3>1, <3>2, <3>3, <3>4 DEF RowStep, Moved
  <2>3. CASE /\ posted'[x] = posted[x] + 1 /\ delivery' = delivery
             /\ posted[x] + 1 = delivery[x].attempt_count
    BY <2>0, <2>1, <2>3 DEF RowAddsUp
  <2> QED BY <2>2, <2>3, PostStep
<1> QED BY <1>1, <1>2, TypeCorrect, OutboxInvariant, PTL DEF Spec

\* How far a row has come: a claim and the end of an attempt each count one.
Rank(x) ==
    LET n == delivery[x].attempt_count IN
    CASE delivery[x].status = "none" -> 0
      [] delivery[x].status = "delivering" -> 2 * n
      [] OTHER -> 2 * n + 1

\* No row is worked on for ever: every change of its status takes it further,
\* and after 2 * MaxAttempts + 1 of them there is none left. A retry never
\* starts the schedule again and a row that was settled is never reopened.
\* (the UPDATEs of claim and deliver(), backoff_for())
RowsRunDown ==
    [][\A x \in Rows :
         /\ delivery'[x].status # delivery[x].status \/
            delivery'[x].attempt_count # delivery[x].attempt_count
               => Rank(x)' > Rank(x)
         /\ Rank(x)' <= 2 * MaxAttempts + 1]_vars

\* The delivery of a row comes to an end, whatever the receivers answer; that
\* its end is reached is what QueuedIsSettled adds, under fairness.
THEOREM DeliveriesRunDown == Spec => RowsRunDown
<1>1. TypeOK /\ TypeOK' /\ OutboxInv /\ OutboxInv' /\ [Next]_vars =>
        [\A x \in Rows :
           /\ delivery'[x].status # delivery[x].status \/
              delivery'[x].attempt_count # delivery[x].attempt_count
                 => Rank(x)' > Rank(x)
           /\ Rank(x)' <= 2 * MaxAttempts + 1]_vars
  <2> SUFFICES ASSUME TypeOK, TypeOK', OutboxInv, OutboxInv', [Next]_vars, NEW x \in Rows
               PROVE  /\ delivery'[x].status # delivery[x].status \/
                         delivery'[x].attempt_count # delivery[x].attempt_count
                            => Rank(x)' > Rank(x)
                      /\ Rank(x)' <= 2 * MaxAttempts + 1
    OBVIOUS
  <2>0. /\ RowStep(x) /\ RowAddsUp(x) /\ RowAddsUp(x)'
        /\ delivery[x].attempt_count \in Nat /\ delivery'[x].attempt_count \in Nat
        /\ MaxAttempts \in Nat
    BY NextRowStep, OutboxAssumption DEF OutboxInv, TypeOK, Delivery
  <2>1. Rank(x)' <= 2 * MaxAttempts + 1
    BY <2>0 DEF Rank, RowAddsUp
  <2>2. CASE Same(x)
    BY <2>1, <2>2 DEF Same
  <2>3. CASE Moved(x, "none", "pending")
    BY <2>0, <2>1, <2>3 DEF Moved, Rank
  <2>4. CASE /\ delivery[x].status = "pending" /\ delivery'[x].status = "delivering"
             /\ delivery'[x].attempt_count = delivery[x].attempt_count + 1
    BY <2>0, <2>1, <2>4 DEF Rank
  <2>5. CASE \E to \in {"delivered", "exhausted", "pending"} : Moved(x, "delivering", to)
    BY <2>0, <2>1, <2>5 DEF Moved, Rank
  <2> QED BY <2>0, <2>2, <2>3, <2>4, <2>5 DEF RowStep
<1> QED BY <1>1, TypeCorrect, OutboxInvariant, PTL DEF Spec, RowsRunDown

=============================================================================

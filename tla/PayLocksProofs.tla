--------------------------- MODULE PayLocksProofs ---------------------------
(***************************************************************************)
(* Proofs about PayLocks: what an open transaction has locked and may rely *)
(* on, that its statements add up to the one step Payments takes it for,   *)
(* and which transactions can deadlock.                                    *)
(*                                                                         *)
(* A step is one transaction's; the argument is what it leaves alone. A    *)
(* transaction only writes rows it has locked (Footprint), so whatever     *)
(* another one has locked and read stays as it was (Respects), and that is *)
(* all a transaction relies on between its statements (Shape).             *)
(***************************************************************************)
EXTENDS PayLocks, PaymentsAnswersProofs

LEMMA RowsDiffer ==
    /\ \A r, i : KeyRow(r) # InvoiceRow(i)
    /\ \A r, a : KeyRow(r) # AttemptRow(a)
    /\ \A i, a : InvoiceRow(i) # AttemptRow(a)
    /\ \A i, j : InvoiceRow(i) = InvoiceRow(j) => i = j
    /\ \A a, b : AttemptRow(a) = AttemptRow(b) => a = b
    /\ \A r, s : KeyRow(r) = KeyRow(s) <=> KeyOf(r) = KeyOf(s)
BY DEF KeyRow, InvoiceRow, AttemptRow

LEMMA RowTypes ==
    ASSUME TypeOK, NEW r \in Requests
    PROVE  /\ KeyRow(r) \in Rows /\ AttemptRow(r) \in Rows
           /\ InvoiceRow(InvoiceOf(r)) \in Rows
BY DEF TypeOK, Params, Rows, KeyRow, InvoiceRow, AttemptRow, InvoiceOf, KeyOf

LEMMA InvoiceRowType ==
    ASSUME NEW i \in Invoices PROVE InvoiceRow(i) \in Rows
BY DEF Rows, InvoiceRow

\* Whose a transaction is says which kinds it can be.
LEMMA OneOwner ==
    ASSUME NEW t \in Txs
    PROVE  /\ t \in Requests => t \notin Workers /\ t \notin Invoices
           /\ t \in Workers => t \notin Requests /\ t \notin Invoices
           /\ t \in Invoices => t \notin Requests /\ t \notin Workers
BY LocksAssumption

TxType == [stage : Stages, about : Requests \cup {None}, due : Nat,
           outcome : {"none", "unknown", "succeeded", "failed", "exhausted"},
           seen : {"none", "pending", "succeeded", "failed"},
           locks : SUBSET Rows]

LEMMA NoTxType == ASSUME NEW s \in Stages PROVE [NoTx EXCEPT !.stage = s] \in TxType
BY DEF NoTx, TxType

Alone(t) == \A u \in Txs \ {t} : tx'[u] = tx[u]

LEMMA GoEffect ==
    ASSUME TxTypeOK, NEW t \in Txs, NEW s \in Stages, NEW L \in SUBSET Rows, Go(t, s, L)
    PROVE  /\ tx'[t].stage = s /\ tx'[t].locks = tx[t].locks \cup L
           /\ tx'[t].about = tx[t].about /\ tx'[t].outcome = tx[t].outcome
           /\ tx'[t].due = tx[t].due /\ tx'[t].seen = tx[t].seen
           /\ Alone(t) /\ TxTypeOK'
BY DEF TxTypeOK, Go, Alone

LEMMA CloseEffect ==
    ASSUME TxTypeOK, NEW t \in Txs, NEW s \in {"none", "gone"}, Close(t, s)
    PROVE  /\ tx'[t].stage = s /\ tx'[t].locks = {} /\ tx'[t].outcome = "none"
           /\ Alone(t) /\ TxTypeOK' /\ Resting(t)'
<1>1. s \in Stages
  BY DEF Stages
<1>2. [NoTx EXCEPT !.stage = s] \in TxType
  BY <1>1, NoTxType
<1>3. tx' = [tx EXCEPT ![t] = [NoTx EXCEPT !.stage = s]] /\ tx \in [Txs -> TxType]
  BY DEF Close, TxTypeOK, TxType
<1>4. tx'[t] = [NoTx EXCEPT !.stage = s] /\ Alone(t) /\ tx' \in [Txs -> TxType]
  BY <1>2, <1>3 DEF Alone
<1>5. tx'[t].stage = s /\ tx'[t].locks = {} /\ tx'[t].outcome = "none"
  BY <1>4 DEF NoTx
<1> QED BY <1>4, <1>5 DEF TxTypeOK, TxType, Resting

\* A transaction that is not open has no lock.
LEMMA ClosedRests ==
    ASSUME NEW t, Shape(t), ~Open(t) PROVE Resting(t)
BY DEF Shape, Open, Claiming, Settling, Sweeping, Voiding, Resting

LEMMA NoTxRests ==
    ASSUME NEW t, Shape(t), tx[t] = NoTx PROVE Resting(t) /\ tx[t].locks = {}
BY ClosedRests DEF Open, NoTx, Resting

-----------------------------------------------------------------------------
(* What a step leaves alone.                                               *)

\* A step of t changes rows t has locked, or that nobody has.
Footprint(t) ==
    /\ req' = req /\ Alone(t)
    /\ \A r \in Requests \ {t} : handler'[r] = handler[r]
    /\ \A w \in Workers \ {t} : busy'[w] = busy[w] /\ batch'[w] = batch[w]
    /\ \A r \in Requests : idem'[KeyOf(r)].hash # idem[KeyOf(r)].hash =>
          /\ idem[KeyOf(r)].hash = None /\ idem'[KeyOf(r)].hash # None
          /\ KeyRow(r) \in tx[t].locks
    /\ \A i \in Invoices : invoice'[i] # invoice[i] =>
          InvoiceRow(i) \in tx[t].locks \/ ~Locked(InvoiceRow(i))
    /\ \A a \in Requests : attempt[a].status = "pending" /\ attempt'[a].status # "pending" =>
          AttemptRow(a) \in tx[t].locks
    /\ \A a \in Requests : attempt[a].status # "pending" /\ attempt'[a].status = "pending" =>
          InvoiceRow(InvoiceOf(a)) \in tx[t].locks

\* What u has locked stays, for u, as it was.
Respects(u) ==
    /\ tx'[u] = tx[u] /\ req' = req
    /\ u \in Requests => handler'[u] = handler[u]
    /\ u \in Workers => busy'[u] = busy[u] /\ batch'[u] = batch[u]
    /\ \A r \in Requests : idem[KeyOf(r)].hash # None => idem'[KeyOf(r)].hash # None
    /\ \A r \in Requests : KeyRow(r) \in tx[u].locks =>
          idem'[KeyOf(r)].hash = idem[KeyOf(r)].hash
    /\ \A i \in Invoices : InvoiceRow(i) \in tx[u].locks => invoice'[i] = invoice[i]
    /\ \A a \in Requests : AttemptRow(a) \in tx[u].locks /\ attempt[a].status = "pending" =>
          attempt'[a].status = "pending"
    /\ \A a \in Requests :
          InvoiceRow(InvoiceOf(a)) \in tx[u].locks /\ attempt'[a].status = "pending" =>
             attempt[a].status = "pending"

LEMMA FootprintRespects ==
    ASSUME Exclusive, NEW t \in Txs, Footprint(t), NEW u \in Txs \ {t}
    PROVE  Respects(u)
<1>1. \A row : row \in tx[u].locks => row \notin tx[t].locks /\ Locked(row)
  BY DEF Exclusive, Locked, Holds
<1> QED BY <1>1 DEF Footprint, Respects, Alone

\* What no step undoes.
Lasting ==
    /\ LedgerGrows
    /\ \A a \in Requests : attempt[a].status \in {"succeeded", "failed"} =>
          attempt'[a].status = attempt[a].status
    /\ \A i \in Invoices : invoice[i].state \in {"paid", "void"} =>
          invoice'[i].state \in {"paid", "void"}

LEMMA RowsLast == TypeOK /\ PaymentInv /\ [Next]_vars => Lasting
<1> SUFFICES ASSUME TypeOK, PaymentInv, [Next]_vars PROVE Lasting
  OBVIOUS
<1>1. RowStep
  BY NextRowStep DEF PaymentInv
<1>2. CASE RowsKept
  BY <1>2 DEF RowsKept, Kept, Lasting
<1>3. ASSUME NEW i \in Invoices, InvoiceMoved(i) PROVE Lasting
  BY <1>3 DEF InvoiceMoved, Lasting, LedgerGrows
<1>4. ASSUME NEW r \in Requests, Inserted(r) PROVE Lasting
  BY <1>4 DEF Inserted, Kept, Exists, Lasting, LedgerGrows
<1>5. ASSUME NEW r \in Requests, Won(r) PROVE Lasting
  <2>1. \A i \in Invoices : invoice[i].state \in {"paid", "void"} =>
           invoice'[i].state \in {"paid", "void"}
    BY <1>5, InvoiceOfType DEF Won, Credited, is_collectible, TypeOK
  <2> QED BY <1>5, <2>1 DEF Won, Kept, Lasting, LedgerGrows
<1>6. ASSUME NEW r \in Requests, NEW c \in {"declined", "reconciliation_exhausted"},
             Lost(r, c)
      PROVE  Lasting
  BY <1>6 DEF Lost, Kept, Lasting, LedgerGrows
<1> QED BY <1>1, <1>2, <1>3, <1>4, <1>5, <1>6 DEF RowStep

\* Who works on an attempt works on a row that is there.
LEMMA SettlerExists ==
    ASSUME TypeOK, PaymentInv, NEW t \in Txs, NEW a \in Requests, Settler(t, a)
    PROVE  attempt[a].status \in {"pending", "succeeded", "failed"}
<1>1. Exists(a)
  <2>1. CASE t \in Requests /\ a = t /\ handler[t] = "charging"
    BY <2>1 DEF PaymentInv, WorkIsRecorded
  <2>2. CASE t \in Workers /\ busy[t] = a
    BY <2>2, PaymentsAssumption DEF PaymentInv, WorkIsRecorded
  <2>3. CASE t \in Workers /\ batch[t][a] > 0
    BY <2>3 DEF PaymentInv, WorkIsRecorded
  <2> QED BY <2>1, <2>2, <2>3 DEF Settler
<1> QED BY <1>1 DEF Exists, TypeOK, Attempt

\* A settlement of a pending attempt finds an invoice that was sent; if it is
\* not collectible it has ended.
LEMMA NotCollectibleHasEnded ==
    ASSUME TypeOK, PaymentInv, NEW a \in Requests, attempt[a].status = "pending",
           ~is_collectible(InvoiceOf(a))
    PROVE  invoice[InvoiceOf(a)].state \in {"paid", "void"}
<1>1. invoice[InvoiceOf(a)].state \notin {"absent", "draft"}
  BY DEF PaymentInv, RowInv, LiveWasSent, Live
<1>2. invoice[InvoiceOf(a)].state \in InvoiceStates
  BY InvoiceOfType DEF TypeOK
<1> QED BY <1>1, <1>2 DEF is_collectible, InvoiceStates

LEMMA SettlerStays ==
    ASSUME TypeOK, NEW t \in Txs, NEW a \in Requests, Settler(t, a), Respects(t), Lasting
    PROVE  Settler(t, a)'
<1>1. Outcomes(a) \subseteq Outcomes(a)'
  BY DEF Outcomes, Lasting, LedgerGrows
<1>2. Exhausted(t, a) /\ t \in Workers => Exhausted(t, a)'
  BY DEF Exhausted, Respects, ProcessorOf
<1> QED BY <1>1, <1>2 DEF Settler, Respects

LEMMA MatchedStays ==
    ASSUME TypeOK, PaymentInv, NEW t \in Txs, tx[t].about \in Requests,
           Settler(t, tx[t].about), Matched(t) \subseteq tx[t].locks, Respects(t), Lasting
    PROVE  Matched(t)' = Matched(t)
<1> DEFINE a == tx[t].about
           i == InvoiceOf(a)
<1>1. tx'[t] = tx[t] /\ InvoiceOf(a)' = i
  BY DEF Respects, InvoiceOf
<1>2. ASSUME tx[t].outcome # "unknown" PROVE a \in Pending <=> (a \in Pending)'
  <2>1. CASE a \in Pending
    <3>1. AttemptRow(a) \in tx[t].locks
      BY <1>2, <2>1 DEF Matched
    <3> QED BY <2>1, <3>1, <1>1 DEF Respects, Pending
  <2>2. CASE a \notin Pending
    <3>1. attempt[a].status \in {"succeeded", "failed"}
      BY <2>2, SettlerExists DEF Pending
    <3> QED BY <2>2, <3>1, <1>1 DEF Lasting, Pending
  <2> QED BY <2>1, <2>2
<1>3. ASSUME tx[t].outcome = "succeeded", a \in Pending
      PROVE  is_collectible(i) <=> is_collectible(i)'
  <2>1. CASE is_collectible(i)
    <3>1. InvoiceRow(i) \in tx[t].locks
      BY <1>3, <2>1 DEF Matched
    <3> QED BY <2>1, <3>1, InvoiceOfType, <1>1 DEF Respects, is_collectible
  <2>2. CASE ~is_collectible(i)
    <3>1. invoice[i].state \in {"paid", "void"}
      BY <1>3, <2>2, NotCollectibleHasEnded DEF Pending
    <3> QED BY <2>2, <3>1, InvoiceOfType, <1>1 DEF Lasting, is_collectible
  <2> QED BY <2>1, <2>2
<1> QED BY <1>1, <1>2, <1>3 DEF Matched, InvoiceRow, AttemptRow
LEMMA RestingStays ==
    ASSUME NEW t, Resting(t), tx'[t] = tx[t] PROVE Resting(t)'
BY DEF Resting

LEMMA ClaimingStays ==
    ASSUME TypeOK, NEW t \in Txs, Claiming(t), Respects(t)
    PROVE  Claiming(t)'
<1> DEFINE i == InvoiceOf(t)
<1>1. /\ tx'[t] = tx[t] /\ t \in Requests /\ handler'[t] = handler[t]
      /\ InvoiceOf(t)' = i /\ KeyOf(t)' = KeyOf(t) /\ KeyRow(t)' = KeyRow(t)
  BY DEF Claiming, Respects, InvoiceOf, KeyOf, KeyRow
<1>2. i \in Invoices
  BY <1>1, InvoiceOfType
<1>3. tx[t].stage = "known key" => idem'[KeyOf(t)].hash # None
  BY <1>1 DEF Claiming, Respects
<1>4. tx[t].stage \in {"claim invoice", "claim attempt", "commit"} =>
         idem'[KeyOf(t)].hash = None
  BY <1>1 DEF Claiming, Respects
<1>5. tx[t].stage \in {"claim attempt", "commit"} => invoice'[i] = invoice[i]
  BY <1>2 DEF Claiming, Respects
<1>6. tx[t].stage \in {"claim attempt", "commit"} =>
         Payable(i)' /\ tx[t].due = AmountDue(i)'
  BY <1>1, <1>5 DEF Claiming, Payable, is_collectible, AmountDue
<1>7. tx[t].stage = "commit" => ~InProgress(i)'
  <2>1. SUFFICES ASSUME tx[t].stage = "commit", NEW a \in Requests,
                        attempt'[a].status = "pending", InvoiceOf(a)' = InvoiceOf(t)'
                 PROVE  FALSE
    BY DEF InProgress, Pending
  <2>2. InvoiceOf(a) = i
    BY <2>1, <1>1 DEF Respects, InvoiceOf
  <2>3. attempt[a].status = "pending"
    BY <2>1, <2>2 DEF Claiming, Respects
  <2> QED BY <2>1, <2>2, <2>3 DEF Claiming, InProgress, Pending
<1> HIDE DEF i
<1>8. i' = i
  BY <1>1 DEF i
<1> QED BY <1>1, <1>3, <1>4, <1>6, <1>7, <1>8 DEF Claiming, i

LEMMA SettlingStays ==
    ASSUME TypeOK, PaymentInv, NEW t \in Txs, Settling(t), Respects(t), Lasting
    PROVE  Settling(t)'
<1> DEFINE stage == tx[t].stage
<1>0. PICK a : a = tx[t].about
  OBVIOUS
<1>1. tx'[t] = tx[t] /\ a \in Requests /\ KeyRow(a)' = KeyRow(a) /\ a = tx'[t].about
  BY <1>0 DEF Settling, Respects, KeyRow, KeyOf
<1>2. Settler(t, a)'
  <2>1. Settler(t, a)
    BY <1>0 DEF Settling
  <2> QED BY <1>1, <2>1, SettlerStays
<1>3. stage = "settle invoice" => attempt'[a].status = "pending"
  BY <1>0, <1>1 DEF Settling, Respects, Pending
<1>4. stage \in {"settle key", "commit"} => Matched(t)' = Matched(t)
  BY MatchedStays DEF Settling
<1>5. (stage \in {"settle key", "commit"} /\ tx[t].outcome = "unknown") =>
         tx[t].seen \in {"pending", attempt'[a].status}
  BY <1>0, <1>1, SettlerExists DEF Settling, Lasting
<1> QED BY <1>0, <1>1, <1>2, <1>3, <1>4, <1>5 DEF Settling, Pending

LEMMA SweepingStays ==
    ASSUME NEW t \in Txs, Sweeping(t), Respects(t) PROVE Sweeping(t)'
<1>1. PICK S \in SUBSET Pending : /\ S # {} /\ Cardinality(S) <= BatchLimit
                                  /\ tx[t].locks = {AttemptRow(a) : a \in S}
  BY DEF Sweeping
<1>2. S \in SUBSET Pending'
  BY <1>1 DEF Respects, Pending
<1>3. tx'[t].locks = {AttemptRow(a) : a \in S}
  BY <1>1 DEF Respects
<1> QED BY <1>1, <1>2, <1>3 DEF Sweeping, Respects, NoBatch

LEMMA VoidingStays ==
    ASSUME NEW t \in Txs, Voiding(t), Respects(t) PROVE Voiding(t)'
<1>1. invoice'[t] = invoice[t] /\ tx'[t] = tx[t]
  BY DEF Voiding, Respects
<1> QED BY <1>1 DEF Voiding

LEMMA ShapeStays ==
    ASSUME TypeOK, PaymentInv, NEW t \in Txs, Shape(t), Respects(t), Lasting
    PROVE  Shape(t)'
<1>1. tx'[t] = tx[t]
  BY DEF Respects
<1> QED BY <1>1, RestingStays, ClaimingStays, SettlingStays, SweepingStays, VoidingStays DEF Shape
-----------------------------------------------------------------------------
(* What a step of t does to t.                                             *)

Good == TypeOK /\ PaymentInv /\ AnswerInv /\ TxTypeOK /\ LockInv

\* t leaves the others alone, and is in a legal state itself.
Turn(t) ==
    /\ Footprint(t) /\ Shape(t)' /\ TxTypeOK'
    /\ \A u \in Txs \ {t} : tx'[t].locks \cap tx[u].locks = {}

LEMMA TurnKeeps ==
    ASSUME Good, Lasting, NEW t \in Txs, Turn(t)
    PROVE  TxTypeOK' /\ LockInv'
<1>1. \A u \in Txs \ {t} : Respects(u)
  BY FootprintRespects DEF Good, LockInv, Turn
<1>2. \A u \in Txs : Shape(u)'
  BY <1>1, ShapeStays DEF Good, LockInv, Turn
<1>3. \A u \in Txs \ {t} : tx'[u] = tx[u]
  BY <1>1 DEF Respects
<1>4. Exclusive'
  BY <1>3 DEF Exclusive, Turn, Good, LockInv
<1> QED BY <1>2, <1>4 DEF LockInv, Turn

LEMMA QuietFootprint ==
    ASSUME NEW t \in Txs, UNCHANGED vars, Alone(t) PROVE Footprint(t)
BY DEF Footprint, vars, rows, clients, workers

\* Nothing but the handler and the answer of r.
LEMMA RepliedFootprint ==
    ASSUME TypeOK, NEW r \in Requests, Alone(r), UNCHANGED <<rows, req, workers>>,
           NEW h, handler' = [handler EXCEPT ![r] = h]
    PROVE  Footprint(r)
BY DEF Footprint, rows, workers, TypeOK

LEMMA FewerLocks ==
    ASSUME Exclusive, NEW t \in Txs, tx'[t].locks \subseteq tx[t].locks
    PROVE  \A u \in Txs \ {t} : tx'[t].locks \cap tx[u].locks = {}
BY DEF Exclusive

\* Closing a transaction is always a turn, if its footprint is its own.
LEMMA ClosingTurn ==
    ASSUME Good, NEW t \in Txs, NEW s \in {"none", "gone"}, Close(t, s), Footprint(t)
    PROVE  Turn(t)
<1>1. tx'[t].locks = {} /\ TxTypeOK' /\ Resting(t)'
  BY CloseEffect DEF Good
<1> QED BY <1>1 DEF Turn, Shape

\* A request that is not open rests: the steps of Payments leave it so.
LEMMA RestingTurn ==
    ASSUME Good, NEW t \in Txs, Resting(t), tx' = tx, Footprint(t)
    PROVE  Turn(t)
<1>1. Resting(t)' /\ TxTypeOK'
  BY DEF Resting, Good, TxTypeOK
<1>2. \A u \in Txs \ {t} : tx'[t].locks \cap tx[u].locks = {}
  BY DEF Resting
<1> QED BY <1>1, <1>2 DEF Turn, Shape

LEMMA WantsAt ==
    ASSUME NEW t \in Txs, NEW a, a = tx[t].about
    PROVE  /\ tx[t].stage \in {"claim key", "settle key"} => Wants(t) = {KeyRow(a)}
           /\ tx[t].stage = "claim invoice" => Wants(t) = {InvoiceRow(InvoiceOf(a))}
           /\ tx[t].stage = "claim attempt" =>
                Wants(t) = {AttemptRow(b) : b \in {b \in Requests :
                                                     InvoiceOf(b) = InvoiceOf(a)}}
           /\ tx[t].stage = "settle attempt" =>
                Wants(t) = IF a \in Pending THEN {AttemptRow(a)} ELSE {}
           /\ tx[t].stage = "settle invoice" =>
                Wants(t) = IF is_collectible(InvoiceOf(a))
                           THEN {InvoiceRow(InvoiceOf(a))} ELSE {}
           /\ tx[t].stage \notin {"claim key", "settle key", "claim invoice",
                                  "claim attempt", "settle attempt", "settle invoice"} =>
                Wants(t) = {}
BY DEF Wants

LEMMA NobodyElse ==
    ASSUME NEW t \in Txs, WaitsFor(t) = {}
    PROVE  \A u \in Txs \ {t} : Wants(t) \cap tx[u].locks = {}
BY DEF WaitsFor

\* The statement of t takes what it wanted.
LEMMA TakenLocks ==
    ASSUME Exclusive, NEW t \in Txs, WaitsFor(t) = {},
           tx'[t].locks \subseteq tx[t].locks \cup Wants(t)
    PROVE  \A u \in Txs \ {t} : tx'[t].locks \cap tx[u].locks = {}
BY NobodyElse DEF Exclusive

\* The statement a transaction is at says what it is for.
LEMMA StageTells ==
    ASSUME TypeOK, NEW t \in Txs, Shape(t)
    PROVE  /\ tx[t].stage \in {"claim key", "known key", "claim invoice", "claim attempt"}
                => Claiming(t)
           /\ tx[t].stage \in {"settle attempt", "reload", "settle invoice", "settle key"}
                => Settling(t)
           /\ tx[t].stage = "commit" /\ t \in Requests /\ handler[t] = "idle" => Claiming(t)
           /\ tx[t].stage = "commit" /\ t \in Requests /\ handler[t] = "charging" => Settling(t)
           /\ tx[t].stage = "commit" /\ t \in Workers /\ tx[t].outcome # "none" => Settling(t)
           /\ tx[t].stage = "commit" /\ t \in Workers /\ tx[t].outcome = "none" => Sweeping(t)
           /\ tx[t].stage = "commit" /\ t \in Invoices => Voiding(t)
<1> USE OneOwner
<1>1. CASE Resting(t)
  BY <1>1 DEF Resting
<1>2. CASE Claiming(t)
  BY <1>2 DEF Claiming
<1>3. CASE Settling(t)
  <2>1. tx[t].outcome # "none"
    BY <1>3 DEF Settling, Settler, Outcomes
  <2>2. t \in Requests => handler[t] = "charging"
    BY <1>3 DEF Settling, Settler
  <2>3. t \in Requests \cup Workers
    BY <1>3 DEF Settling, Settler
  <2> QED BY <1>3, <2>1, <2>2, <2>3 DEF Settling
<1>4. CASE Sweeping(t)
  BY <1>4 DEF Sweeping
<1>5. CASE Voiding(t)
  BY <1>5 DEF Voiding
<1> QED BY <1>1, <1>2, <1>3, <1>4, <1>5 DEF Shape
-----------------------------------------------------------------------------
(* Phase 1.                                                                *)

\* While nothing is committed, everything a claim looks at stays.
LEMMA QuietRows ==
    ASSUME UNCHANGED vars
    PROVE  /\ \A r : KeyRow(r)' = KeyRow(r) /\ InvoiceOf(r)' = InvoiceOf(r) /\ KeyOf(r)' = KeyOf(r)
           /\ \A i : /\ Payable(i)' <=> Payable(i)
                     /\ is_collectible(i)' <=> is_collectible(i)
                     /\ InProgress(i)' <=> InProgress(i)
                     /\ AmountDue(i)' = AmountDue(i)
           /\ Pending' = Pending /\ attempt' = attempt /\ idem' = idem
           /\ invoice' = invoice /\ handler' = handler /\ busy' = busy /\ batch' = batch
           /\ \A r : Outcomes(r)' = Outcomes(r)
           /\ \A w, r : Exhausted(w, r)' <=> Exhausted(w, r)
BY DEF vars, rows, psp, clients, workers, KeyRow, InvoiceOf, KeyOf, Payable,
       is_collectible, InProgress, Pending, AmountDue, Outcomes, Exhausted, ProcessorOf

\* The stages a claim passes, with what it has locked and knows at each.
LEMMA ClaimingAt ==
    ASSUME NEW t \in Requests, UNCHANGED vars, handler[t] = "idle",
           tx'[t].about = t, tx'[t].outcome = "none",
           LET i == InvoiceOf(t) IN
           \/ tx'[t].stage = "claim key" /\ tx'[t].locks = {}
           \/ tx'[t].stage = "known key" /\ tx'[t].locks = {} /\ idem[KeyOf(t)].hash # None
           \/ /\ tx'[t].stage = "claim invoice" /\ tx'[t].locks = {KeyRow(t)}
              /\ idem[KeyOf(t)].hash = None
           \/ /\ tx'[t].stage = "claim attempt"
              /\ tx'[t].locks = {KeyRow(t), InvoiceRow(i)}
              /\ idem[KeyOf(t)].hash = None /\ Payable(i) /\ tx'[t].due = AmountDue(i)
           \/ /\ tx'[t].stage = "commit"
              /\ tx'[t].locks = {KeyRow(t), InvoiceRow(i), AttemptRow(t)}
              /\ idem[KeyOf(t)].hash = None /\ Payable(i) /\ tx'[t].due = AmountDue(i)
              /\ ~InProgress(i)
    PROVE  Claiming(t)'
<1>1. PICK i : i = InvoiceOf(t) /\ i = InvoiceOf(t)'
  BY QuietRows
<1> QED BY <1>1, QuietRows DEF Claiming, AttemptRow, InvoiceRow

LEMMA BeginTurn ==
    ASSUME Good, NEW r \in Requests, PayBegin(r) PROVE Turn(r)
<1>1. r \in Txs /\ tx \in [Txs -> TxType]
  BY DEF Txs, Good, TxTypeOK, TxType
<1>2. tx' = [tx EXCEPT ![r] = [NoTx EXCEPT !.stage = "claim key", !.about = r]]
  BY <1>1 DEF PayBegin
<1>3. [NoTx EXCEPT !.stage = "claim key", !.about = r] \in TxType
  BY DEF TxType, NoTx, Stages
<1>4. Alone(r) /\ TxTypeOK'
  BY <1>1, <1>2, <1>3 DEF Alone, TxTypeOK, TxType
<1>5. tx'[r].stage = "claim key" /\ tx'[r].about = r /\ tx'[r].outcome = "none"
      /\ tx'[r].locks = {}
  BY <1>1, <1>2 DEF NoTx
<1>6. Claiming(r)'
  BY <1>5, ClaimingAt DEF PayBegin
<1> QED BY <1>1, <1>4, <1>5, <1>6, QuietFootprint DEF Turn, Shape, PayBegin

LEMMA ClaimKeyTurn ==
    ASSUME Good, NEW r \in Requests, ClaimKey(r) PROVE Turn(r)
<1>1. r \in Txs /\ Shape(r) /\ TxTypeOK /\ Exclusive /\ TypeOK
  BY DEF Txs, Good, LockInv
<1>2. Claiming(r) /\ tx[r].stage = "claim key" /\ WaitsFor(r) = {}
  BY <1>1, StageTells DEF ClaimKey, Statement
<1>3. tx[r].locks = {} /\ tx[r].about = r /\ tx[r].outcome = "none" /\ handler[r] = "idle"
  BY <1>2 DEF Claiming
<1>4. Wants(r) = {KeyRow(r)}
  BY <1>1, <1>2, <1>3, WantsAt
<1>5. CASE idem[KeyOf(r)].hash = None
  <2>1. Go(r, "claim invoice", {KeyRow(r)}) /\ UNCHANGED vars
    BY <1>5 DEF ClaimKey
  <2>2. {KeyRow(r)} \in SUBSET Rows /\ "claim invoice" \in Stages
    BY <1>1, RowTypes DEF Stages
  <2>3. /\ tx'[r].stage = "claim invoice" /\ tx'[r].locks = {KeyRow(r)}
        /\ tx'[r].about = r /\ tx'[r].outcome = "none" /\ Alone(r) /\ TxTypeOK'
    <3>1. /\ tx'[r].stage = "claim invoice" /\ tx'[r].locks = tx[r].locks \cup {KeyRow(r)}
          /\ tx'[r].about = tx[r].about /\ tx'[r].outcome = tx[r].outcome
          /\ Alone(r) /\ TxTypeOK'
      BY <1>1, <2>1, <2>2, GoEffect
    <3> QED BY <1>3, <3>1
  <2>4. Claiming(r)'
    BY <1>3, <1>5, <2>1, <2>3, ClaimingAt
  <2>5. \A u \in Txs \ {r} : tx'[r].locks \cap tx[u].locks = {}
    BY <1>1, <1>2, <1>4, <2>3, TakenLocks
  <2> QED BY <1>1, <2>1, <2>3, <2>4, <2>5, QuietFootprint DEF Turn, Shape
<1>6. CASE idem[KeyOf(r)].hash # None
  <2>0. PICK L \in SUBSET Rows : L = {}
    OBVIOUS
  <2>1. Go(r, "known key", L) /\ UNCHANGED vars
    BY <1>6, <2>0 DEF ClaimKey
  <2>2. "known key" \in Stages
    BY DEF Stages
  <2>3. /\ tx'[r].stage = "known key" /\ tx'[r].locks = {}
        /\ tx'[r].about = r /\ tx'[r].outcome = "none" /\ Alone(r) /\ TxTypeOK'
    <3>1. /\ tx'[r].stage = "known key" /\ tx'[r].locks = tx[r].locks \cup L
          /\ tx'[r].about = tx[r].about /\ tx'[r].outcome = tx[r].outcome
          /\ Alone(r) /\ TxTypeOK'
      BY <1>1, <2>1, <2>2, GoEffect
    <3> QED BY <1>3, <2>0, <3>1
  <2>4. Claiming(r)'
    BY <1>3, <1>6, <2>1, <2>3, ClaimingAt
  <2> QED BY <1>1, <2>1, <2>3, <2>4, QuietFootprint DEF Turn, Shape
<1> QED BY <1>5, <1>6

\* A refusal, or the answer stored under a known key, rolls the claim back.
LEMMA RefusedTurn ==
    ASSUME Good, NEW r \in Requests, PayKnownKey(r) \/ PayRefused(r), Close(r, "none")
    PROVE  Turn(r)
<1>1. r \in Txs /\ TypeOK /\ TxTypeOK
  BY DEF Txs, Good
<1>2. Alone(r)
  BY <1>1, CloseEffect
<1>3. UNCHANGED <<rows, req, workers>> /\ handler' = [handler EXCEPT ![r] = "done"]
  BY DEF PayKnownKey, PayRefused, Refuse, Answer
<1>4. Footprint(r)
  BY <1>1, <1>2, <1>3, RepliedFootprint
<1> QED BY <1>1, <1>4, ClosingTurn

LEMMA LockInvoiceTurn ==
    ASSUME Good, NEW r \in Requests, LockInvoice(r) PROVE Turn(r)
<1>1. r \in Txs /\ Shape(r) /\ TxTypeOK /\ Exclusive /\ TypeOK
  BY DEF Txs, Good, LockInv
<1>2. Claiming(r) /\ tx[r].stage = "claim invoice" /\ WaitsFor(r) = {}
  BY <1>1, StageTells DEF LockInvoice, Statement
<1>3. /\ tx[r].locks = {KeyRow(r)} /\ tx[r].about = r /\ tx[r].outcome = "none"
      /\ handler[r] = "idle" /\ idem[KeyOf(r)].hash = None
  BY <1>2 DEF Claiming
<1>4. PICK i \in Invoices : i = InvoiceOf(r)
  BY <1>1, InvoiceOfType
<1>5. Wants(r) = {InvoiceRow(i)}
  BY <1>1, <1>2, <1>3, <1>4, WantsAt
<1>6. CASE ~Payable(i)
  BY <1>4, <1>6, RefusedTurn DEF LockInvoice
<1>7. CASE Payable(i)
  <2>1. LockedForPay(r) /\ UNCHANGED vars
    BY <1>4, <1>7 DEF LockInvoice
  <2>2. AmountDue(i) \in Nat /\ InvoiceRow(i) \in Rows /\ "claim attempt" \in Stages
    BY <1>1, TotalIsPositive, InvoiceRowType DEF TypeOK, AmountDue, remaining, Stages
  <2>3. /\ tx'[r].stage = "claim attempt" /\ tx'[r].locks = {KeyRow(r), InvoiceRow(i)}
        /\ tx'[r].about = r /\ tx'[r].outcome = "none" /\ tx'[r].due = AmountDue(i)
        /\ Alone(r) /\ TxTypeOK'
    <3>1. PICK x : x = [tx[r] EXCEPT !.stage = "claim attempt", !.due = AmountDue(i),
                                     !.locks = tx[r].locks \cup {InvoiceRow(i)}]
      OBVIOUS
    <3>2. tx \in [Txs -> TxType] /\ tx[r] \in TxType
      BY <1>1 DEF TxTypeOK, TxType
    <3>3. /\ x \in TxType /\ x.stage = "claim attempt" /\ x.due = AmountDue(i)
          /\ x.locks = tx[r].locks \cup {InvoiceRow(i)}
          /\ x.about = tx[r].about /\ x.outcome = tx[r].outcome
      BY <2>2, <3>1, <3>2 DEF TxType
    <3>4. tx' = [tx EXCEPT ![r] = x]
      BY <1>4, <2>1, <3>1 DEF LockedForPay
    <3>5. tx'[r] = x /\ Alone(r) /\ tx' \in [Txs -> TxType]
      BY <1>1, <3>2, <3>3, <3>4 DEF Alone
    <3>6. TxTypeOK'
      BY <3>5 DEF TxTypeOK, TxType
    <3> QED BY <1>3, <3>3, <3>5, <3>6
  <2>4. Claiming(r)'
    BY <1>3, <1>4, <1>7, <2>1, <2>3, ClaimingAt
  <2>5. \A u \in Txs \ {r} : tx'[r].locks \cap tx[u].locks = {}
    BY <1>1, <1>2, <1>3, <1>5, <2>3, TakenLocks
  <2> QED BY <1>1, <2>1, <2>3, <2>4, <2>5, QuietFootprint DEF Turn, Shape
<1> QED BY <1>6, <1>7

LEMMA InsertAttemptTurn ==
    ASSUME Good, NEW r \in Requests, InsertAttempt(r) PROVE Turn(r)
<1>1. r \in Txs /\ Shape(r) /\ TxTypeOK /\ Exclusive /\ TypeOK
  BY DEF Txs, Good, LockInv
<1>2. Claiming(r) /\ tx[r].stage = "claim attempt" /\ WaitsFor(r) = {}
  BY <1>1, StageTells DEF InsertAttempt, Statement
<1>3. PICK i \in Invoices : i = InvoiceOf(r)
  BY <1>1, InvoiceOfType
<1>4. /\ tx[r].locks = {KeyRow(r), InvoiceRow(i)} /\ tx[r].about = r
      /\ tx[r].outcome = "none" /\ handler[r] = "idle" /\ idem[KeyOf(r)].hash = None
      /\ Payable(i) /\ tx[r].due = AmountDue(i)
  BY <1>2, <1>3 DEF Claiming
<1>5. AttemptRow(r) \in Wants(r)
  <2>1. Wants(r) = {AttemptRow(b) : b \in {b \in Requests : InvoiceOf(b) = InvoiceOf(r)}}
    BY <1>1, <1>2, <1>4, WantsAt
  <2> QED BY <2>1
<1>6. CASE InProgress(i)
  BY <1>3, <1>6, RefusedTurn DEF InsertAttempt
<1>7. CASE ~InProgress(i)
  <2>1. Go(r, "commit", {AttemptRow(r)}) /\ UNCHANGED vars
    BY <1>3, <1>7 DEF InsertAttempt
  <2>2. {AttemptRow(r)} \in SUBSET Rows /\ "commit" \in Stages
    BY <1>1, RowTypes DEF Stages
  <2>3. /\ tx'[r].stage = "commit"
        /\ tx'[r].locks = {KeyRow(r), InvoiceRow(i), AttemptRow(r)}
        /\ tx'[r].about = r /\ tx'[r].outcome = "none" /\ tx'[r].due = AmountDue(i)
        /\ Alone(r) /\ TxTypeOK'
    BY <1>1, <1>4, <2>1, <2>2, GoEffect
  <2>4. Claiming(r)'
    BY <1>3, <1>4, <1>7, <2>1, <2>3, ClaimingAt
  <2>5. \A u \in Txs \ {r} : tx'[r].locks \cap tx[u].locks = {}
    BY <1>1, <1>2, <1>4, <1>5, <2>3, TakenLocks
  <2> QED BY <1>1, <2>1, <2>3, <2>4, <2>5, QuietFootprint DEF Turn, Shape
<1> QED BY <1>6, <1>7

LEMMA CommitClaimTurn ==
    ASSUME Good, NEW r \in Requests, CommitClaim(r) PROVE Turn(r)
<1>1. r \in Txs /\ Shape(r) /\ TxTypeOK /\ TypeOK
  BY DEF Txs, Good, LockInv
<1>2. Claiming(r) /\ tx[r].stage = "commit"
  BY <1>1, StageTells DEF CommitClaim, Committing
<1>3. /\ KeyRow(r) \in tx[r].locks /\ InvoiceRow(InvoiceOf(r)) \in tx[r].locks
      /\ idem[KeyOf(r)].hash = None
  BY <1>2 DEF Claiming
<1>4. Alone(r) /\ Close(r, "none")
  BY <1>1, CloseEffect DEF CommitClaim
<1>5. \A s \in Requests : idem'[KeyOf(s)].hash # idem[KeyOf(s)].hash =>
         /\ idem[KeyOf(s)].hash = None /\ idem'[KeyOf(s)].hash # None
         /\ KeyRow(s) \in tx[r].locks
  <2> SUFFICES ASSUME NEW s \in Requests, idem'[KeyOf(s)].hash # idem[KeyOf(s)].hash
               PROVE  /\ idem[KeyOf(s)].hash = None /\ idem'[KeyOf(s)].hash # None
                      /\ KeyRow(s) \in tx[r].locks
    OBVIOUS
  <2>1. KeyOf(s) \in Keys /\ KeyOf(r) \in Keys /\ hash_request(r) # None
    BY <1>1, KeyAndHash
  <2>2. KeyOf(s) = KeyOf(r) /\ idem'[KeyOf(s)].hash = hash_request(r)
    BY <1>1, <2>1 DEF CommitClaim, TypeOK
  <2>3. KeyRow(s) = KeyRow(r)
    BY <2>2 DEF KeyRow
  <2> QED BY <1>3, <2>1, <2>2, <2>3
<1>6. \A a \in Requests \ {r} : attempt'[a] = attempt[a]
  BY <1>1 DEF CommitClaim, TypeOK
<1>7. attempt[r].status # "pending" /\ attempt'[r].status = "pending"
  <2>1. ~Exists(r)
    BY <1>2 DEF Claiming, Good, PaymentInv, WorkIsRecorded
  <2> QED BY <1>1, <2>1 DEF CommitClaim, Exists, TypeOK, Attempt
<1>8. Footprint(r)
  BY <1>1, <1>3, <1>4, <1>5, <1>6, <1>7
     DEF CommitClaim, Footprint, workers, TypeOK
<1> QED BY <1>1, <1>4, <1>8, ClosingTurn
-----------------------------------------------------------------------------
(* Settlements.                                                            *)

LEMMA SettlingKind ==
    ASSUME NEW t \in Txs, Settling(t)
    PROVE  /\ tx[t].about \in Requests /\ Settler(t, tx[t].about)
           /\ t \in Requests \cup Workers
           /\ t \in Requests => tx[t].about = t
BY OneOwner DEF Settling, Settler

\* A statement that is not the last of a settlement.
LEMMA SettlingAt ==
    ASSUME NEW t \in Txs, UNCHANGED vars, NEW a \in Requests, tx'[t].about = a,
           \/ /\ t \in Requests /\ a = t /\ handler[t] = "charging"
              /\ tx'[t].outcome \in Outcomes(t)
           \/ /\ t \in Workers /\ busy[t] = a
              /\ tx'[t].outcome \in Outcomes(a) \ {"unknown"}
           \/ /\ t \in Workers /\ tx'[t].outcome = "exhausted"
              /\ busy[t] = None /\ batch[t][a] > 0 /\ Exhausted(t, a),
           NEW won \in BOOLEAN, NEW paid \in BOOLEAN,
           won <=> tx'[t].outcome # "unknown" /\ a \in Pending,
           paid <=> won /\ tx'[t].outcome = "succeeded" /\ is_collectible(InvoiceOf(a)),
           LET L == {row \in {AttemptRow(a)} : won}
                    \cup {row \in {InvoiceRow(InvoiceOf(a))} : paid}
           IN
           \/ tx'[t].stage = "settle attempt" /\ tx'[t].locks = {}
              /\ tx'[t].outcome # "unknown"
           \/ tx'[t].stage = "reload" /\ tx'[t].locks = {} /\ tx'[t].outcome = "unknown"
           \/ /\ tx'[t].stage = "settle invoice" /\ tx'[t].locks = {AttemptRow(a)}
              /\ a \in Pending /\ tx'[t].outcome = "succeeded"
           \/ /\ tx'[t].stage = "settle key" /\ t \in Requests /\ tx'[t].locks = L
              /\ tx'[t].outcome = "unknown" => tx'[t].seen \in {"pending", attempt[a].status}
           \/ /\ tx'[t].stage = "commit" /\ t \in Requests /\ tx'[t].locks = L \cup {KeyRow(a)}
              /\ tx'[t].outcome = "unknown" => tx'[t].seen \in {"pending", attempt[a].status}
           \/ /\ tx'[t].stage = "commit" /\ t \notin Requests /\ tx'[t].locks = L
              /\ tx'[t].outcome # "unknown"
    PROVE  Settling(t)'
<1>1. PICK i, row1, row2, row3 :
         /\ i = InvoiceOf(a) /\ i = InvoiceOf(a)'
         /\ row1 = AttemptRow(a)
         /\ row2 = InvoiceRow(i)
         /\ row3 = KeyRow(a) /\ row3 = KeyRow(a)'
  BY QuietRows
<1>2. Settler(t, a)'
  BY QuietRows DEF Settler
<1>3. Matched(t)' = {row \in {row1} : won} \cup {row \in {row2} : paid}
  BY <1>1, QuietRows DEF Matched, AttemptRow, InvoiceRow
<1>4. (a \in Pending)' <=> a \in Pending
  BY QuietRows
<1>5. attempt' = attempt
  BY QuietRows
<1>6. /\ tx'[t].stage \in {"settle attempt", "reload", "settle invoice", "settle key", "commit"}
      /\ tx'[t].stage = "settle attempt" => tx'[t].locks = {} /\ tx'[t].outcome # "unknown"
      /\ tx'[t].stage = "reload" => tx'[t].locks = {} /\ tx'[t].outcome = "unknown"
      /\ tx'[t].stage = "settle invoice" =>
            tx'[t].locks = {row1} /\ a \in Pending /\ tx'[t].outcome = "succeeded"
  BY <1>1
<1>7. tx'[t].stage = "settle key" => t \in Requests /\ tx'[t].locks = Matched(t)'
  BY <1>1, <1>3
<1>8. tx'[t].stage = "commit" =>
         tx'[t].locks = Matched(t)' \cup {row \in {row3} : t \in Requests}
  BY <1>1, <1>3
<1>9. (tx'[t].stage \in {"settle key", "commit"} /\ tx'[t].outcome = "unknown") =>
         tx'[t].seen \in {"pending", attempt[a].status}
  OBVIOUS
<1> QED BY <1>1, <1>2, <1>4, <1>5, <1>6, <1>7, <1>8, <1>9 DEF Settling, AttemptRow
\* The transaction that is opened for an outcome.
LEMMA SettleBeginTurn ==
    ASSUME Good, NEW t \in Txs, NEW a \in Requests,
           NEW o \in {"unknown", "succeeded", "failed", "exhausted"}, Begin(t, a, o),
           \/ t \in Requests /\ a = t /\ handler[t] = "charging" /\ o \in Outcomes(t)
           \/ t \in Workers /\ busy[t] = a /\ o \in Outcomes(a) \ {"unknown"}
           \/ /\ t \in Workers /\ o = "exhausted"
              /\ busy[t] = None /\ batch[t][a] > 0 /\ Exhausted(t, a)
    PROVE  Turn(t)
<1>1. PICK s : s = IF o = "unknown" THEN "reload" ELSE "settle attempt"
  OBVIOUS
<1>2. PICK x : x = [NoTx EXCEPT !.about = a, !.outcome = o, !.stage = s]
  OBVIOUS
<1>3. tx \in [Txs -> TxType]
  BY DEF Good, TxTypeOK, TxType
<1>4. x \in TxType /\ x.about = a /\ x.outcome = o /\ x.stage = s /\ x.locks = {}
  BY <1>1, <1>2 DEF TxType, NoTx, Stages
<1>5. tx' = [tx EXCEPT ![t] = x]
  BY <1>1, <1>2 DEF Begin
<1>6. tx'[t] = x /\ Alone(t) /\ tx' \in [Txs -> TxType]
  BY <1>3, <1>4, <1>5 DEF Alone
<1>7. UNCHANGED vars
  BY DEF Begin
<1>8. Settling(t)'
  <2>1. PICK won \in BOOLEAN : won <=> o # "unknown" /\ a \in Pending
    OBVIOUS
  <2>2. PICK paid \in BOOLEAN :
           paid <=> won /\ o = "succeeded" /\ is_collectible(InvoiceOf(a))
    OBVIOUS
  <2> QED BY <1>1, <1>4, <1>6, <1>7, <2>1, <2>2, SettlingAt
<1> QED BY <1>4, <1>6, <1>7, <1>8, QuietFootprint DEF Turn, Shape, TxTypeOK, TxType

LEMMA PayReturnedTurn ==
    ASSUME Good, NEW r \in Requests, PayReturned(r) PROVE Turn(r)
<1>1. PICK o \in Outcomes(r) : Begin(r, r, o) /\ handler[r] = "charging"
  BY DEF PayReturned
<1>2. o \in {"unknown", "succeeded", "failed"}
  BY DEF Good, TypeOK, Outcomes
<1> QED BY <1>1, <1>2, SettleBeginTurn DEF Txs

LEMMA WorkerReturnedTurn ==
    ASSUME Good, NEW w \in Workers, WorkerReturned(w) PROVE Turn(w)
<1>1. busy[w] \in Requests
  BY DEF Good, TypeOK, WorkerReturned
<1>2. PICK o \in Outcomes(busy[w]) \ {"unknown"} : Begin(w, busy[w], o)
  BY DEF WorkerReturned
<1>3. o \in {"unknown", "succeeded", "failed"}
  BY <1>1 DEF Good, TypeOK, Outcomes
<1> QED BY <1>1, <1>2, <1>3, SettleBeginTurn DEF Txs

LEMMA GiveUpTurn ==
    ASSUME Good, NEW w \in Workers, GiveUp(w) PROVE Turn(w)
BY SettleBeginTurn DEF GiveUp, Txs

LEMMA UpdateAttemptTurn ==
    ASSUME Good, NEW t \in Requests \cup Workers, UpdateAttempt(t) PROVE Turn(t)
<1>1. t \in Txs /\ Shape(t) /\ TxTypeOK /\ Exclusive /\ TypeOK
  BY DEF Txs, Good, LockInv
<1>2. Settling(t) /\ tx[t].stage = "settle attempt" /\ WaitsFor(t) = {}
  BY <1>1, StageTells DEF UpdateAttempt, Statement
<1>3. PICK a \in Requests : a = tx[t].about
  BY <1>2 DEF Settling
<1>4. Settler(t, a) /\ tx[t].locks = {} /\ tx[t].outcome # "unknown"
      /\ (t \in Requests => a = t)
  BY <1>1, <1>2, <1>3, SettlingKind DEF Settling
<1>5. PICK won \in BOOLEAN : won <=> a \in Pending
  OBVIOUS
<1>6. PICK paid \in BOOLEAN :
         paid <=> won /\ tx[t].outcome = "succeeded" /\ is_collectible(InvoiceOf(a))
  OBVIOUS
<1>7. PICK L \in SUBSET Rows : L = IF won THEN {AttemptRow(a)} ELSE {}
  BY <1>1, RowTypes
<1>8. PICK s \in Stages :
         s = IF won /\ tx[t].outcome = "succeeded" THEN "settle invoice"
             ELSE IF t \in Requests THEN "settle key" ELSE "commit"
  BY DEF Stages
<1>9. Go(t, s, L) /\ UNCHANGED vars
  BY <1>3, <1>5, <1>7, <1>8 DEF UpdateAttempt, AfterAttempt, LastStage
<1>10. /\ tx'[t].stage = s /\ tx'[t].locks = tx[t].locks \cup L
       /\ tx'[t].about = a /\ tx'[t].outcome = tx[t].outcome
       /\ Alone(t) /\ TxTypeOK'
  BY <1>1, <1>3, <1>9, GoEffect
<1>11. tx'[t].locks = L
  BY <1>4, <1>10
<1>12. Settling(t)'
  <2>1. L = {row \in {AttemptRow(a)} : won}
    BY <1>7
  <2>2. tx[t].outcome # "succeeded" \/ ~won => ~paid
    BY <1>6
  <2>3. CASE won /\ tx[t].outcome = "succeeded"
    <3>1. s = "settle invoice" /\ L = {AttemptRow(a)} /\ a \in Pending
      BY <1>5, <1>7, <1>8, <2>3
    <3> QED BY <1>1, <1>3, <1>4, <1>5, <1>6, <1>9, <1>10, <1>11, <2>3, <3>1, SettlingAt
               DEF Settler
  <2>4. CASE ~(won /\ tx[t].outcome = "succeeded")
    <3>1. s = IF t \in Requests THEN "settle key" ELSE "commit"
      BY <1>8, <2>4
    <3>2. L = {row \in {AttemptRow(a)} : won}
                \cup {row \in {InvoiceRow(InvoiceOf(a))} : paid}
      BY <2>1, <2>2, <2>4
    <3> QED BY <1>1, <1>3, <1>4, <1>5, <1>6, <1>9, <1>10, <1>11, <3>1, <3>2, SettlingAt
               DEF Settler
  <2> QED BY <2>3, <2>4
<1>13. Wants(t) = L
  BY <1>1, <1>2, <1>3, <1>5, <1>7, WantsAt
<1>14. \A u \in Txs \ {t} : tx'[t].locks \cap tx[u].locks = {}
  BY <1>1, <1>2, <1>11, <1>13, TakenLocks
<1> QED BY <1>1, <1>9, <1>10, <1>12, <1>14, QuietFootprint DEF Turn, Shape
LEMMA UpdateInvoiceTurn ==
    ASSUME Good, NEW t \in Requests \cup Workers, UpdateInvoice(t) PROVE Turn(t)
<1>1. t \in Txs /\ Shape(t) /\ TxTypeOK /\ Exclusive /\ TypeOK
  BY DEF Txs, Good, LockInv
<1>2. Settling(t) /\ tx[t].stage = "settle invoice" /\ WaitsFor(t) = {}
  BY <1>1, StageTells DEF UpdateInvoice, Statement
<1>3. PICK a \in Requests : a = tx[t].about
  BY <1>2 DEF Settling
<1>4. /\ Settler(t, a) /\ tx[t].locks = {AttemptRow(a)} /\ a \in Pending
      /\ tx[t].outcome = "succeeded" /\ (t \in Requests => a = t)
  BY <1>1, <1>2, <1>3, SettlingKind DEF Settling
<1>5. PICK i \in Invoices : i = InvoiceOf(a)
  BY <1>1, InvoiceOfType
<1>6. PICK paid \in BOOLEAN : paid <=> is_collectible(i)
  OBVIOUS
<1>7. PICK L \in SUBSET Rows : L = IF paid THEN {InvoiceRow(i)} ELSE {}
  BY InvoiceRowType
<1>8. PICK s \in Stages : s = IF t \in Requests THEN "settle key" ELSE "commit"
  BY DEF Stages
<1>9. Go(t, s, L) /\ UNCHANGED vars
  BY <1>3, <1>5, <1>6, <1>7, <1>8 DEF UpdateInvoice, LastStage
<1>10. /\ tx'[t].stage = s /\ tx'[t].locks = tx[t].locks \cup L
       /\ tx'[t].about = a /\ tx'[t].outcome = tx[t].outcome
       /\ Alone(t) /\ TxTypeOK'
  BY <1>1, <1>3, <1>9, GoEffect
<1>11. PICK won \in BOOLEAN : won
  OBVIOUS
<1>12. tx'[t].locks = {row \in {AttemptRow(a)} : won}
                      \cup {row \in {InvoiceRow(InvoiceOf(a))} : paid}
  BY <1>4, <1>5, <1>7, <1>10, <1>11
<1>13. Settling(t)'
  BY <1>1, <1>4, <1>5, <1>6, <1>8, <1>9, <1>10, <1>11, <1>12, SettlingAt DEF Settler
<1>14. Wants(t) = L
  BY <1>1, <1>2, <1>3, <1>5, <1>6, <1>7, WantsAt
<1>15. \A u \in Txs \ {t} : tx'[t].locks \cap tx[u].locks = {}
  BY <1>1, <1>2, <1>10, <1>14, TakenLocks
<1> QED BY <1>1, <1>9, <1>10, <1>13, <1>15, QuietFootprint DEF Turn, Shape

LEMMA ReloadTurn ==
    ASSUME Good, NEW r \in Requests, Reload(r) PROVE Turn(r)
<1>1. r \in Txs /\ Shape(r) /\ TxTypeOK /\ Exclusive /\ TypeOK
  BY DEF Txs, Good, LockInv
<1>2. Settling(r) /\ tx[r].stage = "reload"
  BY <1>1, StageTells DEF Reload, Statement
<1>3. /\ tx[r].about = r /\ Settler(r, r) /\ tx[r].locks = {} /\ tx[r].outcome = "unknown"
  BY <1>1, <1>2, SettlingKind DEF Settling
<1>4. PICK x : x = [tx[r] EXCEPT !.stage = "settle key", !.seen = attempt[r].status]
  OBVIOUS
<1>5. tx \in [Txs -> TxType] /\ tx[r] \in TxType
  BY <1>1 DEF TxTypeOK, TxType
<1>6. attempt[r].status \in {"none", "pending", "succeeded", "failed"}
  BY <1>1 DEF TypeOK, Attempt
<1>7. /\ x \in TxType /\ x.stage = "settle key" /\ x.seen = attempt[r].status
      /\ x.about = r /\ x.locks = {} /\ x.outcome = "unknown"
  BY <1>3, <1>4, <1>5, <1>6 DEF TxType, Stages
<1>8. tx' = [tx EXCEPT ![r] = x] /\ UNCHANGED vars
  BY <1>4 DEF Reload
<1>9. tx'[r] = x /\ Alone(r) /\ tx' \in [Txs -> TxType]
  BY <1>1, <1>5, <1>7, <1>8 DEF Alone
<1>10. PICK no \in BOOLEAN : ~no
  OBVIOUS
<1>11. {} = {row \in {AttemptRow(r)} : no} \cup {row \in {InvoiceRow(InvoiceOf(r))} : no}
  BY <1>10
<1>12. Settling(r)'
  BY <1>1, <1>3, <1>7, <1>8, <1>9, <1>10, <1>11, SettlingAt, OneOwner DEF Settler
<1> QED BY <1>1, <1>7, <1>8, <1>9, <1>12, QuietFootprint DEF Turn, Shape, TxTypeOK, TxType

LEMMA UpdateKeyTurn ==
    ASSUME Good, NEW r \in Requests, UpdateKey(r) PROVE Turn(r)
<1>1. r \in Txs /\ Shape(r) /\ TxTypeOK /\ Exclusive /\ TypeOK
  BY DEF Txs, Good, LockInv
<1>2. Settling(r) /\ tx[r].stage = "settle key" /\ WaitsFor(r) = {}
  BY <1>1, StageTells DEF UpdateKey, Statement
<1>3. /\ tx[r].about = r /\ Settler(r, r) /\ tx[r].locks = Matched(r)
      /\ tx[r].outcome = "unknown" => tx[r].seen \in {"pending", attempt[r].status}
  BY <1>1, <1>2, SettlingKind DEF Settling
<1>4. PICK won \in BOOLEAN : won <=> tx[r].outcome # "unknown" /\ r \in Pending
  OBVIOUS
<1>5. PICK paid \in BOOLEAN :
         paid <=> won /\ tx[r].outcome = "succeeded" /\ is_collectible(InvoiceOf(r))
  OBVIOUS
<1>6. Matched(r) = {row \in {AttemptRow(r)} : won}
                   \cup {row \in {InvoiceRow(InvoiceOf(r))} : paid}
  BY <1>3, <1>4, <1>5 DEF Matched
<1>7. Go(r, "commit", {KeyRow(r)}) /\ UNCHANGED vars
  BY DEF UpdateKey
<1>8. {KeyRow(r)} \in SUBSET Rows /\ "commit" \in Stages
  BY <1>1, RowTypes DEF Stages
<1>9. /\ tx'[r].stage = "commit" /\ tx'[r].locks = Matched(r) \cup {KeyRow(r)}
      /\ tx'[r].about = r /\ tx'[r].outcome = tx[r].outcome /\ tx'[r].seen = tx[r].seen
      /\ Alone(r) /\ TxTypeOK'
  <2>1. /\ tx'[r].stage = "commit" /\ tx'[r].locks = tx[r].locks \cup {KeyRow(r)}
        /\ tx'[r].about = tx[r].about /\ tx'[r].outcome = tx[r].outcome
        /\ tx'[r].seen = tx[r].seen /\ Alone(r) /\ TxTypeOK'
    BY <1>1, <1>7, <1>8, GoEffect
  <2> QED BY <1>3, <2>1
<1>10. Settling(r)'
  BY <1>1, <1>3, <1>4, <1>5, <1>6, <1>7, <1>9, SettlingAt, OneOwner DEF Settler
<1>11. Wants(r) = {KeyRow(r)}
  BY <1>1, <1>2, <1>3, WantsAt
<1>12. \A u \in Txs \ {r} : tx'[r].locks \cap tx[u].locks = {}
  BY <1>1, <1>2, <1>3, <1>9, <1>11, TakenLocks
<1> QED BY <1>1, <1>7, <1>9, <1>10, <1>12, QuietFootprint DEF Turn, Shape

-----------------------------------------------------------------------------
(* Commits of settlements: together, their statements are settle().        *)

\* The rows a settlement has locked when it commits.
LEMMA CommitLocks ==
    ASSUME NEW t \in Txs, Settling(t), tx[t].stage = "commit", NEW a, a = tx[t].about
    PROVE  /\ Holds(t, AttemptRow(a)) <=> tx[t].outcome # "unknown" /\ a \in Pending
           /\ Holds(t, InvoiceRow(InvoiceOf(a))) <=>
                /\ tx[t].outcome = "succeeded" /\ a \in Pending
                /\ is_collectible(InvoiceOf(a))
<1>1. tx[t].locks = Matched(t) \cup {row \in {KeyRow(a)} : t \in Requests}
  BY DEF Settling
<1> QED BY <1>1, RowsDiffer DEF Matched, Holds

\* What it writes, settle() writes.
LEMMA SettledIsSettle ==
    ASSUME Good, NEW t \in Txs, Settling(t), tx[t].stage = "commit", NEW a, a = tx[t].about,
           NEW o, o = tx[t].outcome, Settled(t), o \in {"unknown", "succeeded", "failed"}
    PROVE  settle(a, o)
<1>1. a \in Requests /\ attempt[a].status \in {"none", "pending", "succeeded", "failed"}
  BY DEF Settling, Good, TypeOK, Attempt
<1>2. a \in Pending <=> attempt[a].status = "pending"
  BY <1>1 DEF Pending
<1>3. /\ Holds(t, AttemptRow(a)) <=> o # "unknown" /\ a \in Pending
      /\ Holds(t, InvoiceRow(InvoiceOf(a))) <=>
           o = "succeeded" /\ a \in Pending /\ is_collectible(InvoiceOf(a))
  BY CommitLocks
<1>4. CASE o = "unknown"
  BY <1>3, <1>4 DEF Settled, settle
<1>5. CASE o = "failed"
  BY <1>2, <1>3, <1>5 DEF Settled, settle, SettleFailed
<1>6. CASE o = "succeeded"
  BY <1>2, <1>3, <1>6 DEF Settled, settle, SettleSucceeded
<1> QED BY <1>4, <1>5, <1>6

\* And it writes only what it has locked.
LEMMA SettledFootprint ==
    ASSUME Good, NEW t \in Txs, Settling(t), tx[t].stage = "commit", Settled(t)
    PROVE  /\ \A i \in Invoices : invoice'[i] # invoice[i] => InvoiceRow(i) \in tx[t].locks
           /\ \A b \in Requests : attempt'[b].status # attempt[b].status =>
                 attempt'[b].status # "pending" /\ AttemptRow(b) \in tx[t].locks
<1>1. PICK a \in Requests : a = tx[t].about
  BY DEF Settling
<1>2. PICK i \in Invoices : i = InvoiceOf(a)
  BY InvoiceOfType DEF Good
<1>3. /\ attempt \in [Requests -> Attempt]
      /\ invoice \in [Invoices -> [state : InvoiceStates, paid : Nat]]
  BY DEF Good, TypeOK
<1>4. \A j \in Invoices : invoice'[j] # invoice[j] => InvoiceRow(j) \in tx[t].locks
  <2>1. invoice' # invoice => Holds(t, InvoiceRow(i)) /\ invoice' = Credited(i, attempt[a].amount)
    BY <1>1, <1>2 DEF Settled
  <2>2. \A j \in Invoices \ {i} : Credited(i, attempt[a].amount)[j] = invoice[j]
    BY <1>3 DEF Credited
  <2> QED BY <2>1, <2>2 DEF Holds
<1>5. CASE ~Holds(t, AttemptRow(a))
  BY <1>1, <1>4, <1>5 DEF Settled
<1>6. CASE Holds(t, AttemptRow(a))
  <2>1. \/ attempt' = [attempt EXCEPT ![a].status = "succeeded"]
        \/ \E c : attempt' = Failed(a, c)
    BY <1>1, <1>6 DEF Settled
  <2>2. \A b \in Requests \ {a} : attempt'[b] = attempt[b]
    BY <1>3, <2>1, UpdateEffect
  <2>3. attempt'[a].status \in {"succeeded", "failed"}
    <3>1. [attempt EXCEPT ![a].status = "succeeded"][a].status = "succeeded"
      BY <1>3
    <3>2. \A c : Failed(a, c)[a].status = "failed"
      BY <1>3 DEF Failed, Attempt
    <3> QED BY <2>1, <3>1, <3>2
  <2> QED BY <1>4, <1>6, <2>2, <2>3 DEF Holds
<1> QED BY <1>5, <1>6
LEMMA CommitSettleTurn ==
    ASSUME Good, NEW r \in Requests, CommitSettle(r)
    PROVE  PaySettle(r) /\ Turn(r)
<1>1. r \in Txs /\ Shape(r) /\ TxTypeOK /\ TypeOK
  BY DEF Txs, Good, LockInv
<1>2. /\ Settling(r) /\ tx[r].stage = "commit" /\ handler[r] = "charging" /\ Settled(r)
      /\ Close(r, "none")
  BY <1>1, StageTells DEF CommitSettle, Committing
<1>3. PICK o : o = tx[r].outcome
  OBVIOUS
<1>4. PICK seen : seen = tx[r].seen
  OBVIOUS
<1>5. tx[r].about = r /\ Settler(r, r)
  BY <1>1, <1>2, SettlingKind
<1>6. o \in Outcomes(r) /\ o \in {"unknown", "succeeded", "failed"}
  BY <1>1, <1>3, <1>5, OneOwner DEF Settler, Outcomes, TypeOK
<1>7. settle(r, o)
  BY <1>1, <1>2, <1>3, <1>5, <1>6, SettledIsSettle
<1>8. PaySettle(r)
  <2>1. PICK s \in {"pending", attempt[r].status} : o = "unknown" => s = seen
    BY <1>2, <1>3, <1>4, <1>5 DEF Settling
  <2>2. SettleReply(r, o, seen) = SettleReply(r, o, s)
    BY <2>1 DEF SettleReply
  <2>3. /\ idem' = [idem EXCEPT ![KeyOf(r)].reply = SettleReply(r, o, s)]
        /\ Answer(r, SettleReply(r, o, s))
        /\ UNCHANGED <<psp, req, workers>>
    BY <1>3, <1>4, <2>2 DEF CommitSettle
  <2> QED BY <1>2, <1>6, <1>7, <2>1, <2>3 DEF PaySettle
<1>9. \A s \in Requests : idem'[KeyOf(s)].hash = idem[KeyOf(s)].hash
  BY <1>1, KeyAndHash DEF CommitSettle, TypeOK
<1>10. Alone(r)
  BY <1>1, <1>2, CloseEffect
<1>11. \A x \in Requests \ {r} : handler'[x] = handler[x]
  BY <1>1 DEF CommitSettle, Answer, TypeOK
<1>12. /\ \A i \in Invoices : invoice'[i] # invoice[i] => InvoiceRow(i) \in tx[r].locks
       /\ \A b \in Requests : attempt'[b].status # attempt[b].status =>
             attempt'[b].status # "pending" /\ AttemptRow(b) \in tx[r].locks
  BY <1>1, <1>2, SettledFootprint
<1>13. Footprint(r)
  BY <1>9, <1>10, <1>11, <1>12 DEF Footprint, CommitSettle, workers
<1> QED BY <1>1, <1>2, <1>8, <1>13, ClosingTurn

\* The footprint of a worker's commit.
LEMMA WorkerCommitFootprint ==
    ASSUME Good, NEW w \in Workers, Settling(w), tx[w].stage = "commit", Settled(w),
           Close(w, "none"), UNCHANGED <<idem, clients>>,
           \A v \in Workers \ {w} : busy'[v] = busy[v] /\ batch'[v] = batch[v]
    PROVE  Turn(w)
<1>1. w \in Txs /\ TxTypeOK
  BY DEF Txs, Good
<1>2. Alone(w)
  BY <1>1, CloseEffect
<1>3. /\ \A i \in Invoices : invoice'[i] # invoice[i] => InvoiceRow(i) \in tx[w].locks
      /\ \A b \in Requests : attempt'[b].status # attempt[b].status =>
            attempt'[b].status # "pending" /\ AttemptRow(b) \in tx[w].locks
  BY <1>1, SettledFootprint
<1>4. Footprint(w)
  BY <1>2, <1>3 DEF Footprint, clients
<1> QED BY <1>1, <1>4, ClosingTurn

LEMMA CommitReconciledTurn ==
    ASSUME Good, NEW w \in Workers, CommitReconciled(w)
    PROVE  Reconciled(w) /\ Turn(w)
<1>1. w \in Txs /\ Shape(w) /\ TxTypeOK /\ TypeOK
  BY DEF Txs, Good, LockInv
<1>2. /\ Settling(w) /\ tx[w].stage = "commit" /\ Settled(w) /\ Close(w, "none")
      /\ tx[w].outcome \in {"succeeded", "failed"}
  BY <1>1, StageTells DEF CommitReconciled, Committing
<1>3. PICK o : o = tx[w].outcome
  OBVIOUS
<1>4. PICK a \in Requests : a = tx[w].about
  BY <1>2 DEF Settling
<1>5. busy[w] = a /\ o \in Outcomes(a) \ {"unknown"}
  BY <1>1, <1>2, <1>3, <1>4, OneOwner DEF Settling, Settler
<1>6. settle(a, o)
  BY <1>1, <1>2, <1>3, <1>4, SettledIsSettle
<1>7. Reconciled(w)
  BY <1>5, <1>6, PaymentsAssumption DEF CommitReconciled, Reconciled
<1>8. \A v \in Workers \ {w} : busy'[v] = busy[v] /\ batch'[v] = batch[v]
  BY <1>1 DEF CommitReconciled, TypeOK
<1>9. Turn(w)
  BY <1>2, <1>8, WorkerCommitFootprint DEF CommitReconciled
<1> QED BY <1>7, <1>9

LEMMA CommitGiveUpTurn ==
    ASSUME Good, NEW w \in Workers, CommitGiveUp(w)
    PROVE  (\E a \in Requests : give_up(w, a)) /\ Turn(w)
<1>1. w \in Txs /\ Shape(w) /\ TxTypeOK /\ TypeOK
  BY DEF Txs, Good, LockInv
<1>2. /\ Settling(w) /\ tx[w].stage = "commit" /\ Settled(w) /\ Close(w, "none")
      /\ tx[w].outcome = "exhausted"
  BY <1>1, StageTells DEF CommitGiveUp, Committing
<1>3. PICK a \in Requests : a = tx[w].about
  BY <1>2 DEF Settling
<1>4. busy[w] = None /\ batch[w][a] > 0 /\ Exhausted(w, a)
  BY <1>1, <1>2, <1>3, OneOwner DEF Settling, Settler, Outcomes, TypeOK
<1>5. Holds(w, AttemptRow(a)) <=> a \in Pending
  BY <1>1, <1>2, <1>3, CommitLocks
<1>6. /\ attempt' = IF a \in Pending THEN Failed(a, "reconciliation_exhausted") ELSE attempt
      /\ invoice' = invoice /\ UNCHANGED outbox
  BY <1>2, <1>3, <1>5 DEF Settled
<1>7. give_up(w, a)
  BY <1>3, <1>4, <1>6 DEF CommitGiveUp, give_up, Visit, Pending
<1>8. \A v \in Workers \ {w} : busy'[v] = busy[v] /\ batch'[v] = batch[v]
  BY <1>1 DEF CommitGiveUp, TypeOK
<1>9. Turn(w)
  BY <1>2, <1>8, WorkerCommitFootprint DEF CommitGiveUp
<1> QED BY <1>7, <1>9
-----------------------------------------------------------------------------
(* The reconciler's claim and the invoice handlers.                        *)

LEMMA SweepTurn ==
    ASSUME Good, NEW w \in Workers, NEW S \in SUBSET Requests, Sweep(w, S)
    PROVE  Turn(w)
<1>1. w \in Txs /\ TxTypeOK /\ Exclusive /\ TypeOK
  BY DEF Txs, Good, LockInv
<1>2. PICK L : L = {AttemptRow(a) : a \in S}
  OBVIOUS
<1>3. /\ S # {} /\ S \subseteq Pending /\ Cardinality(S) <= BatchLimit
      /\ \A a \in S : ~Locked(AttemptRow(a))
      /\ busy[w] = None /\ batch[w] = NoBatch /\ UNCHANGED vars
      /\ Go(w, "commit", L) /\ tx[w] = NoTx
  BY <1>2 DEF Sweep
<1>4. L \in SUBSET Rows /\ "commit" \in Stages
  BY <1>1, <1>2, RowTypes DEF Stages
<1>5. tx[w].locks = {} /\ tx[w].outcome = "none"
  BY <1>3 DEF NoTx
<1>6. /\ tx'[w].stage = "commit" /\ tx'[w].locks = tx[w].locks \cup L
      /\ tx'[w].outcome = tx[w].outcome /\ Alone(w) /\ TxTypeOK'
  BY <1>1, <1>3, <1>4, GoEffect
<1>7. tx'[w].locks = {AttemptRow(a) : a \in S}
  BY <1>2, <1>5, <1>6
<1>8. S \in SUBSET Pending' /\ busy'[w] = None /\ batch'[w] = NoBatch
  BY <1>3, QuietRows
<1>9. Sweeping(w)'
  BY <1>3, <1>5, <1>6, <1>7, <1>8 DEF Sweeping, NoBatch, AttemptRow
<1>10. \A u \in Txs \ {w} : tx'[w].locks \cap tx[u].locks = {}
  BY <1>3, <1>7 DEF Locked, Holds
<1> QED BY <1>1, <1>3, <1>6, <1>9, <1>10, QuietFootprint DEF Turn, Shape

LEMMA CommitSweepTurn ==
    ASSUME Good, NEW w \in Workers, CommitSweep(w)
    PROVE  (\E S \in SUBSET Requests : claim(w, S)) /\ Turn(w)
<1>1. w \in Txs /\ Shape(w) /\ TxTypeOK /\ TypeOK
  BY DEF Txs, Good, LockInv
<1>2. Sweeping(w) /\ Close(w, "none")
  BY <1>1, StageTells DEF CommitSweep, Committing
<1>3. PICK S \in SUBSET Pending : /\ S # {} /\ Cardinality(S) <= BatchLimit
                                  /\ tx[w].locks = {AttemptRow(a) : a \in S}
  BY <1>2 DEF Sweeping
<1>4. \A a \in Requests : Holds(w, AttemptRow(a)) <=> a \in S
  BY <1>3, RowsDiffer DEF Holds
<1>5. PICK count : count = [a \in Requests |-> IF Holds(w, AttemptRow(a))
                                               THEN attempt[a].reconcile_attempts + 1 ELSE 0]
  OBVIOUS
<1>6. count = [a \in Requests |-> IF a \in S THEN attempt[a].reconcile_attempts + 1 ELSE 0]
  BY <1>4, <1>5
<1>7. /\ batch' = [batch EXCEPT ![w] = count]
      /\ attempt' = [a \in Requests |->
                        IF count[a] > 0
                        THEN [attempt[a] EXCEPT !.reconcile_attempts = count[a]]
                        ELSE attempt[a]]
      /\ UNCHANGED <<invoice, idem, outbox, psp, clients, busy, faults>>
  BY <1>5 DEF CommitSweep
<1>8. \A a \in Requests :
         /\ attempt[a].reconcile_attempts \in Nat
         /\ count[a] > 0 <=> a \in S
         /\ a \in S => count[a] = attempt[a].reconcile_attempts + 1
  BY <1>1, <1>6 DEF TypeOK, Attempt
<1>9. attempt' = [a \in Requests |->
                    IF a \in S
                    THEN [attempt[a] EXCEPT !.reconcile_attempts = @ + 1]
                    ELSE attempt[a]]
  BY <1>7, <1>8
<1>10. S \in SUBSET Requests
  BY <1>3 DEF Pending
<1>11. claim(w, S)
  BY <1>2, <1>3, <1>6, <1>7, <1>9 DEF claim, Sweeping
<1>12. \A a \in Requests : attempt'[a].status = attempt[a].status
  BY <1>1, <1>9 DEF TypeOK, Attempt
<1>13. Alone(w)
  BY <1>1, <1>2, CloseEffect
<1>14. Footprint(w)
  BY <1>1, <1>7, <1>12, <1>13 DEF Footprint, clients, TypeOK
<1> QED BY <1>1, <1>2, <1>10, <1>11, <1>14, ClosingTurn

\* The rows a claim and a settlement can have locked.
LEMMA ClaimLocks ==
    ASSUME NEW t \in Txs, Claiming(t), NEW row, row \in tx[t].locks
    PROVE  \/ row = KeyRow(t) /\ tx[t].stage \in {"claim invoice", "claim attempt", "commit"}
           \/ /\ row = InvoiceRow(InvoiceOf(t)) /\ Payable(InvoiceOf(t))
              /\ tx[t].stage \in {"claim attempt", "commit"}
           \/ row = AttemptRow(t) /\ tx[t].stage = "commit"
<1>1. PICK i : i = InvoiceOf(t)
  OBVIOUS
<1>2. /\ tx[t].stage \in {"claim key", "known key", "claim invoice", "claim attempt", "commit"}
      /\ tx[t].stage \in {"claim key", "known key"} => tx[t].locks = {}
      /\ tx[t].stage \in {"claim attempt", "commit"} => Payable(i)
      /\ tx[t].stage = "claim invoice" => tx[t].locks = {KeyRow(t)}
      /\ tx[t].stage = "claim attempt" => tx[t].locks = {KeyRow(t), InvoiceRow(i)}
      /\ tx[t].stage = "commit" => tx[t].locks = {KeyRow(t), InvoiceRow(i), AttemptRow(t)}
  BY <1>1 DEF Claiming
<1> QED BY <1>1, <1>2

LEMMA SettlementLocks ==
    ASSUME NEW t \in Txs, Settling(t), NEW a, a = tx[t].about, NEW row, row \in tx[t].locks
    PROVE  \/ row = AttemptRow(a) /\ a \in Pending
           \/ /\ row = InvoiceRow(InvoiceOf(a)) /\ is_collectible(InvoiceOf(a))
              /\ tx[t].stage \in {"settle key", "commit"}
           \/ row = KeyRow(a) /\ t \in Requests /\ tx[t].stage = "commit"
<1>1. PICK i : i = InvoiceOf(a)
  OBVIOUS
<1>2. \A x \in Matched(t) :
         \/ x = AttemptRow(a) /\ a \in Pending
         \/ x = InvoiceRow(i) /\ is_collectible(i)
  BY <1>1 DEF Matched
<1>3. /\ tx[t].stage \in {"settle attempt", "reload", "settle invoice", "settle key", "commit"}
      /\ tx[t].stage \in {"settle attempt", "reload"} => tx[t].locks = {}
      /\ tx[t].stage = "settle invoice" => tx[t].locks = {AttemptRow(a)} /\ a \in Pending
      /\ tx[t].stage = "settle key" => tx[t].locks = Matched(t)
      /\ tx[t].stage = "commit" =>
            tx[t].locks = Matched(t) \cup {x \in {KeyRow(a)} : t \in Requests}
  BY DEF Settling
<1> QED BY <1>1, <1>2, <1>3

\* Who has an invoice row locked found an invoice in it.
LEMMA LockedWasCreated ==
    ASSUME Good, NEW i \in Invoices, Locked(InvoiceRow(i))
    PROVE  invoice[i].state # "absent"
<1>1. PICK u \in Txs : InvoiceRow(i) \in tx[u].locks
  BY DEF Locked, Holds
<1>2. Shape(u)
  BY DEF Good, LockInv
<1>3. CASE Claiming(u)
  <2>0. PICK row : row = InvoiceRow(i) /\ row \in tx[u].locks
    BY <1>1
  <2>1. InvoiceOf(u) = i /\ Payable(InvoiceOf(u))
    <3>1. row # KeyRow(u) /\ row # AttemptRow(u)
      BY <2>0, RowsDiffer
    <3>2. row = InvoiceRow(InvoiceOf(u)) /\ Payable(InvoiceOf(u))
      BY <1>3, <2>0, <3>1, ClaimLocks
    <3> QED BY <2>0, <3>2, RowsDiffer
  <2> QED BY <2>1 DEF Payable, is_collectible
<1>4. CASE Settling(u)
  <2>0. PICK row : row = InvoiceRow(i) /\ row \in tx[u].locks
    BY <1>1
  <2>1. PICK a : a = tx[u].about
    OBVIOUS
  <2>2. InvoiceOf(a) = i /\ is_collectible(InvoiceOf(a))
    <3>1. row # KeyRow(a) /\ row # AttemptRow(a)
      BY <2>0, RowsDiffer
    <3>2. row = InvoiceRow(InvoiceOf(a)) /\ is_collectible(InvoiceOf(a))
      BY <1>4, <2>0, <2>1, <3>1, SettlementLocks
    <3> QED BY <2>0, <3>2, RowsDiffer
  <2> QED BY <2>2 DEF is_collectible
<1>5. CASE Sweeping(u)
  BY <1>1, <1>5, RowsDiffer DEF Sweeping
<1>6. CASE Voiding(u)
  BY <1>1, <1>6, RowsDiffer DEF Voiding
<1>7. CASE Resting(u)
  BY <1>1, <1>7 DEF Resting
<1> QED BY <1>2, <1>3, <1>4, <1>5, <1>6, <1>7 DEF Shape

\* An invoice is moved whose row nobody has locked, or only its own handler.
LEMMA MovedFootprint ==
    ASSUME Good, NEW i \in Invoices, Alone(i),
           InvoiceRow(i) \in tx[i].locks \/ ~Locked(InvoiceRow(i)),
           NEW x, invoice' = [invoice EXCEPT ![i].state = x],
           UNCHANGED <<attempt, idem, psp, clients, workers>>
    PROVE  Footprint(i)
BY DEF Footprint, Good, TypeOK, clients, workers

\* tx[i] of an invoice nobody has open, while its row is not locked
LEMMA InvoiceRests ==
    ASSUME Good, NEW i \in Invoices, ~Locked(InvoiceRow(i))
    PROVE  Resting(i)
<1>1. i \in Txs /\ Shape(i)
  BY DEF Txs, Good, LockInv
<1>2. ~Voiding(i)
  BY <1>1 DEF Voiding, Locked, Holds
<1> QED BY <1>1, <1>2, OneOwner, SettlingKind DEF Shape, Claiming, Sweeping

LEMMA MoveInvoiceTurn ==
    ASSUME Good, NEW i \in Invoices, create(i) \/ SendInvoice(i), tx' = tx
    PROVE  Turn(i)
<1>1. ~Locked(InvoiceRow(i))
  BY LockedWasCreated DEF create, MoveInvoice, SendInvoice
<1>2. /\ \E x : invoice' = [invoice EXCEPT ![i].state = x]
      /\ UNCHANGED <<attempt, idem, psp, clients, workers>>
  BY DEF create, SendInvoice, send, MoveInvoice
<1>3. i \in Txs /\ Alone(i)
  BY DEF Txs, Alone
<1>4. Footprint(i)
  BY <1>1, <1>2, <1>3, MovedFootprint
<1> QED BY <1>1, <1>3, <1>4, InvoiceRests, RestingTurn

LEMMA UpdateVoidTurn ==
    ASSUME Good, NEW i \in Invoices, UpdateVoid(i) PROVE Turn(i)
<1>1. i \in Txs /\ TxTypeOK /\ Exclusive /\ TypeOK
  BY DEF Txs, Good, LockInv
<1>2. /\ tx[i].locks = {} /\ tx[i].outcome = "none"
      /\ Go(i, "commit", {InvoiceRow(i)}) /\ UNCHANGED vars /\ ~Locked(InvoiceRow(i))
  BY DEF UpdateVoid, NoTx
<1>3. {InvoiceRow(i)} \in SUBSET Rows /\ "commit" \in Stages
  BY InvoiceRowType DEF Stages
<1>4. /\ tx'[i].stage = "commit" /\ tx'[i].locks = tx[i].locks \cup {InvoiceRow(i)}
      /\ tx'[i].outcome = tx[i].outcome /\ Alone(i) /\ TxTypeOK'
  BY <1>1, <1>2, <1>3, GoEffect
<1>5. tx'[i].locks = {InvoiceRow(i)}
  BY <1>2, <1>4
<1>6. Voiding(i)'
  BY <1>2, <1>4, <1>5, QuietRows DEF Voiding, UpdateVoid, InvoiceRow
<1>7. \A u \in Txs \ {i} : tx'[i].locks \cap tx[u].locks = {}
  BY <1>2, <1>5 DEF Locked, Holds
<1> QED BY <1>1, <1>2, <1>4, <1>6, <1>7, QuietFootprint DEF Turn, Shape

LEMMA CommitVoidTurn ==
    ASSUME Good, NEW i \in Invoices, CommitVoid(i) PROVE void(i) /\ Turn(i)
<1>1. i \in Txs /\ Shape(i) /\ TxTypeOK /\ TypeOK
  BY DEF Txs, Good, LockInv
<1>2. Voiding(i) /\ Close(i, "none")
  BY <1>1, StageTells DEF CommitVoid, Committing
<1>3. Alone(i)
  BY <1>1, <1>2, CloseEffect
<1>4. InvoiceRow(i) \in tx[i].locks
  BY <1>2 DEF Voiding
<1>5. void(i)
  BY <1>2 DEF void, MoveInvoice, CommitVoid, Voiding
<1>6. Footprint(i)
  BY <1>3, <1>4, MovedFootprint DEF CommitVoid
<1> QED BY <1>1, <1>2, <1>5, <1>6, ClosingTurn
-----------------------------------------------------------------------------
(* Rollbacks, and the steps no transaction is open for.                    *)

LEMMA PayLostTurn ==
    ASSUME Good, NEW r \in Requests, PayLost(r) \/ PayCharge(r),
           Close(r, "none") \/ (tx' = tx /\ Resting(r))
    PROVE  Turn(r)
<1>1. r \in Txs /\ TypeOK /\ TxTypeOK
  BY DEF Txs, Good
<1>2. Alone(r)
  BY <1>1, CloseEffect DEF Alone
<1>3. UNCHANGED <<rows, req, workers>> /\ \E h : handler' = [handler EXCEPT ![r] = h]
  BY DEF PayLost, PayCharge
<1>4. Footprint(r)
  BY <1>1, <1>2, <1>3, RepliedFootprint
<1> QED BY <1>1, <1>4, ClosingTurn, RestingTurn

LEMMA DropTurn ==
    ASSUME Good, NEW r \in Requests, Drop(r)
    PROVE  (UNCHANGED vars \/ PayLost(r)) /\ Turn(r)
<1>1. r \in Txs /\ TypeOK /\ TxTypeOK
  BY DEF Txs, Good
<1>2. CASE Close(r, "gone") /\ UNCHANGED vars
  BY <1>1, <1>2, CloseEffect, QuietFootprint, ClosingTurn DEF Good
<1>3. CASE PayLost(r) /\ Close(r, "none")
  BY <1>3, PayLostTurn
<1> QED BY <1>2, <1>3 DEF Drop

\* A worker's own fields, and no row.
LEMMA WorkerTurn ==
    ASSUME Good, NEW w \in Workers, UNCHANGED <<rows, clients>>,
           \A v \in Workers \ {w} : busy'[v] = busy[v] /\ batch'[v] = batch[v],
           Close(w, "none") \/ (tx' = tx /\ Resting(w))
    PROVE  Turn(w)
<1>1. w \in Txs /\ TypeOK /\ TxTypeOK
  BY DEF Txs, Good
<1>2. Alone(w)
  BY <1>1, CloseEffect DEF Alone
<1>3. Footprint(w)
  BY <1>2 DEF Footprint, rows, clients
<1> QED BY <1>1, <1>3, ClosingTurn, RestingTurn

LEMMA WorkerLostTurn ==
    ASSUME Good, NEW w \in Workers, WorkerLost(w)
    PROVE  (UNCHANGED vars \/ WorkerFault(w)) /\ Turn(w)
<1>1. CASE UNCHANGED vars
  BY <1>1, WorkerTurn DEF WorkerLost, vars, workers
<1>2. CASE WorkerFault(w)
  <2>1. UNCHANGED <<rows, clients>>
    BY <1>2 DEF WorkerFault
  <2>2. \A v \in Workers \ {w} : busy'[v] = busy[v] /\ batch'[v] = batch[v]
    BY <1>2 DEF WorkerFault, Visit, Good, TypeOK
  <2> QED BY <1>2, <2>1, <2>2, WorkerTurn DEF WorkerLost
<1> QED BY <1>1, <1>2 DEF WorkerLost

LEMMA UnresolvedTurn ==
    ASSUME Good, NEW w \in Workers, Unresolved(w),
           Close(w, "none") \/ (tx' = tx /\ Resting(w))
    PROVE  Turn(w)
<1>1. UNCHANGED <<rows, clients>>
  BY DEF Unresolved
<1>2. \A v \in Workers \ {w} : busy'[v] = busy[v] /\ batch'[v] = batch[v]
  BY DEF Unresolved, Good, TypeOK
<1> QED BY <1>1, <1>2, WorkerTurn

LEMMA ResubmitTurn ==
    ASSUME Good, NEW w \in Workers, NEW r \in Requests, Resubmit(w, r), tx' = tx, Resting(w)
    PROVE  Turn(w)
<1>1. UNCHANGED <<rows, clients>>
  BY DEF Resubmit
<1>2. \A v \in Workers \ {w} : busy'[v] = busy[v] /\ batch'[v] = batch[v]
  BY DEF Resubmit, Visit, Good, TypeOK
<1> QED BY <1>1, <1>2, WorkerTurn

LEMMA DetectTurn ==
    ASSUME Good, Detect
    PROVE  /\ UNCHANGED vars \/ (\E r \in Requests : PayLost(r))
                             \/ (\E w \in Workers : Unresolved(w))
           /\ \E t \in Txs : Turn(t)
<1>1. PICK t : Victim(t)
  BY DEF Detect
<1>2. CASE t \in Requests /\ Drop(t)
  BY <1>2, DropTurn DEF Txs
<1>3. CASE t \in Workers /\ Unresolved(t) /\ Close(t, "none")
  BY <1>3, UnresolvedTurn DEF Txs
<1> QED BY <1>1, <1>2, <1>3 DEF Victim

\* A claim only waits in a handler that has claimed nothing yet, and a
\* settlement in one that charges.
LEMMA ClaimedRests ==
    ASSUME Good, NEW r \in Requests, handler[r] = "claimed" PROVE Resting(r)
<1>1. r \in Txs /\ Shape(r)
  BY DEF Txs, Good, LockInv
<1>2. ~Settling(r)
  BY <1>1, OneOwner DEF Settling, Settler
<1> QED BY <1>1, <1>2, OneOwner DEF Shape, Claiming, Sweeping, Voiding

\* Nothing that a transaction looks at is taken back by the provider.
LEMMA ProcessRespects ==
    ASSUME NEW r \in Requests, PspProcess(r), tx' = tx, NEW u \in Txs
    PROVE  Respects(u)
BY DEF PspProcess, Respects, rows, clients, workers

LEMMA StutterRespects ==
    ASSUME UNCHANGED locksVars, NEW u \in Txs
    PROVE  Respects(u)
BY DEF locksVars, vars, rows, clients, workers, Respects
-----------------------------------------------------------------------------
(* Every step is a turn of one transaction, and one step of Payments.      *)

Stepped == [Next]_vars /\ \E t \in Txs : Turn(t)

LEMMA QuietStep == ASSUME UNCHANGED vars, NEW t \in Txs, Turn(t) PROVE Stepped
BY DEF Stepped

LEMMA RequestStep ==
    ASSUME Good, NEW r \in Requests,
           \/ PayBegin(r) \/ ClaimKey(r) \/ ReadKey(r) \/ LockInvoice(r) \/ InsertAttempt(r)
           \/ CommitClaim(r) \/ PayReturned(r) \/ Reload(r) \/ UpdateKey(r) \/ CommitSettle(r)
           \/ Drop(r)
    PROVE  Stepped
<1>0. r \in Txs
  BY DEF Txs
<1>1. CASE PayBegin(r)
  BY <1>0, <1>1, BeginTurn, QuietStep DEF PayBegin
<1>2. CASE ClaimKey(r)
  BY <1>0, <1>2, ClaimKeyTurn, QuietStep DEF ClaimKey
<1>3. CASE ReadKey(r)
  <2>1. PayKnownKey(r) /\ Turn(r)
    BY <1>3, RefusedTurn DEF ReadKey
  <2> QED BY <1>0, <2>1 DEF Stepped, Next
<1>4. CASE LockInvoice(r)
  <2>1. PayRefused(r) \/ UNCHANGED vars
    BY <1>4 DEF LockInvoice
  <2> QED BY <1>0, <1>4, <2>1, LockInvoiceTurn DEF Stepped, Next
<1>5. CASE InsertAttempt(r)
  <2>1. PayRefused(r) \/ UNCHANGED vars
    BY <1>5 DEF InsertAttempt
  <2> QED BY <1>0, <1>5, <2>1, InsertAttemptTurn DEF Stepped, Next
<1>6. CASE CommitClaim(r)
  <2>1. Claiming(r) /\ tx[r].stage = "commit"
    BY <1>0, <1>6, StageTells DEF Good, LockInv, CommitClaim, Committing
  <2>2. /\ handler[r] = "idle" /\ idem[KeyOf(r)].hash = None /\ Payable(InvoiceOf(r))
        /\ tx[r].due = AmountDue(InvoiceOf(r)) /\ ~InProgress(InvoiceOf(r))
    BY <2>1 DEF Claiming
  <2>3. PayClaim(r)
    BY <1>6, <2>2 DEF CommitClaim, PayClaim, Payable
  <2> QED BY <1>0, <1>6, <2>3, CommitClaimTurn DEF Stepped, Next
<1>7. CASE PayReturned(r)
  BY <1>0, <1>7, PayReturnedTurn, QuietStep DEF PayReturned, Begin
<1>8. CASE Reload(r)
  BY <1>0, <1>8, ReloadTurn, QuietStep DEF Reload
<1>9. CASE UpdateKey(r)
  BY <1>0, <1>9, UpdateKeyTurn, QuietStep DEF UpdateKey
<1>10. CASE CommitSettle(r)
  BY <1>0, <1>10, CommitSettleTurn DEF Stepped, Next
<1>11. CASE Drop(r)
  BY <1>0, <1>11, DropTurn DEF Stepped, Next
<1> QED BY <1>1, <1>2, <1>3, <1>4, <1>5, <1>6, <1>7, <1>8, <1>9, <1>10, <1>11

LEMMA SettlerStep ==
    ASSUME Good, NEW t \in Requests \cup Workers, UpdateAttempt(t) \/ UpdateInvoice(t)
    PROVE  Stepped
BY UpdateAttemptTurn, UpdateInvoiceTurn, QuietStep DEF UpdateAttempt, UpdateInvoice, Txs

LEMMA WorkerStepped ==
    ASSUME Good, NEW w \in Workers,
           \/ WorkerReturned(w) \/ GiveUp(w) \/ CommitReconciled(w) \/ CommitGiveUp(w)
           \/ CommitSweep(w) \/ WorkerLost(w)
           \/ \E S \in SUBSET Requests : Sweep(w, S)
           \/ Idling(w) /\ ((\E r \in Requests : Resubmit(w, r)) \/ Unresolved(w))
    PROVE  Stepped
<1>0. w \in Txs /\ Shape(w)
  BY DEF Txs, Good, LockInv
<1>1. CASE WorkerReturned(w)
  BY <1>0, <1>1, WorkerReturnedTurn, QuietStep DEF WorkerReturned, Begin
<1>2. CASE GiveUp(w)
  BY <1>0, <1>2, GiveUpTurn, QuietStep DEF GiveUp, Begin
<1>3. CASE CommitReconciled(w)
  BY <1>0, <1>3, CommitReconciledTurn DEF Stepped, Next
<1>4. CASE CommitGiveUp(w)
  BY <1>0, <1>4, CommitGiveUpTurn DEF Stepped, Next
<1>5. CASE CommitSweep(w)
  BY <1>0, <1>5, CommitSweepTurn DEF Stepped, Next
<1>6. CASE WorkerLost(w)
  BY <1>0, <1>6, WorkerLostTurn DEF Stepped, Next
<1>7. ASSUME NEW S \in SUBSET Requests, Sweep(w, S) PROVE Stepped
  BY <1>0, <1>7, SweepTurn, QuietStep DEF Sweep
<1>8. CASE Idling(w) /\ ((\E r \in Requests : Resubmit(w, r)) \/ Unresolved(w))
  <2>1. Resting(w) /\ tx' = tx
    BY <1>0, <1>8, NoTxRests DEF Idling
  <2>2. Turn(w)
    BY <1>8, <2>1, ResubmitTurn, UnresolvedTurn
  <2> QED BY <1>0, <1>8, <2>2 DEF Stepped, Next
<1> QED BY <1>1, <1>2, <1>3, <1>4, <1>5, <1>6, <1>7, <1>8

LEMMA InvoiceStepped ==
    ASSUME Good, NEW i \in Invoices,
           CommitVoid(i) \/ (create(i) /\ UNCHANGED tx) \/ SendInvoice(i) \/ UpdateVoid(i)
    PROVE  Stepped
<1>0. i \in Txs
  BY DEF Txs
<1>1. CASE CommitVoid(i)
  BY <1>0, <1>1, CommitVoidTurn DEF Stepped, Next
<1>2. CASE create(i) /\ UNCHANGED tx
  BY <1>0, <1>2, MoveInvoiceTurn DEF Stepped, Next
<1>3. CASE SendInvoice(i)
  BY <1>0, <1>3, MoveInvoiceTurn DEF Stepped, Next, SendInvoice
<1>4. CASE UpdateVoid(i)
  BY <1>0, <1>4, UpdateVoidTurn, QuietStep DEF UpdateVoid
<1> QED BY <1>1, <1>2, <1>3, <1>4

LEMMA LocksNextSteps ==
    ASSUME Good, LocksNext
    PROVE  \/ Stepped
           \/ \E r \in Requests : PspProcess(r) /\ tx' = tx
<1>1. ASSUME NEW t \in Txs, TxStep(t) PROVE Stepped
  BY <1>1, RequestStep, SettlerStep, WorkerStepped, InvoiceStepped DEF TxStep
<1>2. ASSUME NEW r \in Requests,
             \/ PayBegin(r) \/ PayReturned(r) \/ Drop(r)
             \/ (PayCharge(r) \/ (~Open(r) /\ PayLost(r)) \/ PspProcess(r)) /\ UNCHANGED tx
      PROVE  \/ Stepped
             \/ \E s \in Requests : PspProcess(s) /\ tx' = tx
  <2>1. r \in Txs /\ Shape(r)
    BY DEF Txs, Good, LockInv
  <2>2. CASE PayBegin(r) \/ PayReturned(r) \/ Drop(r)
    BY <2>2, RequestStep
  <2>3. CASE PayCharge(r) /\ tx' = tx
    <3>1. Resting(r)
      BY <2>3, ClaimedRests DEF PayCharge
    <3> QED BY <2>1, <2>3, <3>1, PayLostTurn DEF Stepped, Next
  <2>4. CASE ~Open(r) /\ PayLost(r) /\ tx' = tx
    <3>1. Resting(r)
      BY <2>1, <2>4, ClosedRests
    <3> QED BY <2>1, <2>4, <3>1, PayLostTurn DEF Stepped, Next
  <2> QED BY <1>2, <2>2, <2>3, <2>4
<1>3. ASSUME NEW w \in Workers,
             \/ WorkerReturned(w) \/ GiveUp(w) \/ WorkerLost(w)
             \/ \E S \in SUBSET Requests : Sweep(w, S)
             \/ Idling(w) /\ ((\E r \in Requests : Resubmit(w, r)) \/ Unresolved(w))
      PROVE  Stepped
  BY <1>3, WorkerStepped
<1>4. ASSUME NEW i \in Invoices,
             (create(i) /\ UNCHANGED tx) \/ SendInvoice(i) \/ UpdateVoid(i)
      PROVE  Stepped
  BY <1>4, InvoiceStepped
<1>5. CASE Detect
  BY <1>5, DetectTurn DEF Stepped, Next
<1> QED BY <1>1, <1>2, <1>3, <1>4, <1>5 DEF LocksNext

LEMMA StepImplements == Good /\ [LocksNext]_locksVars => [Next]_vars
BY LocksNextSteps DEF Stepped, Next, locksVars

LEMMA GoodStep == Good /\ [LocksNext]_locksVars => Good'
<1> SUFFICES ASSUME Good, [LocksNext]_locksVars PROVE Good'
  OBVIOUS
<1>1. [Next]_vars
  BY StepImplements
<1>2. TypeOK' /\ PaymentInv' /\ AnswerInv'
  BY <1>1, TypeNext, WorkStep, RowInvStep, NextBookStep, KeySpentStep, AnswersFollowStep,
     StoredTruthStep DEF Good, PaymentInv, AnswerInv
<1>3. Lasting
  BY <1>1, RowsLast DEF Good
<1>4. ASSUME \A u \in Txs : Respects(u), tx' = tx PROVE TxTypeOK' /\ LockInv'
  <2>1. \A u \in Txs : Shape(u)'
    BY <1>3, <1>4, ShapeStays DEF Good, LockInv
  <2> QED BY <1>4, <2>1 DEF Good, LockInv, Exclusive, TxTypeOK
<1>5. TxTypeOK' /\ LockInv'
  <2>1. CASE Stepped
    BY <1>3, <2>1, TurnKeeps DEF Stepped
  <2>2. CASE \E r \in Requests : PspProcess(r) /\ tx' = tx
    BY <1>4, <2>2, ProcessRespects
  <2>3. CASE UNCHANGED locksVars
    BY <1>4, <2>3, StutterRespects DEF locksVars
  <2> QED BY <2>1, <2>2, <2>3, LocksNextSteps
<1> QED BY <1>2, <1>5 DEF Good

LEMMA GoodInit == LocksInit => Good
<1> SUFFICES ASSUME LocksInit PROVE Good
  OBVIOUS
<1>1. TypeOK /\ PaymentInv /\ AnswerInv
  BY TypeInit, InvInit, AnswerInit DEF LocksInit
<1>2. tx = [t \in Txs |-> NoTx]
  BY DEF LocksInit
<1>3. TxTypeOK
  BY <1>2 DEF TxTypeOK, NoTx, Stages
<1>4. \A t \in Txs : Resting(t)
  BY <1>2 DEF Resting, NoTx
<1>5. LockInv
  BY <1>4 DEF LockInv, Shape, Exclusive, Resting
<1> QED BY <1>1, <1>3, <1>5 DEF Good

LEMMA AlwaysGood == LocksSpec => []Good
BY GoodInit, GoodStep, PTL DEF LocksSpec

\* The transactions are records of the shapes the module says.
THEOREM TxTypeCorrect == LocksSpec => []TxTypeOK
BY AlwaysGood, PTL DEF Good

\* Every open transaction is a claim, a settlement, a sweep or a void that has
\* locked what its statements so far must have locked, nothing is locked twice,
\* and what a claim read under FOR UPDATE still holds when it commits.
\* (phase 1 of pay(), settle(), claim(), void())
THEOREM LocksInvariant == LocksSpec => []LockInv
BY AlwaysGood, PTL DEF Good

\* Statement by statement, with waits, rollbacks and deadlocks in between, the
\* pay path does what Payments says in one step per transaction.
THEOREM TransactionsAreAtomic == LocksSpec => ImplementsPayments
<1>1. LocksInit => Init
  BY DEF LocksInit
<1>2. Good /\ [LocksNext]_locksVars => [UNCHANGED vars \/ Next]_vars
  BY StepImplements
<1> QED BY <1>1, <1>2, AlwaysGood, PTL DEF LocksSpec, ImplementsPayments

-----------------------------------------------------------------------------
(* Deadlocks.                                                              *)

LEMMA ClaimantWants ==
    ASSUME NEW t \in Txs, tx[t].stage = "claim attempt", NEW x \in Wants(t)
    PROVE  \E b \in Requests : x = AttemptRow(b) /\ InvoiceOf(b) = InvoiceOf(tx[t].about)
BY DEF Wants

\* In a deadlock everybody is waited for: without whom nobody waits for, the
\* others would be one already.
LEMMA EachIsWaitedFor ==
    ASSUME NEW S \in SUBSET Txs, Deadlock(S), NEW t \in S
    PROVE  \E v \in S : t \in WaitsFor(v)
<1> SUFFICES ASSUME \A v \in S : t \notin WaitsFor(v) PROVE FALSE
  OBVIOUS
<1>1. t \notin WaitsFor(t)
  BY DEF WaitsFor
<1>2. \A v \in S : WaitsFor(v) \cap (S \ {t}) # {}
  BY DEF Deadlock, AllWait
<1>3. AllWait(S \ {t})
  BY <1>1, <1>2 DEF AllWait
<1>4. S \ {t} = S
  BY <1>3 DEF Deadlock
<1> QED BY <1>4

\* Transactions that have something locked, and each waits for another of them.
Jam(S) == AllWait(S) /\ \A t \in S : tx[t].locks # {}

LEMMA DeadlockJams ==
    ASSUME NEW S \in SUBSET Txs, Deadlock(S) PROVE Jam(S)
<1>1. ASSUME NEW t \in S PROVE tx[t].locks # {}
  BY EachIsWaitedFor DEF WaitsFor
<1> QED BY <1>1 DEF Jam, Deadlock

LEMMA JamStages ==
    ASSUME Good, NEW S \in SUBSET Txs, Jam(S), NEW t \in S
    PROVE  /\ tx[t].stage \in {"settle key", "claim invoice", "claim attempt",
                               "settle invoice"}
           /\ tx[t].stage = "settle key" => Settling(t)
           /\ tx[t].stage \in {"claim invoice", "claim attempt"} => Claiming(t)
           /\ tx[t].stage = "settle invoice" => Settling(t)
<1>1. t \in Txs /\ Shape(t) /\ TypeOK
  BY DEF Good, LockInv
<1>2. tx[t].locks # {}
  BY DEF Jam
<1>3. Wants(t) # {}
  BY DEF Jam, AllWait, WaitsFor
<1>4. tx[t].stage \in {"claim key", "settle key", "claim invoice", "claim attempt",
                       "settle attempt", "settle invoice"}
  BY <1>1, <1>3, WantsAt
<1>5. tx[t].stage # "claim key"
  BY <1>1, <1>2, StageTells DEF Claiming
<1>6. tx[t].stage # "settle attempt"
  BY <1>1, <1>2, StageTells DEF Settling
<1> QED BY <1>1, <1>4, <1>5, <1>6, StageTells

\* Whose key row is locked, other than by its own settlement, has a new key.
LEMMA NobodyAtTheKey ==
    ASSUME Good, NEW S \in SUBSET Txs, Jam(S), NEW t \in S
    PROVE  tx[t].stage # "settle key"
<1> SUFFICES ASSUME tx[t].stage = "settle key" PROVE FALSE
  OBVIOUS
<1>1. t \in Txs /\ Settling(t) /\ TypeOK /\ PaymentInv
  BY JamStages DEF Good
<1>2. t \in Requests /\ tx[t].about = t /\ Settler(t, t)
  BY <1>1, SettlingKind DEF Settling
<1>3. Wants(t) = {KeyRow(t)}
  BY <1>1, <1>2, WantsAt
<1>4. PICK u \in S : KeyRow(t) \in tx[u].locks
  BY <1>3 DEF Jam, AllWait, WaitsFor
<1>5. u \in Txs /\ tx[u].stage # "commit"
  BY JamStages
<1>6. PICK row : row = KeyRow(t)
  OBVIOUS
<1>7. CASE Claiming(u)
  <2>1. row # InvoiceRow(InvoiceOf(u)) /\ row # AttemptRow(u)
    BY <1>6, RowsDiffer
  <2>2. row = KeyRow(u) /\ tx[u].stage \in {"claim invoice", "claim attempt", "commit"}
    BY <1>4, <1>5, <1>6, <1>7, <2>1, ClaimLocks
  <2>3. KeyOf(t) = KeyOf(u) /\ idem[KeyOf(u)].hash = None
    BY <1>6, <1>7, <2>2, RowsDiffer DEF Claiming
  <2>4. Exists(t) /\ KeyOf(t) \in Keys
    BY <1>1, <1>2, SettlerExists, KeyAndHash DEF Exists
  <2> QED BY <1>2, <2>3, <2>4 DEF Good, AnswerInv, KeySpentOnOneAttempt
<1>8. CASE Settling(u)
  <2>1. PICK a : a = tx[u].about
    OBVIOUS
  <2>2. row # InvoiceRow(InvoiceOf(a)) /\ row # AttemptRow(a)
    BY <1>6, RowsDiffer
  <2> QED BY <1>4, <1>5, <1>6, <1>8, <2>1, <2>2, SettlementLocks
<1> QED BY <1>5, <1>7, <1>8, JamStages

\* In a jam, who has an invoice row is a claim that waits at the pending index.
LEMMA InvoiceHolder ==
    ASSUME Good, NEW S \in SUBSET Txs, Jam(S), NEW u \in S, NEW i,
           InvoiceRow(i) \in tx[u].locks
    PROVE  tx[u].stage = "claim attempt"
<1>1. PICK row : row = InvoiceRow(i)
  OBVIOUS
<1>2. u \in Txs /\ tx[u].stage \in {"claim invoice", "claim attempt", "settle invoice"}
  BY JamStages, NobodyAtTheKey
<1>3. CASE tx[u].stage = "claim invoice"
  <2>1. tx[u].locks = {KeyRow(u)}
    BY <1>3, JamStages DEF Claiming
  <2> QED BY <2>1, RowsDiffer
<1>4. CASE tx[u].stage = "settle invoice"
  <2>1. tx[u].locks = {AttemptRow(tx[u].about)}
    BY <1>4, JamStages DEF Settling
  <2> QED BY <2>1, RowsDiffer
<1> QED BY <1>2, <1>3, <1>4

\* Every jam has in it a claim and a settlement that wait for each other.
Circle(c, u) ==
    /\ c \in Requests /\ tx[c].stage = "claim attempt" /\ handler[c] = "idle"
    /\ u \in Requests \cup Workers
    /\ tx[u].stage = "settle invoice" /\ tx[u].outcome = "succeeded"
    /\ u \in WaitsFor(c) /\ c \in WaitsFor(u)

LEMMA JamHasCircle ==
    ASSUME Good, NEW S \in SUBSET Txs, Jam(S)
    PROVE  \E c, u \in S : Circle(c, u)
<1>1. PICK c \in S : tx[c].stage = "claim attempt"
  <2>1. PICK t \in S : TRUE
    BY DEF Jam, AllWait
  <2>2. PICK x \in Wants(t), v \in S : x \in tx[v].locks
    BY DEF Jam, AllWait, WaitsFor
  <2>3. PICK a : a = tx[t].about
    OBVIOUS
  <2>4. CASE tx[t].stage \in {"claim invoice", "settle invoice"}
    <3>1. Wants(t) \subseteq {InvoiceRow(InvoiceOf(a))}
      BY <2>3, <2>4, WantsAt
    <3> QED BY <2>2, <3>1, InvoiceHolder
  <2> QED BY <2>4, JamStages, NobodyAtTheKey
<1>2. c \in Txs /\ Claiming(c)
  BY <1>1, JamStages
<1>3. /\ c \in Requests /\ tx[c].about = c /\ handler[c] = "idle"
      /\ tx[c].locks = {KeyRow(c), InvoiceRow(InvoiceOf(c))}
  BY <1>1, <1>2 DEF Claiming
<1>4. PICK u \in S : u # c /\ u \in WaitsFor(c)
  BY DEF Jam, AllWait, WaitsFor
<1>5. PICK b \in Requests : AttemptRow(b) \in tx[u].locks /\ InvoiceOf(b) = InvoiceOf(c)
  BY <1>1, <1>2, <1>3, <1>4, ClaimantWants DEF WaitsFor
<1>6. tx[u].stage = "settle invoice" /\ Settling(u)
  <2>1. CASE tx[u].stage \in {"claim invoice", "claim attempt"}
    <3>1. tx[u].locks \subseteq {KeyRow(u), InvoiceRow(InvoiceOf(u))}
      BY <2>1, JamStages DEF Claiming
    <3> QED BY <1>5, <3>1, RowsDiffer
  <2> QED BY <2>1, JamStages, NobodyAtTheKey
<1>7. /\ tx[u].locks = {AttemptRow(tx[u].about)} /\ tx[u].outcome = "succeeded"
      /\ u \in Requests \cup Workers
  BY <1>6, SettlingKind DEF Settling
<1>8. tx[u].about = b
  BY <1>5, <1>7, RowsDiffer
<1>9. Wants(u) = {InvoiceRow(InvoiceOf(c))}
  <2>1. Wants(u) # {}
    BY DEF Jam, AllWait, WaitsFor
  <2>2. Wants(u) \subseteq {InvoiceRow(InvoiceOf(b))}
    BY <1>6, <1>8, WantsAt
  <2> QED BY <1>5, <2>1, <2>2
<1>10. c \in WaitsFor(u)
  BY <1>2, <1>3, <1>4, <1>9 DEF WaitsFor
<1> QED BY <1>1, <1>3, <1>4, <1>6, <1>7, <1>10 DEF Circle

LEMMA DeadlocksAreKnown == Good => OnlySuccessMeetsClaim
<1> SUFFICES ASSUME Good, NEW S \in SUBSET Waiting, Deadlock(S)
             PROVE  \E r \in Requests, t \in Requests \cup Workers :
                       /\ S = {r, t}
                       /\ tx[r].stage = "claim attempt"
                       /\ tx[t].stage = "settle invoice" /\ tx[t].outcome = "succeeded"
  BY DEF OnlySuccessMeetsClaim
<1>1. S \in SUBSET Txs
  BY DEF Waiting
<1>2. PICK c, u \in S : Circle(c, u)
  BY <1>1, DeadlockJams, JamHasCircle
<1>3. AllWait({c, u})
  BY <1>2 DEF AllWait, Circle
<1>4. S = {c, u}
  BY <1>3 DEF Deadlock
<1> QED BY <1>2, <1>4 DEF Circle

\* Whatever the numbers of handlers, replicas, invoices and keys, the only
\* deadlock is a claim that waits for a settlement that waits for the claim's
\* invoice. (the order in which phase 1 and settle() lock their rows)
THEOREM DeadlocksAreOfTwo == LocksSpec => []OnlySuccessMeetsClaim
BY AlwaysGood, DeadlocksAreKnown, PTL

-----------------------------------------------------------------------------
(* Progress, as far as it is a matter of states.                           *)

LEMMA OpenIsPrepared ==
    ASSUME Good, NEW t \in Txs, Open(t)
    PROVE  Prepared(t)
<1>1. Shape(t) /\ tx[t].stage \notin {"none", "gone"}
  BY DEF Good, LockInv, Open
<1>2. CASE Claiming(t)
  BY <1>2 DEF Claiming, Prepared
<1>3. CASE Settling(t)
  <2>1. tx[t].outcome # "none"
    BY <1>3 DEF Settling, Settler, Outcomes
  <2>2. /\ t \in Requests => handler[t] = "charging"
        /\ t \notin Requests => t \in Workers /\ tx[t].outcome # "unknown"
    BY <1>3, OneOwner DEF Settling, Settler
  <2> QED BY <1>3, <2>1, <2>2 DEF Settling, Prepared
<1>4. CASE Sweeping(t)
  BY <1>4 DEF Sweeping, Prepared
<1>5. CASE Voiding(t)
  BY <1>5 DEF Voiding, Prepared
<1> QED BY <1>1, <1>2, <1>3, <1>4, <1>5 DEF Shape, Resting

\* An open transaction waits for row locks and for nothing else: whenever no
\* lock is in its way, its next statement finds what it needs. (the split of
\* pay() into three phases, settle(), claim(), void())
THEOREM LocksAreAllThatIsWaitedFor ==
    LocksSpec => [](\A t \in Txs : Open(t) => WaitsFor(t) # {} \/ CanStep(t))
<1>1. Good => \A t \in Txs : Open(t) => WaitsFor(t) # {} \/ CanStep(t)
  BY OpenIsPrepared DEF CanStep
<1> QED BY <1>1, AlwaysGood, PTL

\* If nobody can run, everybody with a lock waits for somebody with a lock, and
\* so there is a circle.
LEMMA SomebodyMoves == Good => NoStandstill
<1> SUFFICES ASSUME Good, NEW t0 \in Txs, Open(t0),
                    \A t \in Txs : Open(t) => ~CanStep(t)
             PROVE  \E S \in SUBSET Waiting :
                       Deadlock(S) /\ \E r \in S \cap Requests : handler[r] = "idle"
  BY DEF NoStandstill
<1> DEFINE S0 == {t \in Txs : tx[t].locks # {}}
<1>1. \A t \in Txs : Open(t) => WaitsFor(t) # {}
  BY OpenIsPrepared DEF CanStep
<1>2. \A t \in Txs : WaitsFor(t) \subseteq S0
  BY DEF WaitsFor
<1>3. \A t \in S0 : Open(t)
  <2> SUFFICES ASSUME NEW t \in S0 PROVE Open(t)
    OBVIOUS
  <2>1. Shape(t) /\ ~Resting(t)
    BY DEF Good, LockInv, Resting
  <2> QED BY <2>1 DEF Shape, Claiming, Settling, Sweeping, Voiding, Open
<1>4. Jam(S0)
  <2>1. S0 # {}
    BY <1>1, <1>2
  <2>2. \A t \in S0 : WaitsFor(t) \cap S0 # {}
    BY <1>1, <1>2, <1>3
  <2> QED BY <2>1, <2>2 DEF Jam, AllWait
<1>5. PICK c, u \in S0 : Circle(c, u)
  BY <1>4, JamHasCircle
<1>6. {c, u} \in SUBSET Waiting
  BY <1>1, <1>3, <1>5 DEF Waiting
<1>7. AllWait({c, u})
  BY <1>5 DEF AllWait, Circle
<1>8. \A T \in SUBSET {c, u} : AllWait(T) => T = {c, u}
  <2> SUFFICES ASSUME NEW T \in SUBSET {c, u}, AllWait(T) PROVE T = {c, u}
    OBVIOUS
  <2>1. \A t \in T : \E v \in T : v # t
    BY DEF AllWait, WaitsFor
  <2> QED BY <2>1 DEF AllWait
<1>9. Deadlock({c, u})
  BY <1>7, <1>8 DEF Deadlock
<1> QED BY <1>5, <1>6, <1>9 DEF Circle

\* However many handlers, replicas and invoices: while transactions are open,
\* one of them can run its next statement, or PostgreSQL finds a deadlock that
\* has in it a claim that can be rolled back. Nothing is ever left hanging that
\* neither a statement nor the deadlock detector moves on.
THEOREM NothingHangs == LocksSpec => []NoStandstill
BY AlwaysGood, SomebodyMoves, PTL

-----------------------------------------------------------------------------
(* What Payments promises is kept statement by statement.                  *)

\* Every behaviour of the statements is one of Payments, so that whatever is
\* proved of Payments holds of the rows, the answers and the provider here.
THEOREM LocksImplementPayments == LocksSpec => Spec
<1>1. [UNCHANGED vars \/ Next]_vars => [Next]_vars
  OBVIOUS
<1>2. ImplementsPayments => Spec
  BY <1>1, PTL DEF ImplementsPayments, Spec
<1> QED BY <1>2, TransactionsAreAtomic, PTL

\* And so, statement by statement, a customer is charged at most once.
THEOREM LocksChargeOnce == LocksSpec => []ChargedOnce
BY LocksImplementPayments, NeverChargedTwice, PTL

\* Clients are told the truth though their answers are put together from
\* several statements and stored in a transaction that may wait, be rolled
\* back or be chosen as the victim of a deadlock.
THEOREM LocksAnswerTruly ==
    LocksSpec => [](AnswersAreTrue /\ KeySpentOnOneAttempt)
BY LocksImplementPayments, ClientsAreToldTheTruth, KeysAreSpentOnce, PTL

\* Money, verdicts and events agree in what is committed, and a settled attempt
\* is rewritten by no transaction, however the statements of several settlers,
\* claims and voids interleave.
THEOREM LocksKeepTheBooks ==
    /\ LocksSpec => [](MoneyMatchesAttempts /\ VerdictsAreTrue /\ EventsMatchAttempts)
    /\ LocksSpec => SettledIsFinal
<1>1. LocksSpec => [](MoneyMatchesAttempts /\ VerdictsAreTrue /\ EventsMatchAttempts)
  BY LocksImplementPayments, MoneyIsAccountedFor, VerdictsHold, EventsAreTrue, PTL
<1>2. LocksSpec => SettledIsFinal
  BY LocksImplementPayments, SettledStays, PTL
<1> QED BY <1>1, <1>2


\* Nor do the statements let two replicas draw one ticket, ask the provider on
\* a ticket that is used up, replace an answer that was given, or learn of an
\* outcome in a way the provider contract does not allow: the claims of the
\* reconciler are transactions that wait for rows and deadlock like any other.
THEOREM LocksKeepTheirWord ==
    /\ LocksSpec => []TicketsDiffer
    /\ LocksSpec => TicketsAreFresh /\ AnswersStay
    /\ LocksSpec => Contract!Spec
<1>1. LocksSpec => []TicketsDiffer
  BY LocksImplementPayments, TicketsAreUnique, PTL
<1>2. LocksSpec => TicketsAreFresh /\ AnswersStay
  BY LocksImplementPayments, TicketsAreDrawnAndSpent, StoredAnswersStay, PTL
<1>3. LocksSpec => Contract!Spec
  BY LocksImplementPayments, RowsLearnByContract, PTL
<1> QED BY <1>1, <1>2, <1>3

=============================================================================

------------------------ MODULE PaymentsAnswersProofs ------------------------
(***************************************************************************)
(* Proofs about what the pay path says: the keys it spends, the answers it *)
(* gives at once or by replay, the events it emits, and the lifecycle of   *)
(* the invoices it moves.  They rest on the row invariant of               *)
(* PaymentsProofs.                                                         *)
(***************************************************************************)
EXTENDS PaymentsProofs, PaymentsLifecycle

-----------------------------------------------------------------------------
(* What the steps do to keys and answers.  Every step is one of four kinds.*)

BooksKept ==
    /\ \A x \in Requests : Exists(x)' <=> Exists(x)
    /\ \A x \in Requests :
          handler'[x] \in {"claimed", "charging"} => handler[x] \in {"claimed", "charging"}
    /\ UNCHANGED <<idem, reply, req>>

\* Refused, or given the answer stored under the key.
Replied(r) ==
    /\ \E a : /\ a.attempt = None \/ a = idem[KeyOf(r)].reply
              /\ reply' = [reply EXCEPT ![r] = a]
    /\ handler' = [handler EXCEPT ![r] = "done"]
    /\ UNCHANGED <<rows, psp, req, workers>>

Booked(r) ==
    /\ handler[r] = "idle" /\ ~Exists(r)
    /\ idem[KeyOf(r)].hash = None
    /\ idem' = [idem EXCEPT ![KeyOf(r)].hash = hash_request(r)]
    /\ handler' = [handler EXCEPT ![r] = "claimed"]
    /\ Exists(r)' /\ \A x \in Requests \ {r} : Exists(x)' <=> Exists(x)
    /\ UNCHANGED <<reply, req>>

Told(r) ==
    /\ handler[r] = "charging" /\ Exists(r)
    /\ \E a : /\ a.attempt = r /\ IsTrue(a)'
              /\ idem' = [idem EXCEPT ![KeyOf(r)].reply = a]
              /\ reply' = [reply EXCEPT ![r] = a]
    /\ handler' = [handler EXCEPT ![r] = "done"]
    /\ \A x \in Requests : Exists(x)' <=> Exists(x)
    /\ UNCHANGED req

BookStep ==
    BooksKept \/ \E r \in Requests : Replied(r) \/ Booked(r) \/ Told(r)

\* A step that inserts no attempt leaves every other one where it was.
LEMMA SameRows ==
    ASSUME attempt' = attempt
    PROVE  \A x \in Requests : Exists(x)' <=> Exists(x)
BY DEF Exists

\* The answer of a handler that settles is true of the provider, whoever
\* settled the attempt before it.
LEMMA SettleTellsTheTruth ==
    ASSUME TypeOK, PaymentInv, NEW r \in Requests, NEW o \in Outcomes(r),
           NEW seen \in {"pending", attempt[r].status}, settle(r, o), ledger' = ledger
    PROVE  \E a : a = SettleReply(r, o, seen) /\ a.attempt = r /\ IsTrue(a)'
<1> PICK a : a = SettleReply(r, o, seen)
  OBVIOUS
<1>0. /\ attempt \in [Requests -> Attempt]
      /\ o = "unknown" \/ (o = ledger[r] /\ o \in {"succeeded", "failed"})
  BY DEF TypeOK, Outcomes
<1>1. a.attempt = r
  BY DEF SettleReply
<1>2. a.status = 200 => ledger[r] = "succeeded"
  BY <1>0 DEF SettleReply, PaymentInv, RowInv, VerdictsAreTrue
<1>3. a.code # "none" =>
         \/ a.code = "declined" /\ o = "failed"
         \/ o = "unknown" /\ attempt[r].status = "failed" /\ a.code = attempt[r].code
  BY <1>0 DEF SettleReply
<1>4. a.code = "declined" => ledger[r] = "failed"
  BY <1>0, <1>3 DEF PaymentInv, RowInv, VerdictsAreTrue
<1>5. a.code = "reconciliation_exhausted" => HandedOff(r)'
  BY <1>0, <1>3 DEF settle, HandedOff
<1> QED BY <1>1, <1>2, <1>4, <1>5 DEF IsTrue

LEMMA NextBookStep == TypeOK /\ PaymentInv /\ [Next]_vars => BookStep
<1> SUFFICES ASSUME TypeOK, PaymentInv, [Next]_vars PROVE BookStep
  OBVIOUS
<1> USE DEF BookStep
<1>0. /\ WorkIsRecorded
      /\ handler \in [Requests -> {"idle", "claimed", "charging", "done"}]
      /\ attempt \in [Requests -> Attempt]
      /\ req \in [Requests -> Params]
  BY DEF PaymentInv, TypeOK
<1>1. ASSUME NEW i \in Invoices, create(i) \/ send(i) \/ void(i) PROVE BookStep
  BY <1>1, SameRows DEF create, send, void, MoveInvoice, clients, BooksKept
<1>2. ASSUME NEW r \in Requests, PayKnownKey(r) PROVE BookStep
  BY <1>2 DEF PayKnownKey, Refuse, Answer, Replied
<1>3. ASSUME NEW r \in Requests, PayRefused(r) PROVE BookStep
  <2>1. PICK s, c : Refuse(r, s, c)
    BY <1>3 DEF PayRefused
  <2>2. [status |-> s, code |-> c, attempt |-> None].attempt = None
    OBVIOUS
  <2> QED BY <2>1, <2>2 DEF Refuse, Answer, Replied
<1>4. ASSUME NEW r \in Requests, PayClaim(r) PROVE BookStep
  <2>1. attempt' = [attempt EXCEPT ![r] =
              [@ EXCEPT !.status = "pending", !.amount = AmountDue(InvoiceOf(r))]]
    BY <1>4 DEF PayClaim
  <2>2. /\ attempt'[r].status = "pending"
        /\ \A x \in Requests \ {r} : attempt'[x] = attempt[x]
    BY <1>0, <2>1, UpdateEffect
  <2>3. ~Exists(r)
    BY <1>0, <1>4 DEF PayClaim, WorkIsRecorded
  <2> QED BY <1>4, <2>2, <2>3 DEF PayClaim, Booked, Exists
<1>5. ASSUME NEW r \in Requests, PayCharge(r) PROVE BookStep
  BY <1>0, <1>5, SameRows DEF PayCharge, rows, BooksKept
<1>6. ASSUME NEW r \in Requests, PaySettle(r) PROVE BookStep
  <2>1. PICK o \in Outcomes(r), seen \in {"pending", attempt[r].status} :
          /\ settle(r, o)
          /\ idem' = [idem EXCEPT ![KeyOf(r)].reply = SettleReply(r, o, seen)]
          /\ Answer(r, SettleReply(r, o, seen))
    BY <1>6 DEF PaySettle
  <2>2. handler[r] = "charging" /\ req' = req /\ ledger' = ledger
    BY <1>6 DEF PaySettle, psp
  <2>3. PICK a : a = SettleReply(r, o, seen) /\ a.attempt = r /\ IsTrue(a)'
    BY <2>1, <2>2, SettleTellsTheTruth
  <2>4. \A x \in Requests : Exists(x)' <=> Exists(x)
    BY <2>1, <2>2, SettleInsertsNothing
  <2>5. Exists(r)
    BY <1>0, <2>2 DEF WorkIsRecorded
  <2>6. idem' = [idem EXCEPT ![KeyOf(r)].reply = a] /\ Answer(r, a)
    BY <2>1, <2>3
  <2> QED BY <2>2, <2>3, <2>4, <2>5, <2>6 DEF Answer, Told
<1>7. ASSUME NEW r \in Requests, PayLost(r) PROVE BookStep
  BY <1>0, <1>7, SameRows DEF PayLost, rows, BooksKept
<1>8. ASSUME NEW r \in Requests, PspProcess(r) PROVE BookStep
  BY <1>8, SameRows DEF PspProcess, rows, clients, BooksKept
<1>9. ASSUME NEW w \in Workers, NEW S \in SUBSET Requests, claim(w, S) PROVE BookStep
  <2>1. \A x \in Requests : Exists(x)' <=> Exists(x)
    BY <1>0, <1>9 DEF claim, Exists, Attempt
  <2> QED BY <1>9, <2>1 DEF claim, clients, BooksKept
<1>10. ASSUME NEW w \in Workers, NEW r \in Requests, give_up(w, r) PROVE BookStep
  <2>1. \A x \in Requests : Exists(x)' <=> Exists(x)
    <3>1. CASE attempt[r].status = "pending"
      <4>1. attempt' = Failed(r, "reconciliation_exhausted")
        BY <1>10, <3>1 DEF give_up
      <4>2. /\ attempt'[r].status = "failed"
            /\ \A x \in Requests \ {r} : attempt'[x] = attempt[x]
        BY <1>0, <4>1, UpdateEffect
      <4> QED BY <3>1, <4>2 DEF Exists
    <3>2. CASE attempt[r].status # "pending"
      BY <1>10, <3>2, SameRows DEF give_up
    <3> QED BY <3>1, <3>2
  <2> QED BY <1>10, <2>1 DEF give_up, clients, BooksKept
<1>11. ASSUME NEW w \in Workers, NEW r \in Requests, Resubmit(w, r) PROVE BookStep
  BY <1>11, SameRows DEF Resubmit, rows, clients, BooksKept
<1>12. ASSUME NEW w \in Workers, Reconciled(w) PROVE BookStep
  <2>1. busy[w] \in Requests
    BY <1>12 DEF Reconciled, TypeOK
  <2>2. PICK o \in Outcomes(busy[w]) : settle(busy[w], o)
    BY <1>12 DEF Reconciled
  <2>3. \A x \in Requests : Exists(x)' <=> Exists(x)
    BY <1>12, <2>1, <2>2, SettleInsertsNothing DEF Reconciled, psp, clients
  <2> QED BY <1>12, <2>3 DEF Reconciled, clients, BooksKept
<1>13. ASSUME NEW w \in Workers, Unresolved(w) PROVE BookStep
  BY <1>13, SameRows DEF Unresolved, rows, clients, BooksKept
<1>14. ASSUME NEW w \in Workers, WorkerFault(w) PROVE BookStep
  BY <1>14, SameRows DEF WorkerFault, rows, clients, BooksKept
<1>15. CASE UNCHANGED vars
  BY <1>15, SameRows DEF vars, rows, clients, BooksKept
<1> QED
  BY <1>1, <1>2, <1>3, <1>4, <1>5, <1>6, <1>7, <1>8, <1>9, <1>10, <1>11,
     <1>12, <1>13, <1>14, <1>15 DEF Next

-----------------------------------------------------------------------------
(* Keys and answers.                                                       *)

\* What was true of an attempt's outcome stays true.
LEMMA TruthStays ==
    ASSUME TypeOK, PaymentInv, [Next]_vars, NEW a, a.attempt \in Requests, IsTrue(a)
    PROVE  IsTrue(a)'
<1>1. RowStep
  BY NextRowStep DEF PaymentInv
<1>2. LedgerGrows
  BY <1>1 DEF RowStep, RowsKept, InvoiceMoved, Inserted, Won, Lost, LedgerGrows
<1>3. HandedOff(a.attempt) => HandedOff(a.attempt)'
  BY <1>1 DEF RowStep, RowsKept, InvoiceMoved, Inserted, Won, Lost, Kept, Exists, HandedOff
<1> QED BY <1>2, <1>3 DEF IsTrue, LedgerGrows

LEMMA KeyAndHash ==
    ASSUME TypeOK, NEW r \in Requests
    PROVE  KeyOf(r) \in Keys /\ hash_request(r) # None
BY PaymentsAssumption DEF TypeOK, Params, KeyOf, hash_request, Hashes

LEMMA KeySpentStep ==
    TypeOK /\ KeySpentOnOneAttempt /\ BookStep => KeySpentOnOneAttempt'
<1> SUFFICES ASSUME TypeOK, KeySpentOnOneAttempt, BookStep PROVE KeySpentOnOneAttempt'
  OBVIOUS
<1>0. /\ \A k \in Keys, x \in Requests :
            idem[k].hash = None => ~(Exists(x) /\ KeyOf(x) = k)
      /\ \A k \in Keys : idem[k].hash # None =>
            \E r \in Requests : /\ Exists(r) /\ KeyOf(r) = k /\ idem[k].hash = hash_request(r)
                               /\ \A x \in Requests : Exists(x) /\ KeyOf(x) = k => x = r
  BY DEF KeySpentOnOneAttempt
<1>1. SUFFICES /\ req' = req
               /\ \A k \in Keys, x \in Requests :
                     idem'[k].hash = None => ~(Exists(x)' /\ KeyOf(x) = k)
               /\ \A k \in Keys : idem'[k].hash # None =>
                     \E r \in Requests :
                        /\ Exists(r)' /\ KeyOf(r) = k /\ idem'[k].hash = hash_request(r)
                        /\ \A x \in Requests : Exists(x)' /\ KeyOf(x) = k => x = r
  <2> SUFFICES ASSUME NEW k \in Keys
               PROVE  LET made == {r \in Requests : Exists(r) /\ KeyOf(r) = k} IN
                      /\ idem'[k].hash = None => made' = {}
                      /\ idem'[k].hash # None =>
                           \E r \in made' : made' = {r} /\ idem'[k].hash = hash_request(r)'
    BY DEF KeySpentOnOneAttempt
  <2> DEFINE made == {r \in Requests : Exists(r)' /\ KeyOf(r) = k}
  <2>1. {r \in Requests : Exists(r) /\ KeyOf(r) = k}' = made
    BY <1>1 DEF KeyOf
  <2>2. \A r : hash_request(r)' = hash_request(r)
    BY <1>1 DEF hash_request
  <2> QED BY <1>1, <2>1, <2>2
<1>2. CASE \A x \in Requests : Exists(x)' <=> Exists(x)
  <2>1. req' = req /\ \A k \in Keys : idem'[k].hash = idem[k].hash
    <3>1. CASE BooksKept
      BY <3>1 DEF BooksKept
    <3>2. ASSUME NEW r \in Requests, Replied(r)
          PROVE  req' = req /\ \A k \in Keys : idem'[k].hash = idem[k].hash
      BY <3>2 DEF Replied, rows
    <3>3. ASSUME NEW r \in Requests, Told(r)
          PROVE  req' = req /\ \A k \in Keys : idem'[k].hash = idem[k].hash
      BY <3>3 DEF Told, TypeOK
    <3>4. \A r \in Requests : ~Booked(r)
      BY <1>2 DEF Booked
    <3> QED BY <3>1, <3>2, <3>3, <3>4 DEF BookStep
  <2> QED BY <1>0, <1>2, <2>1
<1>3. ASSUME NEW r \in Requests, Booked(r)
      PROVE  /\ req' = req
             /\ \A k \in Keys, x \in Requests :
                   idem'[k].hash = None => ~(Exists(x)' /\ KeyOf(x) = k)
             /\ \A k \in Keys : idem'[k].hash # None =>
                   \E y \in Requests :
                      /\ Exists(y)' /\ KeyOf(y) = k /\ idem'[k].hash = hash_request(y)
                      /\ \A x \in Requests : Exists(x)' /\ KeyOf(x) = k => x = y
  <2>1. KeyOf(r) \in Keys /\ hash_request(r) # None
    BY KeyAndHash
  <2>2. \A k \in Keys : idem'[k].hash = IF k = KeyOf(r) THEN hash_request(r) ELSE idem[k].hash
    BY <1>3, <2>1 DEF Booked, TypeOK
  <2>3. /\ idem[KeyOf(r)].hash = None /\ req' = req /\ Exists(r)'
        /\ \A x \in Requests \ {r} : Exists(x)' <=> Exists(x)
    BY <1>3 DEF Booked
  <2> QED BY <1>0, <2>1, <2>2, <2>3
<1>4. (\A x \in Requests : Exists(x)' <=> Exists(x)) \/ \E r \in Requests : Booked(r)
  BY SameRows DEF BookStep, BooksKept, Replied, Told, rows
<1> QED BY <1>2, <1>3, <1>4

LEMMA AnswersFollowStep ==
    /\ TypeOK /\ WorkIsRecorded /\ KeySpentOnOneAttempt /\ AnswersComeFromKeys
    /\ BookStep
    => AnswersComeFromKeys'
<1> SUFFICES ASSUME TypeOK, WorkIsRecorded, KeySpentOnOneAttempt, AnswersComeFromKeys,
                    BookStep
             PROVE  AnswersComeFromKeys'
  OBVIOUS
<1>0. /\ \A k \in Keys : idem[k].hash = None => idem[k].reply.attempt = None
      /\ \A x \in Requests : handler[x] \in {"claimed", "charging"} =>
            idem[KeyOf(x)].reply.attempt = None
      /\ \A x \in Requests : reply[x].attempt # None => reply[x] = idem[KeyOf(x)].reply
  BY DEF AnswersComeFromKeys
<1>a. /\ idem \in [Keys -> [hash : Hashes \cup {None}, reply : Reply]]
      /\ handler \in [Requests -> {"idle", "claimed", "charging", "done"}]
      /\ reply \in [Requests -> Reply]
      /\ \A x \in Requests : KeyOf(x) \in Keys
  BY KeyAndHash DEF TypeOK
<1>b. req' = req => \A x : KeyOf(x)' = KeyOf(x)
  BY DEF KeyOf
<1>1. CASE BooksKept
  BY <1>0, <1>b, <1>1 DEF BooksKept, AnswersComeFromKeys
<1>2. ASSUME NEW r \in Requests, Replied(r) PROVE AnswersComeFromKeys'
  <2>1. PICK a : /\ a.attempt = None \/ a = idem[KeyOf(r)].reply
                 /\ reply' = [reply EXCEPT ![r] = a]
    BY <1>2 DEF Replied
  <2>2. \A x \in Requests : reply'[x] = IF x = r THEN a ELSE reply[x]
    BY <1>a, <2>1
  <2>3. \A x \in Requests : handler'[x] \in {"claimed", "charging"}
                              => handler[x] \in {"claimed", "charging"}
    BY <1>2, <1>a DEF Replied
  <2>4. idem' = idem /\ req' = req
    BY <1>2 DEF Replied, rows
  <2> QED BY <1>0, <1>b, <2>1, <2>2, <2>3, <2>4 DEF AnswersComeFromKeys
<1>3. ASSUME NEW r \in Requests, Booked(r) PROVE AnswersComeFromKeys'
  <2>1. \A k \in Keys : idem'[k].reply = idem[k].reply
    BY <1>3, <1>a DEF Booked
  <2>2. \A k \in Keys : idem'[k].hash = None => idem[k].hash = None
    BY <1>3, <1>a, KeyAndHash DEF Booked
  <2>3. \A x \in Requests : handler'[x] \in {"claimed", "charging"} =>
                              x = r \/ handler[x] \in {"claimed", "charging"}
    BY <1>3, <1>a DEF Booked
  <2>4. idem[KeyOf(r)].reply.attempt = None /\ reply' = reply /\ req' = req
    BY <1>0, <1>3, <1>a DEF Booked
  <2> QED BY <1>0, <1>a, <1>b, <2>1, <2>2, <2>3, <2>4 DEF AnswersComeFromKeys
<1>4. ASSUME NEW r \in Requests, Told(r) PROVE AnswersComeFromKeys'
  <2>1. PICK a : /\ a.attempt = r
                 /\ idem' = [idem EXCEPT ![KeyOf(r)].reply = a]
                 /\ reply' = [reply EXCEPT ![r] = a]
    BY <1>4 DEF Told
  <2>2. /\ handler[r] = "charging" /\ Exists(r) /\ req' = req
        /\ handler' = [handler EXCEPT ![r] = "done"]
    BY <1>4 DEF Told
  <2>3. idem[KeyOf(r)].hash # None
    BY <1>a, <2>2 DEF KeySpentOnOneAttempt
  <2>4. \A x \in Requests : handler[x] \in {"claimed", "charging"} /\ KeyOf(x) = KeyOf(r)
                              => x = r
    <3>1. \A x \in Requests : handler[x] \in {"claimed", "charging"} => Exists(x)
      BY DEF WorkIsRecorded
    <3>2. \A x \in Requests : Exists(x) /\ KeyOf(x) = KeyOf(r) => x = r
      BY <1>a, <2>2, <2>3 DEF KeySpentOnOneAttempt
    <3> QED BY <3>1, <3>2
  <2>5. \A x \in Requests : KeyOf(x) = KeyOf(r) => reply[x].attempt = None
    BY <1>0, <2>2
  <2>6. \A k \in Keys : /\ idem'[k].hash = idem[k].hash
                         /\ idem'[k].reply = IF k = KeyOf(r) THEN a ELSE idem[k].reply
    BY <1>a, <2>1
  <2>7. \A x \in Requests : reply'[x] = IF x = r THEN a ELSE reply[x]
    BY <1>a, <2>1
  <2>8. \A x \in Requests : handler'[x] = IF x = r THEN "done" ELSE handler[x]
    BY <1>a, <2>2
  <2>9. \A k \in Keys : idem'[k].hash = None => idem'[k].reply.attempt = None
    BY <1>0, <2>3, <2>6
  <2>10. \A x \in Requests : handler'[x] \in {"claimed", "charging"} =>
            idem'[KeyOf(x)].reply.attempt = None
    BY <1>0, <1>a, <2>4, <2>6, <2>8
  <2>11. \A x \in Requests : reply'[x].attempt # None => reply'[x] = idem'[KeyOf(x)].reply
    BY <1>0, <1>a, <2>5, <2>6, <2>7
  <2> QED BY <1>b, <2>2, <2>9, <2>10, <2>11 DEF AnswersComeFromKeys
<1> QED BY <1>1, <1>2, <1>3, <1>4 DEF BookStep

LEMMA StoredTruthStep ==
    TypeOK /\ PaymentInv /\ StoredAnswersAreTrue /\ [Next]_vars => StoredAnswersAreTrue'
<1> SUFFICES ASSUME TypeOK, PaymentInv, StoredAnswersAreTrue, [Next]_vars,
                    NEW k \in Keys, idem'[k].reply.attempt # None
             PROVE  IsTrue(idem[k].reply)'
  BY DEF StoredAnswersAreTrue
<1>a. /\ idem \in [Keys -> [hash : Hashes \cup {None}, reply : Reply]]
      /\ \A x \in Requests : KeyOf(x) \in Keys
  BY KeyAndHash DEF TypeOK
<1>1. CASE idem'[k].reply = idem[k].reply
  <2> PICK a : a = idem[k].reply
    OBVIOUS
  <2>1. a \in Reply /\ a.attempt # None /\ idem'[k].reply = a
    BY <1>1, <1>a
  <2>2. a.attempt \in Requests
    BY <2>1 DEF Reply
  <2>3. IsTrue(a)
    BY <2>1 DEF StoredAnswersAreTrue
  <2>4. IsTrue(a)'
    BY <2>2, <2>3, TruthStays
  <2> QED BY <2>1, <2>4 DEF IsTrue
<1>2. ASSUME NEW r \in Requests, Told(r), idem'[k].reply # idem[k].reply
      PROVE  IsTrue(idem[k].reply)'
  <2>1. PICK a : IsTrue(a)' /\ idem' = [idem EXCEPT ![KeyOf(r)].reply = a]
    BY <1>2 DEF Told
  <2>2. idem'[k].reply = a
    BY <1>2, <1>a, <2>1
  <2> QED BY <2>1, <2>2 DEF IsTrue
<1>3. idem'[k].reply = idem[k].reply \/ \E r \in Requests : Told(r)
  BY <1>a, NextBookStep DEF BookStep, BooksKept, Replied, Booked, rows
<1> QED BY <1>1, <1>2, <1>3

LEMMA AnswerInit == Init => AnswerInv
<1> SUFFICES ASSUME Init PROVE AnswerInv
  OBVIOUS
<1>1. KeySpentOnOneAttempt
  BY DEF Init, KeySpentOnOneAttempt, Exists, NoAttempt
<1>2. \A k \in Keys : idem[k].reply.attempt = None
  BY DEF Init, NoReply
<1>3. AnswersComeFromKeys
  BY <1>2 DEF Init, AnswersComeFromKeys, NoReply
<1> QED BY <1>1, <1>2, <1>3 DEF AnswerInv, StoredAnswersAreTrue

\* The invariant behind the answers: a key is spent on one attempt, answered
\* once by the handler of that attempt, and truthfully; whoever else is told
\* about a payment is told what is stored. (phases 1 and 3 of pay())
THEOREM AnswerInvariantHolds == Spec => []AnswerInv
<1>1. TypeOK /\ PaymentInv /\ AnswerInv /\ [Next]_vars => AnswerInv'
  BY NextBookStep, KeySpentStep, AnswersFollowStep, StoredTruthStep
     DEF AnswerInv, PaymentInv
<1> QED BY AnswerInit, <1>1, TypeCorrect, InvariantHolds, PTL DEF Spec

\* Each key is spent on exactly one attempt, of the request it was claimed for,
\* and on none that was refused. (the idempotency_keys INSERT of phase 1)
THEOREM KeysAreSpentOnce == Spec => []KeySpentOnOneAttempt
BY AnswerInvariantHolds, PTL DEF AnswerInv

\* Clients are told the truth about the money, and all who use one key are told
\* the same. (settle(), the replay branch of phase 1)
THEOREM ClientsAreToldTheTruth == Spec => []AnswersAreTrue
<1>1. TypeOK /\ AnswerInv => AnswersAreTrue
  <2> SUFFICES ASSUME TypeOK, AnswerInv PROVE AnswersAreTrue
    OBVIOUS
  <2>1. \A r \in Requests : reply[r].attempt # None =>
           reply[r] = idem[KeyOf(r)].reply /\ IsTrue(reply[r])
    BY KeyAndHash DEF AnswerInv, AnswersComeFromKeys, StoredAnswersAreTrue
  <2> QED BY <2>1 DEF AnswersAreTrue, IsTrue
<1> QED BY <1>1, TypeCorrect, AnswerInvariantHolds, PTL

-----------------------------------------------------------------------------
(* Events.                                                                 *)

Emitted(kind, x) == outbox[[kind |-> kind, about |-> x]]

Verdicts == {"invoice.paid", "invoice.payment_failed"}

EventsKept ==
    \A x \in Requests, kind \in Verdicts : Emitted(kind, x)' = Emitted(kind, x)

Announced(kind, r) ==
    \A x \in Requests, k \in Verdicts :
        Emitted(k, x)' = IF x = r /\ k = kind THEN Emitted(k, x) + 1 ELSE Emitted(k, x)

LEMMA EmitCounts ==
    ASSUME TypeOK, NEW r \in Requests, NEW kind \in Verdicts, emit(kind, r)
    PROVE  Announced(kind, r)
<1> DEFINE e == [kind |-> kind, about |-> r]
<1>1. e \in Event /\ outbox \in [Event -> Nat] /\ outbox' = [outbox EXCEPT ![e] = @ + 1]
  BY DEF emit, TypeOK, Event, Verdicts
<1> SUFFICES ASSUME NEW x \in Requests, NEW k \in Verdicts
             PROVE  Emitted(k, x)' = IF x = r /\ k = kind THEN Emitted(k, x) + 1
                                     ELSE Emitted(k, x)
  BY DEF Announced
<1> DEFINE f == [kind |-> k, about |-> x]
<1>2. f \in Event /\ (f = e <=> x = r /\ k = kind)
  BY DEF Event, Verdicts
<1>3. Emitted(k, x) = outbox[f] /\ Emitted(k, x)' = outbox'[f]
  BY DEF Emitted
<1> HIDE DEF e, f
<1> QED BY <1>1, <1>2, <1>3

LEMMA InvoiceEventsCountForThemselves ==
    ASSUME TypeOK, NEW i,
           NEW kind \in {"invoice.created", "invoice.sent", "invoice.voided"}, emit(kind, i)
    PROVE  EventsKept
<1> DEFINE e == [kind |-> kind, about |-> i]
<1>1. outbox \in [Event -> Nat] /\ outbox' = [outbox EXCEPT ![e] = @ + 1]
  BY DEF emit, TypeOK
<1> SUFFICES ASSUME NEW x \in Requests, NEW k \in Verdicts
             PROVE  Emitted(k, x)' = Emitted(k, x)
  BY DEF EventsKept
<1> DEFINE f == [kind |-> k, about |-> x]
<1>2. f \in Event /\ f # e
  BY DEF Event, Verdicts
<1>3. Emitted(k, x) = outbox[f] /\ Emitted(k, x)' = outbox'[f]
  BY DEF Emitted
<1> HIDE DEF e, f
<1> QED BY <1>1, <1>2, <1>3

LEMMA NothingEmitted ==
    ASSUME outbox' = outbox
    PROVE  EventsKept
BY DEF EventsKept, Emitted

EventStep ==
    \/ /\ EventsKept
       /\ \/ RowsKept
          \/ \E i \in Invoices : InvoiceMoved(i)
          \/ \E r \in Requests : Inserted(r)
          \/ \E r \in Requests : Lost(r, "reconciliation_exhausted")
    \/ \E r \in Requests : Won(r) /\ Announced("invoice.paid", r)
    \/ \E r \in Requests :
          /\ ledger[r] = "failed" /\ Announced("invoice.payment_failed", r)
          /\ RowsKept \/ Lost(r, "declined")

\* settle() emits with the row it changes, but a decline is announced again.
LEMMA SettleEventStep ==
    ASSUME TypeOK, NEW r \in Requests, NEW o \in Outcomes(r), settle(r, o),
           req' = req, ledger' = ledger
    PROVE  EventStep
<1> USE DEF Verdicts
<1>0. RowsKept \/ Won(r) \/ Lost(r, "declined")
  BY SettleEffect
<1>1. CASE o = "succeeded" /\ SettleSucceeded(r)
  <2>1. CASE attempt[r].status = "pending"
    <3>1. Announced("invoice.paid", r)
      BY <1>1, <2>1, EmitCounts DEF SettleSucceeded
    <3>2. attempt'[r].status = "succeeded"
      BY <1>1, <2>1 DEF SettleSucceeded, TypeOK, Attempt
    <3>3. Won(r)
      BY <1>0, <2>1, <3>2 DEF RowsKept, Kept, Lost
    <3> QED BY <3>1, <3>3 DEF EventStep
  <2>2. CASE attempt[r].status # "pending"
    BY <1>0, <1>1, <2>2, NothingEmitted DEF SettleSucceeded, EventStep, Won, Lost
  <2> QED BY <2>1, <2>2
<1>2. CASE o = "failed" /\ SettleFailed(r)
  <2>1. ledger[r] = "failed"
    BY <1>2 DEF Outcomes, TypeOK
  <2>2. Announced("invoice.payment_failed", r)
    BY <1>2, EmitCounts DEF SettleFailed
  <2>3. ~Won(r)
    BY <2>1 DEF Won
  <2> QED BY <1>0, <2>1, <2>2, <2>3 DEF EventStep
<1>3. CASE o = "unknown" /\ UNCHANGED <<attempt, invoice, outbox>>
  <2>1. EventsKept
    BY <1>3, NothingEmitted
  <2>2. RowsKept
    BY <1>3 DEF RowsKept, Kept, LedgerGrows
  <2> QED BY <2>1, <2>2 DEF EventStep
<1> QED BY <1>1, <1>2, <1>3 DEF settle

LEMMA NextEventStep == TypeOK /\ WorkIsRecorded /\ [Next]_vars => EventStep
<1> SUFFICES ASSUME TypeOK, WorkIsRecorded, [Next]_vars PROVE EventStep
  OBVIOUS
<1>0. RowStep
  BY NextRowStep
<1>1. ASSUME NEW i \in Invoices, create(i) \/ send(i) \/ void(i) PROVE EventStep
  <2>1. EventsKept
    BY <1>1, InvoiceEventsCountForThemselves DEF create, send, void, MoveInvoice
  <2>2. attempt' = attempt
    BY <1>1 DEF create, send, void, MoveInvoice
  <2>3. RowsKept \/ \E j \in Invoices : InvoiceMoved(j)
    BY <1>0, <2>2 DEF RowStep, Inserted, Won, Lost, Exists
  <2> QED BY <2>1, <2>3 DEF EventStep
<1>2. ASSUME outbox' = outbox, attempt' = attempt PROVE EventStep
  <2>1. RowsKept \/ \E j \in Invoices : InvoiceMoved(j)
    BY <1>0, <1>2 DEF RowStep, Inserted, Won, Lost, Exists
  <2> QED BY <1>2, <2>1, NothingEmitted DEF EventStep
<1>3. ASSUME NEW r \in Requests,
             PayKnownKey(r) \/ PayRefused(r) \/ PayCharge(r) \/ PayLost(r) \/ PspProcess(r)
      PROVE  EventStep
  BY <1>2, <1>3 DEF PayKnownKey, PayRefused, Refuse, PayCharge, PayLost, PspProcess, rows
<1>4. ASSUME NEW r \in Requests, PayClaim(r) PROVE EventStep
  <2>1. outbox' = outbox /\ attempt'[r].status = "pending" /\ ~Exists(r)
    BY <1>4 DEF PayClaim, TypeOK, Attempt, WorkIsRecorded
  <2>2. \E x \in Requests : Inserted(x)
    BY <1>0, <2>1 DEF RowStep, RowsKept, InvoiceMoved, Kept, Won, Lost, Exists
  <2> QED BY <2>1, <2>2, NothingEmitted DEF EventStep
<1>5. ASSUME NEW r \in Requests, PaySettle(r) PROVE EventStep
  BY <1>5, SettleEventStep DEF PaySettle, psp
<1>6. ASSUME NEW w \in Workers, NEW S \in SUBSET Requests, claim(w, S) PROVE EventStep
  <2>1. \A x \in Requests : Kept(x)
    BY <1>6 DEF claim, Kept, TypeOK, Attempt
  <2>2. RowsKept
    BY <1>6, <2>1 DEF claim, RowsKept, LedgerGrows, psp, clients
  <2> QED BY <1>6, <2>2, NothingEmitted DEF EventStep, claim
<1>7. ASSUME NEW w \in Workers, NEW r \in Requests, give_up(w, r) PROVE EventStep
  <2>1. CASE attempt[r].status = "pending"
    <3>1. /\ attempt'[r].status = "failed"
          /\ attempt'[r].code = "reconciliation_exhausted"
      BY <1>7, <2>1, UpdateEffect DEF give_up, TypeOK
    <3>2. \E x \in Requests : Lost(x, "reconciliation_exhausted")
      BY <1>0, <2>1, <3>1 DEF RowStep, RowsKept, InvoiceMoved, Inserted, Won, Lost, Kept
    <3> QED BY <1>7, <3>2, NothingEmitted DEF EventStep, give_up
  <2>2. CASE attempt[r].status # "pending"
    BY <1>2, <1>7, <2>2 DEF give_up
  <2> QED BY <2>1, <2>2
<1>8. ASSUME NEW w \in Workers, NEW r \in Requests, Resubmit(w, r) PROVE EventStep
  BY <1>2, <1>8 DEF Resubmit, rows
<1>9. ASSUME NEW w \in Workers, Reconciled(w) PROVE EventStep
  <2>1. busy[w] \in Requests
    BY <1>9 DEF Reconciled, TypeOK
  <2> QED BY <1>9, <2>1, SettleEventStep DEF Reconciled, psp, clients
<1>10. ASSUME NEW w \in Workers, Unresolved(w) \/ WorkerFault(w) PROVE EventStep
  BY <1>2, <1>10 DEF Unresolved, WorkerFault, rows
<1>11. CASE UNCHANGED vars
  BY <1>2, <1>11 DEF vars, rows
<1> QED BY <1>1, <1>3, <1>4, <1>5, <1>6, <1>7, <1>8, <1>9, <1>10, <1>11 DEF Next

LEMMA EventsByRequest ==
    EventsMatchAttempts <=>
        \A r \in Requests :
            /\ Emitted("invoice.paid", r) = IF attempt[r].status = "succeeded" THEN 1 ELSE 0
            /\ attempt[r].code = "declined" => Emitted("invoice.payment_failed", r) > 0
            /\ Emitted("invoice.payment_failed", r) > 0 => ledger[r] = "failed"
BY DEF EventsMatchAttempts, Emitted

LEMMA EventsStay ==
    TypeOK /\ EventsMatchAttempts /\ EventStep => EventsMatchAttempts'
<1> SUFFICES ASSUME TypeOK, EventsMatchAttempts, EventStep, NEW x \in Requests
             PROVE  /\ Emitted("invoice.paid", x)'
                          = IF attempt'[x].status = "succeeded" THEN 1 ELSE 0
                    /\ attempt'[x].code = "declined"
                          => Emitted("invoice.payment_failed", x)' > 0
                    /\ Emitted("invoice.payment_failed", x)' > 0 => ledger'[x] = "failed"
  BY EventsByRequest DEF EventsMatchAttempts, Emitted
<1>0. /\ Emitted("invoice.paid", x) = IF attempt[x].status = "succeeded" THEN 1 ELSE 0
      /\ attempt[x].code = "declined" => Emitted("invoice.payment_failed", x) > 0
      /\ Emitted("invoice.payment_failed", x) > 0 => ledger[x] = "failed"
      /\ Emitted("invoice.payment_failed", x) \in Nat
  BY EventsByRequest DEF Emitted, TypeOK, Event
<1>1. CASE EventsKept /\ RowsKept
  BY <1>0, <1>1 DEF EventsKept, Verdicts, RowsKept, Kept, LedgerGrows
<1>2. ASSUME EventsKept, NEW i \in Invoices, InvoiceMoved(i)
      PROVE  attempt' = attempt /\ ledger' = ledger
  BY <1>2 DEF InvoiceMoved
<1>3. ASSUME EventsKept, NEW r \in Requests, Inserted(r) \/ Lost(r, "reconciliation_exhausted")
      PROVE  /\ ledger' = ledger
             /\ attempt'[x].status = "succeeded" <=> attempt[x].status = "succeeded"
             /\ attempt'[x].code = "declined" => attempt[x].code = "declined"
  BY <1>3 DEF Inserted, Lost, Kept, Exists
<1>4. ASSUME NEW r \in Requests, Won(r), Announced("invoice.paid", r)
      PROVE  /\ ledger' = ledger
             /\ attempt'[x].code = attempt[x].code
             /\ Emitted("invoice.payment_failed", x)' = Emitted("invoice.payment_failed", x)
             /\ Emitted("invoice.paid", x)' = IF attempt'[x].status = "succeeded" THEN 1 ELSE 0
  BY <1>0, <1>4 DEF Won, Kept, Announced, Verdicts
<1>5. ASSUME NEW r \in Requests, ledger[r] = "failed", Announced("invoice.payment_failed", r),
             RowsKept \/ Lost(r, "declined")
      PROVE  /\ Emitted("invoice.paid", x)' = Emitted("invoice.paid", x)
             /\ attempt'[x].status = "succeeded" <=> attempt[x].status = "succeeded"
             /\ IF x = r
                THEN ledger'[x] = "failed" /\ Emitted("invoice.payment_failed", x)' > 0
                ELSE /\ attempt'[x].code = attempt[x].code
                     /\ ledger[x] = "failed" => ledger'[x] = "failed"
                     /\ Emitted("invoice.payment_failed", x)' = Emitted("invoice.payment_failed", x)
  BY <1>0, <1>5 DEF RowsKept, Lost, Kept, LedgerGrows, Announced, Verdicts
<1>6. EventsKept => /\ Emitted("invoice.paid", x)' = Emitted("invoice.paid", x)
                    /\ Emitted("invoice.payment_failed", x)' = Emitted("invoice.payment_failed", x)
  BY DEF EventsKept, Verdicts
<1> QED BY <1>0, <1>1, <1>2, <1>3, <1>4, <1>5, <1>6 DEF EventStep

\* A success is announced once, whoever raced to settle it; a decline at least
\* once, and never for an attempt that was charged. (settle(), events::emit)
THEOREM EventsAreTrue == Spec => []EventsMatchAttempts
<1>1. Init => EventsMatchAttempts
  BY DEF Init, EventsMatchAttempts, NoAttempt, Event
<1>2. TypeOK /\ PaymentInv /\ EventsMatchAttempts /\ [Next]_vars => EventsMatchAttempts'
  BY NextEventStep, EventsStay DEF PaymentInv
<1> QED BY <1>1, <1>2, TypeCorrect, InvariantHolds, PTL DEF Spec

-----------------------------------------------------------------------------
(* Invoice rows.                                                           *)

LEMMA InvoiceStep ==
    TypeOK /\ [Next]_vars =>
        \/ invoice' = invoice
        \/ \E i \in Invoices : create(i) \/ send(i) \/ void(i)
        \/ \E r \in Requests : Won(r)
<1> SUFFICES ASSUME TypeOK, [Next]_vars, invoice' # invoice,
                    \A i \in Invoices : ~(create(i) \/ send(i) \/ void(i))
             PROVE  \E r \in Requests : Won(r)
  OBVIOUS
<1>1. ASSUME NEW r \in Requests, NEW o \in Outcomes(r), settle(r, o),
             req' = req, ledger' = ledger
      PROVE  Won(r)
  BY <1>1, SettleEffect DEF RowsKept, Lost
<1>2. \/ \E r \in Requests : PaySettle(r)
      \/ \E w \in Workers : Reconciled(w)
  BY DEF Next, vars, rows, PayKnownKey, PayRefused, Refuse, PayClaim, PayCharge,
         PayLost, PspProcess, claim, give_up, Resubmit, Unresolved, WorkerFault
<1>3. ASSUME NEW w \in Workers, Reconciled(w) PROVE \E r \in Requests : Won(r)
  <2>1. busy[w] \in Requests
    BY <1>3 DEF Reconciled, TypeOK
  <2> QED BY <1>1, <1>3, <2>1 DEF Reconciled, psp, clients
<1>4. ASSUME NEW r \in Requests, PaySettle(r) PROVE Won(r)
  BY <1>1, <1>4 DEF PaySettle, psp
<1> QED BY <1>2, <1>3, <1>4

LEMMA MovedRow ==
    ASSUME TypeOK, NEW i \in Invoices, NEW from, NEW to, NEW event,
           MoveInvoice(i, from, to, event)
    PROVE  /\ invoice[i].state \in from /\ invoice'[i].state = to
           /\ invoice'[i].paid = invoice[i].paid
           /\ \A j \in Invoices \ {i} : invoice'[j] = invoice[j]
BY DEF MoveInvoice, TypeOK

\* A success pays a collectible invoice in full, and leaves any other alone.
LEMMA WonRow ==
    ASSUME TypeOK, PaymentInv, NEW r \in Requests, Won(r), NEW i \in Invoices
    PROVE  \/ invoice'[i] = invoice[i]
           \/ /\ is_collectible(i) /\ invoice[i].paid = 0
              /\ invoice'[i].state = "paid" /\ invoice'[i].paid = Total[i]
<1>1. CASE is_collectible(InvoiceOf(r)) /\ i = InvoiceOf(r)
  <2>1. attempt[r].amount = Total[i]
    BY <1>1 DEF Won, PaymentInv, RowInv, FullAmount
  <2>2. invoice[i].paid = 0 /\ invoice[i].paid \in Nat
    BY <1>1 DEF PaymentInv, RowInv, AllOrNothing, is_collectible, TypeOK
  <2>3. Total[i] \in Nat
    BY TotalIsPositive
  <2>4. invoice[i].paid + attempt[r].amount = Total[i] /\ Total[i] >= Total[i]
    BY <2>1, <2>2, <2>3
  <2>5. invoice' = [invoice EXCEPT ![i] = [state |-> "paid", paid |-> Total[i]]]
    BY <1>1, <2>4 DEF Won, Credited
  <2> QED BY <1>1, <2>2, <2>5 DEF TypeOK
<1>2. CASE ~(is_collectible(InvoiceOf(r)) /\ i = InvoiceOf(r))
  BY <1>2 DEF Won, Credited, TypeOK
<1> QED BY <1>1, <1>2

LEMMA LifecycleStep ==
    ASSUME TypeOK, PaymentInv, [Next]_vars, NEW i \in Invoices
    PROVE  [Lifecycle(i)!Next]_(Lifecycle(i)!vars)
<1> USE DEF Lifecycle!Next, Lifecycle!vars
<1>1. CASE invoice'[i] = invoice[i]
  BY <1>1
<1>2. ASSUME create(i) PROVE Lifecycle(i)!Create
  BY <1>2, MovedRow DEF create, Lifecycle!Create
<1>3. ASSUME send(i) PROVE Lifecycle(i)!Send
  BY <1>3, MovedRow DEF send, Lifecycle!Send, Lifecycle!Take,
     Lifecycle!transition, Lifecycle!SendEvent
<1>4. ASSUME void(i) PROVE Lifecycle(i)!Void
  BY <1>4, MovedRow DEF void, Lifecycle!Void, Lifecycle!Take,
     Lifecycle!transition, Lifecycle!VoidEvent
<1>5. ASSUME is_collectible(i), invoice[i].paid = 0,
             invoice'[i].state = "paid", invoice'[i].paid = Total[i]
      PROVE  Lifecycle(i)!Pay
  <2>1. Total[i] \in 1 .. Total[i] - invoice[i].paid /\ invoice[i].paid + Total[i] = Total[i]
    BY <1>5, TotalIsPositive
  <2> QED BY <1>5, <2>1 DEF Lifecycle!Pay, Lifecycle!Take, Lifecycle!transition,
          Lifecycle!PaymentSettled, Lifecycle!is_collectible, is_collectible
<1>6. ASSUME NEW j \in Invoices, j # i, create(j) \/ send(j) \/ void(j)
      PROVE  invoice'[i] = invoice[i]
  BY <1>6, MovedRow DEF create, send, void
<1>7. ASSUME NEW r \in Requests, Won(r) PROVE [Lifecycle(i)!Next]_(Lifecycle(i)!vars)
  BY <1>1, <1>5, <1>7, WonRow
<1> QED BY <1>1, <1>2, <1>3, <1>4, <1>6, <1>7, InvoiceStep

\* Whatever races, every invoice row goes through the life the transition table
\* allows, with the money the table was asked about. (transition() of
\* state_machine.rs, the conditional UPDATEs of send, void and settle)
THEOREM LifecycleIsImplemented == Spec => ImplementsLifecycle
<1>1. Init => \A i \in Invoices : Lifecycle(i)!Init
  BY DEF Init, Lifecycle!Init
<1>2. TypeOK /\ PaymentInv /\ [Next]_vars =>
        [\A i \in Invoices : [Lifecycle(i)!Next]_(Lifecycle(i)!vars)]_vars
  BY LifecycleStep
<1> QED BY <1>1, <1>2, TypeCorrect, InvariantHolds, PTL DEF Spec, ImplementsLifecycle


-----------------------------------------------------------------------------
(* Answers stay.                                                           *)

\* A key that is spent stays spent on the same request, and an answer stored
\* under it is never replaced: not by a second handler, which no key ever has,
\* and not by the reconciler, which settles the attempt later and leaves the
\* key alone.  So every replay gives what the first answer was. (the INSERT ...
\* ON CONFLICT DO NOTHING of phase 1, the UPDATE of idempotency_keys in phase 3)
AnswersStay ==
    [][\A k \in Keys :
         /\ idem[k].hash # None => idem'[k].hash = idem[k].hash
         /\ idem[k].reply.attempt # None => idem'[k].reply = idem[k].reply]_vars

\* The answer a client was given is the one every later replay of its key gives.
THEOREM StoredAnswersStay == Spec => AnswersStay
<1>1. TypeOK /\ PaymentInv /\ AnswerInv /\ [Next]_vars =>
        [\A k \in Keys :
           /\ idem[k].hash # None => idem'[k].hash = idem[k].hash
           /\ idem[k].reply.attempt # None => idem'[k].reply = idem[k].reply]_vars
  <2> SUFFICES ASSUME TypeOK, AnswerInv, BookStep, NEW k \in Keys
               PROVE  /\ idem[k].hash # None => idem'[k].hash = idem[k].hash
                      /\ idem[k].reply.attempt # None => idem'[k].reply = idem[k].reply
    BY NextBookStep
  <2>0. /\ idem \in [Keys -> [hash : Hashes \cup {None}, reply : Reply]]
        /\ \A x \in Requests : KeyOf(x) \in Keys
    BY KeyAndHash DEF TypeOK
  <2>1. CASE BooksKept
    BY <2>1 DEF BooksKept
  <2>2. ASSUME NEW r \in Requests, Replied(r) PROVE idem' = idem
    BY <2>2 DEF Replied, rows
  <2>3. ASSUME NEW r \in Requests, Booked(r)
        PROVE  /\ idem[k].hash # None => idem'[k].hash = idem[k].hash
               /\ idem'[k].reply = idem[k].reply
    BY <2>0, <2>3 DEF Booked
  <2>4. ASSUME NEW r \in Requests, Told(r)
        PROVE  /\ idem'[k].hash = idem[k].hash
               /\ idem[k].reply.attempt # None => idem'[k].reply = idem[k].reply
    <3>1. idem[KeyOf(r)].reply.attempt = None
      BY <2>4 DEF Told, AnswerInv, AnswersComeFromKeys
    <3>2. PICK a : idem' = [idem EXCEPT ![KeyOf(r)].reply = a]
      BY <2>4 DEF Told
    <3> QED BY <2>0, <3>1, <3>2
  <2> QED BY <2>1, <2>2, <2>3, <2>4 DEF BookStep
<1> QED BY <1>1, TypeCorrect, InvariantHolds, AnswerInvariantHolds, PTL
        DEF Spec, AnswersStay

-----------------------------------------------------------------------------
(* The provider, as the rows know it.                                      *)

\* What the database took for the provider's word about an attempt; giving up
\* is not one.
Recorded(r) ==
    IF attempt[r].status = "succeeded" \/ attempt[r].code = "declined"
    THEN [ref |-> r, outcome |-> attempt[r].status]
    ELSE None

\* The rows are callers of the provider: one per attempt, under its reference.
Contract == INSTANCE ProviderContract WITH
    References <- Requests, Calls <- Requests, fate <- ledger,
    verdict <- [r \in Requests |-> Recorded(r)]

LEMMA NoVerdictYet ==
    ASSUME TypeOK, RowInv, NEW r \in Requests,
           ~Exists(r) \/ attempt[r].status = "pending"
    PROVE  Recorded(r) = None
BY DEF RowInv, CodesMatch, Exists, Recorded

\* Only the provider writes its ledger, a reference at a time.
LEMMA LedgerStep ==
    TypeOK /\ [Next]_vars =>
        \/ ledger' = ledger
        \/ \E r \in Requests : Contract!Decide(r)
<1> SUFFICES ASSUME TypeOK, [Next]_vars, ledger' # ledger
             PROVE  \E r \in Requests : Contract!Decide(r)
  OBVIOUS
<1>1. PICK r \in Requests : PspProcess(r)
  BY DEF Next, vars, psp, create, send, void, MoveInvoice, PayKnownKey, PayRefused,
         Refuse, PayClaim, PayCharge, PaySettle, PayLost, claim, give_up, Resubmit,
         Reconciled, Unresolved, WorkerFault
<1>2. attempt' = attempt
  BY <1>1 DEF PspProcess, rows
<1>3. [x \in Requests |-> Recorded(x)]' = [x \in Requests |-> Recorded(x)]
  BY <1>2 DEF Recorded
<1>4. /\ ledger[r] = "none"
      /\ \E o \in {"succeeded", "failed"} : ledger' = [ledger EXCEPT ![r] = o]
  BY <1>1 DEF PspProcess
<1> QED BY <1>3, <1>4 DEF Contract!Decide

\* A change of rows is either no verdict or the fate of the attempt it is about.
LEMMA VerdictStep ==
    ASSUME TypeOK, RowInv, RowInv', TypeOK', RowStep, ledger' = ledger
    PROVE  \/ [x \in Requests |-> Recorded(x)]' = [x \in Requests |-> Recorded(x)]
           \/ \E r \in Requests : Contract!Return(r, r)
<1>1. ASSUME \A x \in Requests : Recorded(x)' = Recorded(x)
      PROVE  [x \in Requests |-> Recorded(x)]' = [x \in Requests |-> Recorded(x)]
  BY <1>1
<1>2. ASSUME NEW x \in Requests, Kept(x) PROVE Recorded(x)' = Recorded(x)
  BY <1>2 DEF Kept, Recorded
<1>3. CASE RowsKept \/ \E i \in Invoices : InvoiceMoved(i)
  BY <1>1, <1>2, <1>3 DEF RowsKept, InvoiceMoved, Kept
<1>4. ASSUME NEW r \in Requests, Inserted(r) PROVE \A x \in Requests : Recorded(x)' = Recorded(x)
  <2>1. Recorded(r) = None /\ Recorded(r)' = None
    BY <1>4, NoVerdictYet DEF Inserted, RowInv, CodesMatch, Exists, Recorded
  <2> QED BY <1>2, <1>4, <2>1 DEF Inserted
<1>5. ASSUME NEW r \in Requests, Lost(r, "reconciliation_exhausted")
      PROVE  \A x \in Requests : Recorded(x)' = Recorded(x)
  <2>1. Recorded(r) = None /\ Recorded(r)' = None
    BY <1>5, NoVerdictYet DEF Lost, Recorded
  <2> QED BY <1>2, <1>5, <2>1 DEF Lost
<1>6. ASSUME NEW r \in Requests, Won(r) \/ Lost(r, "declined")
      PROVE  Contract!Return(r, r)
  <2>1. Recorded(r) = None /\ Recorded(r)' = [ref |-> r, outcome |-> ledger[r]]
    BY <1>6, NoVerdictYet DEF Won, Lost, Recorded
  <2>2. \A x \in Requests \ {r} : Recorded(x)' = Recorded(x)
    BY <1>2, <1>6 DEF Won, Lost
  <2>3. [x \in Requests |-> Recorded(x)]' =
           [[x \in Requests |-> Recorded(x)] EXCEPT ![r] = [ref |-> r, outcome |-> ledger[r]]]
    BY <2>1, <2>2
  <2>4. ledger[r] \in {"unknown"} \cup ({ledger[r]} \ {"none"})
    BY <1>6 DEF Won, Lost
  <2>5. [x \in Requests |-> Recorded(x)][r] = None
    BY <2>1
  <2> QED BY <2>3, <2>4, <2>5, ledger' = ledger DEF Contract!Return
<1> QED BY <1>1, <1>3, <1>4, <1>5, <1>6 DEF RowStep

\* The database is a caller the provider contract allows: an attempt is settled
\* once, by the fate its reference has and on nothing else, whichever handler
\* or replica brought the answer and however often the provider was asked.
\* With ContractIsImplemented of ProvidersProofs, which shows that the provider
\* clients keep this contract, the two halves of the payment flow fit.
\* (phase 2 and settle() of payments.rs, reconcile_one(), trait PaymentProcessor)
THEOREM RowsLearnByContract == Spec => Contract!Spec
<1>1. Init => Contract!Init
  BY DEF Init, NoAttempt, Recorded, Contract!Init
<1>2. TypeOK /\ TypeOK' /\ PaymentInv /\ PaymentInv' /\ [Next]_vars =>
        [Contract!Next]_(Contract!vars)
  <2> SUFFICES ASSUME TypeOK, TypeOK', PaymentInv, PaymentInv', [Next]_vars
               PROVE  [Contract!Next]_(Contract!vars)
    OBVIOUS
  <2>1. RowStep
    BY NextRowStep DEF PaymentInv
  <2>2. ASSUME NEW r \in Requests, Contract!Decide(r) PROVE Contract!Next
    BY <2>2 DEF Contract!Next
  <2>3. ASSUME NEW r \in Requests, Contract!Return(r, r) PROVE Contract!Next
    BY <2>3 DEF Contract!Next
  <2>4. CASE ledger' = ledger
    BY <2>1, <2>3, <2>4, VerdictStep DEF PaymentInv, Contract!vars
  <2> QED BY <2>2, <2>4, LedgerStep
<1> QED BY <1>1, <1>2, TypeCorrect, InvariantHolds, PTL DEF Spec, Contract!Spec

=============================================================================

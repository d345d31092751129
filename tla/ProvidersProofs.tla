-------------------------- MODULE ProvidersProofs --------------------------
(***************************************************************************)
(* Proofs about Providers, for any number of references, calls and         *)
(* restarts, and any card tokens.                                          *)
(***************************************************************************)
EXTENDS Providers, TLAPS

-----------------------------------------------------------------------------
(* The adapters and the wire.                                              *)

\* The outcomes the provider gives a card.
Fates == {Succeeded, Failed("insufficient_funds"), Failed("card_declined")}

LEMMA CardsHaveFates ==
    /\ \A card : behaviour_for(card) \in Fates
    /\ Fates \subseteq Outcomes
    /\ \A o \in Outcomes : o.tag \in {"succeeded", "failed"} /\ o # NoOutcome /\ o # Unknown
BY DEF behaviour_for, Fates, Outcomes, Codes, Succeeded, Failed, NoOutcome, Unknown

\* What an adapter may make of a response to outcome o: nothing, or o, with the
\* code kept or lost, never replaced.
Reads(o, v) ==
    \/ v = Unknown
    \/ /\ v \in Outcomes
       /\ v.tag = o.tag
       /\ o.tag = "failed" => v.code \in {"unknown_decline", o.code}

\* What a response may be turned into, field by field.
LEMMA ArrivingFields ==
    ASSUME NEW sent, DOMAIN sent = {"http", "word", "handle", "code"},
           NEW resp \in Arriving(sent)
    PROVE  /\ resp.http \in {sent.http, 502}
           /\ resp.word \in {sent.word, "unreadable", "processing"}
           /\ resp.code \in {sent.code, "none"}
<1>3. CASE resp = sent
  BY <1>3
<1>4. CASE resp = [sent EXCEPT !.http = 502]
  BY <1>4
<1>5. CASE resp = [sent EXCEPT !.word = "unreadable", !.handle = FALSE, !.code = "none"]
  BY <1>5
<1>6. CASE resp = [sent EXCEPT !.handle = FALSE]
  BY <1>6
<1>7. CASE resp = [sent EXCEPT !.code = "none"]
  BY <1>7
<1>8. CASE resp = [sent EXCEPT !.word = "processing"]
  BY <1>8
<1> QED BY <1>3, <1>4, <1>5, <1>6, <1>7, <1>8 DEF Arriving

LEMMA AlphapayReads ==
    ASSUME NEW o \in Fates, NEW resp \in Arriving(alphapay_payments(o))
    PROVE  Reads(o, alphapay_charge(resp))
<1>1. CASE o = Succeeded
  <2>1. \/ resp.http = 502
        \/ resp.http = 200 /\ resp.word \in {"succeeded", "unreadable", "processing"}
    BY <1>1, ArrivingFields DEF alphapay_payments, Response, Succeeded
  <2>2. alphapay_charge(resp) \in {Succeeded, Unknown}
    BY <2>1 DEF alphapay_charge, is_success
  <2> QED BY <1>1, <2>2 DEF Reads, Outcomes, Succeeded
<1>2. ASSUME NEW code \in {"insufficient_funds", "card_declined"}, o = Failed(code)
      PROVE  Reads(o, alphapay_charge(resp))
  <2>1. \/ resp.http = 502
        \/ /\ resp.http = 200 /\ resp.word \in {"failed", "unreadable", "processing"}
           /\ resp.code \in {"none", code}
    BY <1>2, ArrivingFields DEF alphapay_payments, Response, Failed
  <2>2. alphapay_charge(resp) \in {Failed("unknown_decline"), Failed(code), Unknown}
    BY <2>1 DEF alphapay_charge, is_success
  <2> QED BY <1>2, <2>2 DEF Reads, Outcomes, Codes, Failed
<1> QED BY <1>1, <1>2 DEF Fates

LEMMA BetapayReads ==
    ASSUME NEW o \in Fates, NEW resp \in Arriving(betapay_charges(o))
    PROVE  Reads(o, betapay_charge(resp))
<1>1. CASE o = Succeeded
  <2>0. betapay_charges(o).http = 200
        /\ DOMAIN betapay_charges(o) = {"http", "word", "handle", "code"}
    BY <1>1 DEF betapay_charges, Response, Succeeded
  <2>1. resp.http \in {200, 502}
    BY <2>0, ArrivingFields
  <2>2. betapay_charge(resp) \in {Succeeded, Unknown}
    BY <2>1 DEF betapay_charge, is_success
  <2> QED BY <1>1, <2>2 DEF Reads, Outcomes, Succeeded
<1>2. ASSUME NEW code \in {"insufficient_funds", "card_declined"}, o = Failed(code)
      PROVE  Reads(o, betapay_charge(resp))
  <2>0. /\ betapay_charges(o).http = 402
        /\ betapay_charges(o).code = betapay_reason(code)
        /\ DOMAIN betapay_charges(o) = {"http", "word", "handle", "code"}
    BY <1>2 DEF betapay_charges, Response, Failed
  <2>1. /\ resp.http \in {402, 502}
        /\ resp.code \in {"none", betapay_reason(code)}
    BY <2>0, ArrivingFields
  <2>2. normalise_decline(betapay_reason(code)) = code
    BY DEF normalise_decline, betapay_reason
  <2>3. betapay_charge(resp) \in {Failed(code), Unknown}
    BY <2>1, <2>2 DEF betapay_charge, is_success
  <2> QED BY <1>2, <2>3 DEF Reads, Outcomes, Codes, Failed
<1> QED BY <1>1, <1>2 DEF Fates

\* A broken connection decides nothing.
LEMMA DroppedIsUnknown ==
    ASSUME NEW p, NEW resp \in Arriving(dropped_connection)
    PROVE  charge(p, resp) = Unknown
<1>0. /\ dropped_connection.http = 200 /\ dropped_connection.word = "unreadable"
      /\ DOMAIN dropped_connection = {"http", "word", "handle", "code"}
  BY DEF dropped_connection, Response
<1>1. resp.http \in {200, 502} /\ resp.word \in {"unreadable", "processing"}
  BY <1>0, ArrivingFields
<1> QED BY <1>1 DEF charge, alphapay_charge, betapay_charge, is_success

LEMMA ReplyReads ==
    ASSUME NEW p \in Processors, NEW o \in Fates, NEW resp \in Arriving(respond(p, o))
    PROVE  Reads(o, charge(p, resp))
BY AlphapayReads, BetapayReads DEF respond, charge, Processors

-----------------------------------------------------------------------------
(* The invariant, with type correctness: what a reply holds is typed       *)
(* because it is true.                                                     *)

Call == [ref : References \cup {None},
         client : {NoOutcome, Unknown} \cup Outcomes,
         server : {"none", "onWire", "missed", "replying", "dropping", "done"},
         held : {NoOutcome} \cup Outcomes]

LEMMA InitInv == Init => TypeOK /\ ProvidersInv
<1> SUFFICES ASSUME Init PROVE TypeOK /\ ProvidersInv
  OBVIOUS
<1>0. /\ Idle.ref = None /\ Idle.server = "none" /\ Idle.client = NoOutcome
      /\ Idle \in Call
  BY DEF Idle, Call
<1>1. TypeOK
  BY <1>0, ProvidersAssumption DEF Init, TypeOK, Call
<1>2. ASSUME NEW r \in References PROVE LedgerIsTrue(r)
  <2>1. attempt[r].processor \in Processors
    BY DEF Init
  <2> QED BY <2>1 DEF Init, LedgerIsTrue
<1>3. \A c \in Calls : CallIsTrue(c)
  BY <1>0, CardsHaveFates DEF Init, CallIsTrue
<1> QED BY <1>1, <1>2, <1>3 DEF ProvidersInv

LEMMA CallsHaveReferences ==
    ASSUME TypeOK, ProvidersInv, NEW c \in Calls
    PROVE  /\ call[c] \in Call
           /\ call[c].server # "none" \/ call[c].client # NoOutcome
                 => /\ RefOf(c) \in References
                    /\ attempt[RefOf(c)].processor \in Processors
                    /\ behaviour_for(attempt[RefOf(c)].card) \in Fates
BY CardsHaveFates DEF TypeOK, ProvidersInv, CallIsTrue, Idle, RefOf, Call

\* A step that answers for one call, and charges at most more, leaves every
\* other call true.
LEMMA OneCallChanges ==
    ASSUME TypeOK, ProvidersInv, NEW c \in Calls, NEW new \in Call,
           call' = [call EXCEPT ![c] = new], attempt' = attempt,
           charges' \in [References -> Nat], \A r \in References : charges[r] <= charges'[r],
           CallIsTrue(c)'
    PROVE  /\ call' \in [Calls -> Call]
           /\ (\A d \in Calls : CallIsTrue(d))'
<1>1. call' \in [Calls -> Call] /\ \A d \in Calls \ {c} : call'[d] = call[d]
  BY DEF TypeOK, Call
<1>2. ASSUME NEW d \in Calls \ {c} PROVE CallIsTrue(d)'
  <2>1. /\ CallIsTrue(d) /\ call'[d] = call[d]
        /\ call[d].ref \in References => charges[call[d].ref] \in Nat
                                        /\ charges[call[d].ref] <= charges'[call[d].ref]
    BY <1>1 DEF ProvidersInv, TypeOK
  <2>2. call[d].ref # None => call[d].ref \in References
    BY CallsHaveReferences DEF Call
  <2>3. call[d].ref = None => call[d].server = "none" /\ call[d].client = NoOutcome
    BY <2>1 DEF CallIsTrue, Idle
  <2>4. NoOutcome \notin Outcomes
    BY CardsHaveFates
  <2>5. call[d].ref \in References => (charges[call[d].ref] > 0 => charges'[call[d].ref] > 0)
    BY <2>1
  <2> QED BY <2>1, <2>2, <2>3, <2>4, <2>5 DEF CallIsTrue
<1> QED BY <1>1, <1>2

LEMMA ServeEffect ==
    ASSUME TypeOK, NEW c \in Calls, NEW server, NEW held, Serve(c, server, held),
           server \in {"none", "onWire", "missed", "replying", "dropping", "done"},
           held \in {NoOutcome} \cup Outcomes
    PROVE  \E new \in Call :
              /\ call' = [call EXCEPT ![c] = new] /\ call'[c] = new
              /\ new.ref = call[c].ref /\ new.client = call[c].client
              /\ new.server = server /\ new.held = held
<1> DEFINE new == [call[c] EXCEPT !.server = server, !.held = held]
<1>1. call[c] \in Call
  BY DEF TypeOK, Call
<1>2. /\ new \in Call
      /\ new.ref = call[c].ref /\ new.client = call[c].client
      /\ new.server = server /\ new.held = held
  BY <1>1 DEF Call
<1>3. call' = [call EXCEPT ![c] = new] /\ call'[c] = new
  BY DEF Serve, TypeOK
<1> HIDE DEF new
<1> QED BY <1>2, <1>3

\* The invariant after a step that serves a call: what it holds, if it replies,
\* was recorded.
LEMMA ServeKeeps ==
    ASSUME TypeOK, ProvidersInv, NEW c \in Calls, NEW server, NEW held,
           Serve(c, server, held), call[c].server # "none", attempt' = attempt,
           server \in {"missed", "replying", "dropping"},
           held \in {NoOutcome} \cup Outcomes,
           charges' \in [References -> Nat], \A r \in References : charges[r] <= charges'[r],
           server = "replying" =>
              held = behaviour_for(attempt[RefOf(c)].card) /\ charges'[RefOf(c)] > 0
    PROVE  /\ call' \in [Calls -> Call]
           /\ (\A d \in Calls : CallIsTrue(d))'
<1>1. PICK new \in Call :
              /\ call' = [call EXCEPT ![c] = new] /\ call'[c] = new
              /\ new.ref = call[c].ref /\ new.client = call[c].client
              /\ new.server = server /\ new.held = held
  BY ServeEffect
<1>2. RefOf(c) \in References /\ call[c].ref # None
  BY CallsHaveReferences, ProvidersAssumption DEF RefOf
<1>3. charges[RefOf(c)] > 0 => charges'[RefOf(c)] > 0
  BY <1>2 DEF TypeOK
<1>4. CallIsTrue(c)
  BY DEF ProvidersInv
<1>5. CallIsTrue(c)'
  BY <1>1, <1>2, <1>3, <1>4 DEF CallIsTrue, RefOf
<1> QED BY <1>1, <1>5, OneCallChanges

\* Whatever forgets the ledger is counted.
LEMMA ForgetKeeps ==
    ASSUME TypeOK, ProvidersInv, Forget, restarts < MaxRestarts, restarts' = restarts + 1,
           UNCHANGED <<attempt, charges>>
    PROVE  /\ ledger' \in [Processors \X References -> {NoOutcome} \cup Outcomes]
           /\ restarts' \in 0 .. MaxRestarts
           /\ (\A r \in References : LedgerIsTrue(r))'
<1>1. ASSUME NEW r \in References PROVE LedgerIsTrue(r)'
  <2>0. /\ attempt[r].processor \in Processors
        /\ charges[r] \in Nat /\ restarts \in Nat
    BY ProvidersAssumption DEF TypeOK
  <2>1. charges[r] <= restarts \/ charges[r] <= 1 + restarts
    BY Zenon DEF ProvidersInv, LedgerIsTrue
  <2>2. \A q \in Processors : ledger'[<<q, r>>] = NoOutcome
    BY DEF Forget
  <2> QED BY <2>0, <2>1, <2>2 DEF LedgerIsTrue
<1> QED BY <1>1, ProvidersAssumption DEF Forget, TypeOK

LEMMA SameLedger ==
    ASSUME ProvidersInv, UNCHANGED <<attempt, ledger, charges, restarts>>
    PROVE  (\A r \in References : LedgerIsTrue(r))'
BY DEF ProvidersInv, LedgerIsTrue

\* What a caller is told is the outcome its server task holds, or nothing.
LEMMA ReplyEffect ==
    ASSUME TypeOK, ProvidersInv, NEW c \in Calls, Reply(c)
    PROVE  \E new \in Call :
              /\ call' = [call EXCEPT ![c] = new] /\ call'[c] = new
              /\ new.ref = call[c].ref /\ new.server = "done"
              /\ \/ new.client = call[c].client
                 \/ /\ call[c].client = NoOutcome
                    /\ \/ new.client = Unknown
                       \/ /\ charges[RefOf(c)] > 0
                          /\ Reads(behaviour_for(attempt[RefOf(c)].card), new.client)
<1> DEFINE p == attempt[RefOf(c)].processor
           fate == behaviour_for(attempt[RefOf(c)].card)
           sent == IF call[c].server = "dropping" THEN dropped_connection
                   ELSE respond(p, call[c].held)
<1>1. /\ call[c] \in Call /\ p \in Processors /\ fate \in Fates
      /\ call[c].server \in {"replying", "dropping"}
  BY CallsHaveReferences DEF Reply
<1> DEFINE told(resp) == IF Waiting(c) THEN charge(p, resp) ELSE call[c].client
<1>2. PICK resp \in Arriving(sent) :
          call' = [call EXCEPT ![c] = [@ EXCEPT !.server = "done", !.client = told(resp)]]
  BY DEF Reply
<1>3. \/ charge(p, resp) = Unknown
      \/ charges[RefOf(c)] > 0 /\ Reads(fate, charge(p, resp))
  <2>1. CASE call[c].server = "dropping"
    BY <2>1, <1>2, DroppedIsUnknown
  <2>2. CASE call[c].server = "replying"
    <3>1. call[c].held = fate /\ charges[RefOf(c)] > 0
      BY <2>2 DEF ProvidersInv, CallIsTrue, RefOf
    <3>2. resp \in Arriving(respond(p, fate))
      BY <1>2, <2>2, <3>1
    <3> QED BY <1>1, <3>1, <3>2, ReplyReads
  <2> QED BY <1>1, <2>1, <2>2
<1>4. charge(p, resp) \in {Unknown} \cup Outcomes
  BY <1>3 DEF Reads
<1> DEFINE v == told(resp)
<1>6. v \in {NoOutcome, Unknown} \cup Outcomes
  BY <1>1, <1>4 DEF Call
<1>7. \/ v = call[c].client
      \/ /\ call[c].client = NoOutcome
         /\ \/ v = Unknown
            \/ charges[RefOf(c)] > 0 /\ Reads(fate, v)
  BY <1>3 DEF Waiting
<1> HIDE DEF told
<1> DEFINE new == [call[c] EXCEPT !.server = "done", !.client = v]
<1>8. /\ new \in Call /\ new.ref = call[c].ref /\ new.server = "done"
      /\ new.client = v
  BY <1>1, <1>6 DEF Call
<1>9. call' = [call EXCEPT ![c] = new] /\ call'[c] = new
  BY <1>2 DEF TypeOK
<1> HIDE DEF new, fate
<1>10. fate = behaviour_for(attempt[RefOf(c)].card)
  BY DEF fate
<1> QED BY <1>7, <1>8, <1>9, <1>10

LEMMA NextInv == TypeOK /\ ProvidersInv /\ [Next]_vars => TypeOK' /\ ProvidersInv'
<1> SUFFICES ASSUME TypeOK, ProvidersInv, [Next]_vars PROVE TypeOK' /\ ProvidersInv'
  OBVIOUS
<1> DEFINE Typed == /\ ledger' \in [Processors \X References -> {NoOutcome} \cup Outcomes]
                    /\ charges' \in [References -> Nat]
                    /\ restarts' \in 0 .. MaxRestarts
           Calling == /\ call' \in [Calls -> Call]
                      /\ (\A d \in Calls : CallIsTrue(d))'
<1>a. attempt' = attempt
  BY DEF Next, vars, Submit, TransportError, Receive, Record, Reply, Restart, admin_reset
<1>b. /\ charges \in [References -> Nat] /\ \A r \in References : charges[r] <= charges[r]
      /\ NoOutcome \notin Outcomes /\ Unknown \notin Outcomes
      /\ \A c \in Calls : CallIsTrue(c)
  BY CardsHaveFates DEF TypeOK, ProvidersInv
<1>c. ASSUME UNCHANGED <<ledger, charges, restarts>>
      PROVE  Typed /\ (\A r \in References : LedgerIsTrue(r))'
  BY <1>a, <1>c, SameLedger DEF TypeOK
<1>d. ASSUME Typed, (\A r \in References : LedgerIsTrue(r))', Calling
      PROVE  TypeOK' /\ ProvidersInv'
  BY <1>a, <1>d DEF TypeOK, ProvidersInv, Call
<1> HIDE DEF Typed, Calling
<1>1. ASSUME NEW c \in Calls, NEW r \in References, Submit(c, r) PROVE TypeOK' /\ ProvidersInv'
  <2> DEFINE new == [Idle EXCEPT !.ref = r, !.server = "onWire"]
  <2>1. /\ new \in Call /\ new.ref = r /\ new.server = "onWire" /\ new.client = NoOutcome
        /\ r # None
    BY ProvidersAssumption DEF Idle, Call
  <2>2. call' = [call EXCEPT ![c] = new] /\ call'[c] = new
    BY <1>1 DEF Submit, TypeOK
  <2> HIDE DEF new
  <2>3. CallIsTrue(c)'
    BY <1>b, <2>1, <2>2 DEF CallIsTrue
  <2>4. Calling
    BY <1>1, <1>a, <1>b, <2>1, <2>2, <2>3, OneCallChanges DEF Submit, Calling
  <2> QED BY <1>1, <1>c, <1>d, <2>4 DEF Submit
<1>2. ASSUME NEW c \in Calls, TransportError(c) PROVE TypeOK' /\ ProvidersInv'
  <2> DEFINE new == [call[c] EXCEPT !.client = Unknown]
  <2>1. call[c] \in Call /\ call[c].ref # None
    BY <1>2, CallsHaveReferences DEF TransportError, Waiting, RefOf
  <2>2. /\ new \in Call /\ new.ref = call[c].ref /\ new.client = Unknown
        /\ new.server = call[c].server /\ new.held = call[c].held
    BY <2>1 DEF Call
  <2>3. call' = [call EXCEPT ![c] = new] /\ call'[c] = new
    BY <1>2 DEF TransportError, TypeOK
  <2> HIDE DEF new
  <2>4. CallIsTrue(c)'
    BY <1>2, <1>a, <1>b, <2>1, <2>2, <2>3 DEF CallIsTrue, TransportError
  <2>5. Calling
    BY <1>2, <1>a, <1>b, <2>2, <2>3, <2>4, OneCallChanges DEF TransportError, Calling
  <2> QED BY <1>2, <1>c, <1>d, <2>5 DEF TransportError
<1>3. ASSUME NEW c \in Calls, call[c].server \in {"onWire", "missed"}
      PROVE  /\ RefOf(c) \in References
             /\ LedgerKey(c) \in Processors \X References
             /\ ledger[LedgerKey(c)] \in {NoOutcome} \cup Outcomes
             /\ ledger[LedgerKey(c)] # NoOutcome =>
                    /\ ledger[LedgerKey(c)] = behaviour_for(attempt[RefOf(c)].card)
                    /\ charges[RefOf(c)] > 0
  <2>1. RefOf(c) \in References /\ attempt[RefOf(c)].processor \in Processors
    BY <1>3, CallsHaveReferences
  <2> QED BY <2>1 DEF LedgerKey, TypeOK, ProvidersInv, LedgerIsTrue
<1>4. ASSUME NEW c \in Calls, Receive(c) PROVE TypeOK' /\ ProvidersInv'
  <2>1. call[c].server = "onWire" /\ UNCHANGED <<ledger, charges, restarts>>
    BY <1>4 DEF Receive
  <2>2. Calling
    <3>1. CASE Serve(c, "dropping", NoOutcome) \/ Serve(c, "missed", NoOutcome)
      BY <1>a, <1>b, <2>1, <3>1, ServeKeeps DEF Calling
    <3>2. CASE ledger[LedgerKey(c)] # NoOutcome /\ Serve(c, "replying", ledger[LedgerKey(c)])
      BY <1>a, <1>b, <1>3, <2>1, <3>2, ServeKeeps DEF Calling
    <3> QED BY <1>4, <3>1, <3>2 DEF Receive
  <2> QED BY <1>c, <1>d, <2>1, <2>2
<1>5. ASSUME NEW c \in Calls, Record(c) PROVE TypeOK' /\ ProvidersInv'
  <2>1. call[c].server = "missed" /\ restarts' = restarts
    BY <1>5 DEF Record
  <2>2. CASE /\ ledger[LedgerKey(c)] # NoOutcome
             /\ Serve(c, "replying", ledger[LedgerKey(c)])
             /\ UNCHANGED <<ledger, charges>>
    <3>1. Calling
      BY <1>a, <1>b, <1>3, <2>1, <2>2, ServeKeeps DEF Calling
    <3> QED BY <1>c, <1>d, <2>1, <2>2, <3>1
  <2>3. ASSUME NEW o, o = behaviour_for(attempt[RefOf(c)].card),
               ledger[LedgerKey(c)] = NoOutcome,
               ledger' = [ledger EXCEPT ![LedgerKey(c)] = o],
               charges' = [charges EXCEPT ![RefOf(c)] = @ + 1],
               Serve(c, "replying", o)
        PROVE  TypeOK' /\ ProvidersInv'
    <3>1. /\ RefOf(c) \in References /\ o \in Outcomes
          /\ attempt[RefOf(c)].processor \in Processors
      BY <1>3, <2>1, <2>3, CardsHaveFates, CallsHaveReferences
    <3>2. /\ charges' \in [References -> Nat] /\ charges'[RefOf(c)] = charges[RefOf(c)] + 1
          /\ \A r \in References \ {RefOf(c)} : charges'[r] = charges[r]
      BY <1>b, <2>3, <3>1
    <3>3. charges'[RefOf(c)] > 0 /\ \A r \in References : charges[r] <= charges'[r]
      BY <1>b, <3>1, <3>2
    <3>4. Calling
      BY <1>a, <2>1, <2>3, <3>1, <3>2, <3>3, ServeKeeps DEF Calling
    <3>5. ASSUME NEW r \in References PROVE LedgerIsTrue(r)'
      <4>0. /\ LedgerIsTrue(r) /\ attempt[r].processor \in Processors
            /\ charges[r] \in Nat /\ restarts \in Nat
        BY ProvidersAssumption DEF ProvidersInv, TypeOK
      <4>1. \A q \in Processors :
              ledger'[<<q, r>>] = IF q = attempt[RefOf(c)].processor /\ r = RefOf(c)
                                  THEN o ELSE ledger[<<q, r>>]
        BY <2>3, <3>1 DEF LedgerKey, TypeOK
      <4>2. CASE r = RefOf(c)
        <5>1. ledger[<<attempt[r].processor, r>>] = NoOutcome
          BY <2>3, <4>2 DEF LedgerKey
        <5>2. charges[r] <= restarts
          BY <4>0, <5>1 DEF LedgerIsTrue
        <5>3. charges'[r] <= 1 + restarts' /\ charges'[r] > 0
          BY <2>1, <3>2, <4>0, <4>2, <5>2
        <5>4. o # NoOutcome
          BY <1>b, <3>1
        <5> QED BY <1>a, <2>3, <4>0, <4>1, <4>2, <5>3, <5>4 DEF LedgerIsTrue
      <4>3. CASE r # RefOf(c)
        BY <1>a, <2>1, <3>2, <4>0, <4>1, <4>3 DEF LedgerIsTrue
      <4> QED BY <4>2, <4>3
    <3>6. Typed
      BY <2>1, <2>3, <3>1, <3>2 DEF Typed, TypeOK
    <3> QED BY <1>d, <3>4, <3>5, <3>6
  <2> QED BY <1>5, <2>2, <2>3 DEF Record
<1>6. ASSUME NEW c \in Calls, Reply(c) PROVE TypeOK' /\ ProvidersInv'
  <2>1. PICK new \in Call :
          /\ call' = [call EXCEPT ![c] = new] /\ call'[c] = new
          /\ new.ref = call[c].ref /\ new.server = "done"
          /\ \/ new.client = call[c].client
             \/ /\ call[c].client = NoOutcome
                /\ \/ new.client = Unknown
                   \/ /\ charges[RefOf(c)] > 0
                      /\ Reads(behaviour_for(attempt[RefOf(c)].card), new.client)
    BY <1>6, ReplyEffect
  <2>2. call[c].ref # None /\ charges' = charges
    BY <1>6, CallsHaveReferences, ProvidersAssumption DEF Reply, RefOf
  <2>3. CallIsTrue(c)'
    BY <1>a, <1>b, <2>1, <2>2 DEF CallIsTrue, Reads, RefOf
  <2>4. Calling
    BY <1>a, <1>b, <2>1, <2>2, <2>3, OneCallChanges DEF Calling
  <2> QED BY <1>6, <1>c, <1>d, <2>4 DEF Reply
<1>7. CASE Restart
  <2>1. ASSUME NEW c \in Calls PROVE call'[c] \in Call /\ CallIsTrue(c)'
    <3>1. CASE call[c].server = "none"
      <4>1. call'[c] = call[c]
        BY <1>7, <3>1 DEF Restart
      <4> QED BY <1>7, <1>a, <1>b, <4>1, CallsHaveReferences DEF Restart, CallIsTrue
    <3>2. CASE call[c].server # "none"
      <4>1. call'[c] = [call[c] EXCEPT !.server = "done"]
        BY <1>7, <3>2 DEF Restart
      <4>2. call[c] \in Call /\ call[c].ref # None
        BY <3>2, CallsHaveReferences, ProvidersAssumption DEF RefOf
      <4>3. /\ call'[c] \in Call /\ call'[c].ref = call[c].ref /\ call'[c].server = "done"
            /\ call'[c].client = call[c].client
        BY <4>1, <4>2 DEF Call
      <4> QED BY <1>7, <1>a, <1>b, <4>2, <4>3 DEF Restart, CallIsTrue
    <3> QED BY <3>1, <3>2
  <2>2. Calling
    BY <1>7, <2>1 DEF Restart, Calling
  <2> QED BY <1>7, <1>b, <1>d, <2>2, ForgetKeeps DEF Restart, Typed
<1>8. CASE admin_reset
  <2>1. Calling
    BY <1>8, <1>b DEF admin_reset, Calling, CallIsTrue, TypeOK, Call
  <2> QED BY <1>8, <1>b, <1>d, <2>1, ForgetKeeps DEF admin_reset, Typed
<1>9. CASE UNCHANGED vars
  <2>1. Calling
    BY <1>9, <1>b DEF vars, Calling, CallIsTrue, TypeOK, Call
  <2> QED BY <1>9, <1>c, <1>d, <2>1 DEF vars
<1> QED BY <1>1, <1>2, <1>4, <1>5, <1>6, <1>7, <1>8, <1>9 DEF Next

\* Every variable keeps its type, and no task or caller ever has an outcome that
\* was not recorded for its reference. (the adapters, settle() in mock-psp)
THEOREM ProvidersInvariant == Spec => [](TypeOK /\ ProvidersInv)
<1> QED BY InitInv, NextInv, PTL DEF Spec

\* The type invariant by itself.
THEOREM TypeCorrect == Spec => []TypeOK
<1> QED BY ProvidersInvariant, PTL

\* However many calls overlap inside settle(), a reference is charged once for
\* each ledger it has met. (the second look under the lock, Registry::get)
THEOREM ChargedOncePerLedger == Spec => []OnlyForgettingRecharges
<1>1. TypeOK /\ ProvidersInv => OnlyForgettingRecharges
  <2> SUFFICES ASSUME TypeOK, ProvidersInv, NEW r \in References
               PROVE  /\ charges[r] <= 1 + restarts
                      /\ \A p \in Processors :
                            ledger[<<p, r>>] # NoOutcome => p = attempt[r].processor
    BY DEF OnlyForgettingRecharges
  <2>1. LedgerIsTrue(r) /\ charges[r] \in Nat /\ restarts \in Nat
    BY ProvidersAssumption DEF TypeOK, ProvidersInv
  <2>2. charges[r] <= restarts \/ charges[r] <= 1 + restarts
    BY <2>1, Zenon DEF LedgerIsTrue
  <2> QED BY <2>1, <2>2 DEF LedgerIsTrue
<1> QED BY <1>1, ProvidersInvariant, PTL

\* A decline code is never another card's, nor another reason's: it is the one
\* the card stands for, or says that it is unknown. (normalise_decline)
THEOREM CodesAreKept == Spec => []DeclinesKeepTheirCode
<1>1. TypeOK /\ ProvidersInv => DeclinesKeepTheirCode
  <2> SUFFICES ASSUME TypeOK, ProvidersInv, NEW c \in Calls, Verdict(c).tag = "failed"
               PROVE  Verdict(c).code \in
                         {"unknown_decline", behaviour_for(attempt[RefOf(c)].card).code}
    BY DEF DeclinesKeepTheirCode
  <2>1. Verdict(c) \in Outcomes
    BY DEF TypeOK, Verdict, NoOutcome, Unknown
  <2> QED BY <2>1 DEF ProvidersInv, CallIsTrue, Verdict, RefOf
<1> QED BY <1>1, ProvidersInvariant, PTL

-----------------------------------------------------------------------------
(* The contract of charge().                                               *)

FateOf == [r \in References |-> Fate(r)]

VerdictOf == [c \in Calls |-> IF Verdict(c) = NoOutcome THEN None
                             ELSE [ref |-> RefOf(c), outcome |-> Verdict(c).tag]]

\* The answer of one call, as the contract sees it.
LEMMA ReturnStep ==
    ASSUME TypeOK, ProvidersInv, NEW c \in Calls, NEW new \in Call,
           call[c].server # "none" \/ RefOf(c) # None,
           call' = [call EXCEPT ![c] = new], attempt' = attempt, charges' = charges,
           new.ref = call[c].ref,
           call[c].client = NoOutcome,
           \/ new.client = Unknown
           \/ /\ charges[RefOf(c)] > 0
              /\ Reads(behaviour_for(attempt[RefOf(c)].card), new.client)
    PROVE  Contract!Return(c, RefOf(c)) /\ RefOf(c) \in References
<1>1. RefOf(c) \in References /\ RefOf(c) # None
  BY CallsHaveReferences, ProvidersAssumption DEF RefOf, Call
<1>2. PICK r, v : r = RefOf(c) /\ v = new.client.tag
  OBVIOUS
<1>3. /\ VerdictOf[c] = None
      /\ \A d \in Calls \ {c} : call'[d] = call[d]
      /\ call'[c] = new
  BY DEF VerdictOf, Verdict, TypeOK
<1>4. FateOf' = FateOf
  BY DEF FateOf, Fate
<1>5. new.client # NoOutcome /\ v \in {"unknown"} \cup ({FateOf[r]} \ {"none"})
  <2>1. CASE new.client = Unknown
    BY <1>2, <2>1 DEF Unknown, NoOutcome
  <2>2. CASE new.client # Unknown
    <3>1. /\ new.client \in Outcomes
          /\ new.client.tag = behaviour_for(attempt[r].card).tag
          /\ charges[r] > 0
      BY <1>2, <2>2 DEF Reads
    <3>2. FateOf[r] = behaviour_for(attempt[r].card).tag
      BY <1>1, <1>2, <3>1 DEF FateOf, Fate
    <3> QED BY <1>2, <3>1, <3>2, CardsHaveFates
  <2> QED BY <2>1, <2>2
<1>6. VerdictOf' = [VerdictOf EXCEPT ![c] = [ref |-> r, outcome |-> v]]
  <2>1. VerdictOf'[c] = [ref |-> r, outcome |-> v]
    BY <1>2, <1>3, <1>5 DEF VerdictOf, Verdict, RefOf
  <2>2. \A d \in Calls \ {c} : VerdictOf'[d] = VerdictOf[d]
    BY <1>3 DEF VerdictOf, Verdict, RefOf
  <2>3. /\ VerdictOf' = [d \in Calls |-> VerdictOf'[d]]
        /\ VerdictOf = [d \in Calls |-> VerdictOf[d]]
    BY DEF VerdictOf
  <2> HIDE DEF VerdictOf
  <2> QED BY <2>1, <2>2, <2>3
<1> QED BY <1>1, <1>2, <1>3, <1>4, <1>5, <1>6 DEF Contract!Return, FateOf, VerdictOf

LEMMA SameContract ==
    ASSUME attempt' = attempt, charges' = charges,
           \A c \in Calls : /\ call'[c].client = call[c].client
                            /\ call[c].client # NoOutcome => call'[c].ref = call[c].ref
    PROVE  FateOf' = FateOf /\ VerdictOf' = VerdictOf
<1>1. FateOf' = FateOf
  BY DEF FateOf, Fate
<1>2. \A c \in Calls : VerdictOf'[c] = VerdictOf[c]
  BY DEF VerdictOf, Verdict, RefOf
<1>3. VerdictOf' = [c \in Calls |-> VerdictOf'[c]] /\ VerdictOf = [c \in Calls |-> VerdictOf[c]]
  BY DEF VerdictOf
<1> HIDE DEF VerdictOf
<1>4. VerdictOf' = VerdictOf
  BY <1>2, <1>3
<1> QED BY <1>1, <1>4

\* The first record of a reference decides its fate; a later one, by a provider
\* that has forgotten the first, decides the same.
LEMMA DecideStep ==
    ASSUME TypeOK, NEW r \in References, attempt' = attempt,
           charges' = [charges EXCEPT ![r] = @ + 1],
           VerdictOf' = VerdictOf
    PROVE  Contract!Decide(r) \/ (FateOf' = FateOf /\ VerdictOf' = VerdictOf)
<1>0. \A x \in References :
        /\ charges[x] \in Nat /\ charges'[x] = IF x = r THEN charges[x] + 1 ELSE charges[x]
        /\ FateOf[x] = IF charges[x] = 0 THEN "none" ELSE behaviour_for(attempt[x].card).tag
        /\ FateOf'[x] = IF charges'[x] = 0 THEN "none" ELSE behaviour_for(attempt[x].card).tag
  BY DEF TypeOK, FateOf, Fate
<1>1. FateOf = [x \in References |-> FateOf[x]] /\ FateOf' = [x \in References |-> FateOf'[x]]
  BY DEF FateOf
<1>2. CASE charges[r] = 0
  <2>1. PICK f : f = behaviour_for(attempt[r].card).tag
    OBVIOUS
  <2>2. f \in {"succeeded", "failed"}
    BY <2>1, CardsHaveFates
  <2>3. FateOf[r] = "none" /\ FateOf'[r] = f /\ \A x \in References \ {r} : FateOf'[x] = FateOf[x]
    BY <1>0, <1>2, <2>1
  <2> HIDE DEF FateOf
  <2>4. FateOf' = [FateOf EXCEPT ![r] = f]
    BY <1>1, <2>3
  <2> QED BY <2>2, <2>3, <2>4 DEF Contract!Decide, FateOf, VerdictOf
<1>3. CASE charges[r] # 0
  <2>1. \A x \in References : FateOf'[x] = FateOf[x]
    BY <1>0, <1>3
  <2> HIDE DEF FateOf
  <2>2. FateOf' = FateOf
    BY <1>1, <2>1
  <2> QED BY <2>2
<1> QED BY <1>2, <1>3

LEMMA ServeSaysNothing ==
    ASSUME TypeOK, ProvidersInv, NEW c \in Calls, NEW server, NEW held, Serve(c, server, held)
    PROVE  VerdictOf' = VerdictOf
<1>0. call \in [Calls -> Call]
  BY DEF TypeOK, Call
<1>1. \A d \in Calls : call'[d].client = call[d].client /\ call'[d].ref = call[d].ref
  BY <1>0 DEF Serve, Call
<1>2. \A d \in Calls : VerdictOf'[d] = VerdictOf[d]
  BY <1>1 DEF VerdictOf, Verdict, RefOf
<1>3. VerdictOf' = [d \in Calls |-> VerdictOf'[d]] /\ VerdictOf = [d \in Calls |-> VerdictOf[d]]
  BY DEF VerdictOf
<1> HIDE DEF VerdictOf
<1> QED BY <1>2, <1>3

MoveOrStutter == Contract!Next \/ (FateOf' = FateOf /\ VerdictOf' = VerdictOf)

LEMMA ContractStep ==
    TypeOK /\ ProvidersInv /\ [Next]_vars => MoveOrStutter
<1> SUFFICES ASSUME TypeOK, ProvidersInv, [Next]_vars PROVE MoveOrStutter
  OBVIOUS
<1>a. attempt' = attempt
  BY DEF Next, vars, Submit, TransportError, Receive, Record, Reply, Restart, admin_reset
<1>b. ASSUME NEW r \in References, Contract!Decide(r) PROVE MoveOrStutter
  BY <1>b DEF MoveOrStutter, Contract!Next
<1>c. ASSUME NEW c \in Calls, NEW r \in References, Contract!Return(c, r) PROVE MoveOrStutter
  BY <1>c DEF MoveOrStutter, Contract!Next
<1>d. FateOf' = FateOf /\ VerdictOf' = VerdictOf => MoveOrStutter
  BY DEF MoveOrStutter
<1>e. charges' = charges => FateOf' = FateOf
  BY <1>a DEF FateOf, Fate
<1>1. ASSUME NEW c \in Calls, NEW r \in References, Submit(c, r) PROVE MoveOrStutter
  <2>1. /\ call[c].client = NoOutcome /\ call'[c].client = NoOutcome
        /\ \A d \in Calls \ {c} : call'[d] = call[d]
    BY <1>1 DEF Submit, Idle, TypeOK
  <2> QED BY <1>1, <1>a, <1>d, <2>1, SameContract DEF Submit
<1>2. ASSUME NEW c \in Calls, TransportError(c) PROVE MoveOrStutter
  <2> DEFINE new == [call[c] EXCEPT !.client = Unknown]
  <2>1. call[c] \in Call
    BY CallsHaveReferences
  <2>2. new \in Call /\ new.ref = call[c].ref /\ new.client = Unknown
    BY <2>1 DEF Call
  <2>3. call' = [call EXCEPT ![c] = new] /\ charges' = charges
    BY <1>2 DEF TransportError
  <2> HIDE DEF new
  <2>4. Contract!Return(c, RefOf(c)) /\ RefOf(c) \in References
    BY <1>2, <1>a, <2>2, <2>3, ReturnStep DEF TransportError, Waiting
  <2> QED BY <1>c, <2>4
<1>3. ASSUME NEW c \in Calls, Receive(c) PROVE MoveOrStutter
  <2>1. VerdictOf' = VerdictOf /\ charges' = charges
    BY <1>3, ServeSaysNothing DEF Receive
  <2> QED BY <1>d, <1>e, <2>1
<1>4. ASSUME NEW c \in Calls, Record(c) PROVE MoveOrStutter
  <2>1. RefOf(c) \in References
    BY <1>4, CallsHaveReferences DEF Record
  <2>2. VerdictOf' = VerdictOf
    BY <1>4, ServeSaysNothing DEF Record
  <2>3. charges' = charges \/ charges' = [charges EXCEPT ![RefOf(c)] = @ + 1]
    BY <1>4 DEF Record
  <2> QED BY <1>a, <1>b, <1>d, <1>e, <2>1, <2>2, <2>3, DecideStep
<1>5. ASSUME NEW c \in Calls, Reply(c) PROVE MoveOrStutter
  <2>1. PICK new \in Call :
          /\ call' = [call EXCEPT ![c] = new] /\ call'[c] = new
          /\ new.ref = call[c].ref /\ new.server = "done"
          /\ \/ new.client = call[c].client
             \/ /\ call[c].client = NoOutcome
                /\ \/ new.client = Unknown
                   \/ /\ charges[RefOf(c)] > 0
                      /\ Reads(behaviour_for(attempt[RefOf(c)].card), new.client)
    BY <1>5, ReplyEffect
  <2>2. charges' = charges /\ call[c].server # "none"
    BY <1>5 DEF Reply
  <2>3. CASE new.client = call[c].client
    <3>1. \A d \in Calls : call'[d].client = call[d].client /\ call'[d].ref = call[d].ref
      BY <2>1, <2>3 DEF TypeOK
    <3> QED BY <1>a, <1>d, <2>2, <3>1, SameContract
  <2>4. CASE new.client # call[c].client
    <3>1. Contract!Return(c, RefOf(c)) /\ RefOf(c) \in References
      BY <1>a, <2>1, <2>2, <2>4, ReturnStep
    <3> QED BY <1>c, <3>1
  <2> QED BY <2>3, <2>4
<1>6. CASE Restart
  <2>1. \A d \in Calls : call[d] \in Call
    BY CallsHaveReferences
  <2>2. \A d \in Calls : call'[d].client = call[d].client /\ call'[d].ref = call[d].ref
    BY <1>6, <2>1 DEF Restart, Call
  <2> QED BY <1>6, <1>a, <1>d, <2>2, SameContract DEF Restart
<1>7. CASE admin_reset
  BY <1>7, <1>a, <1>d, SameContract DEF admin_reset
<1>8. CASE UNCHANGED vars
  BY <1>8, <1>a, <1>d, SameContract DEF vars
<1> QED
  BY <1>1, <1>2, <1>3, <1>4, <1>5, <1>6, <1>7, <1>8 DEF Next

\* The contract that the payment flow relies on holds for both providers,
\* through lost and garbled responses, overlapping calls and restarts.
\* (trait PaymentProcessor, the adapters, settle() in mock-psp)
THEOREM ContractIsImplemented == Spec => ImplementsContract
<1>1. Init => Contract!Init
  <2> SUFFICES ASSUME Init PROVE Contract!Init
    OBVIOUS
  <2>1. \A r \in References : Fate(r) = "none"
    BY DEF Init, Fate
  <2>2. \A c \in Calls : Verdict(c) = NoOutcome
    BY DEF Init, Verdict, Idle
  <2> QED BY <2>1, <2>2 DEF Contract!Init
<1>2. TypeOK /\ ProvidersInv /\ [Next]_vars => [Contract!Next]_(Contract!vars)
  BY ContractStep DEF MoveOrStutter, FateOf, VerdictOf, Contract!vars
<1> QED BY <1>1, <1>2, ProvidersInvariant, PTL DEF Spec, ImplementsContract, Contract!Spec


-----------------------------------------------------------------------------
(* What callers may conclude from each other's answers.                    *)

\* However often a reference is asked for, by the handler, by every sweep of
\* every replica, before and after restarts of the provider that forget the
\* ledger: all who are given an outcome are given the same one, and the money
\* has moved, or been refused, by then. (Idempotency of trait PaymentProcessor,
\* settle() in mock-psp)
CallersAgree ==
    \A c, d \in Calls :
        RefOf(c) = RefOf(d) /\ Verdict(c) \in Outcomes /\ Verdict(d) \in Outcomes =>
            /\ Verdict(c).tag = Verdict(d).tag
            /\ charges[RefOf(c)] > 0
            /\ Verdict(c) # Verdict(d) =>
                  Failed("unknown_decline") \in {Verdict(c), Verdict(d)}

\* No two callers are ever told different outcomes; the most they can differ in
\* is that one of them has lost the reason of a decline.
THEOREM CallersAreToldTheSame == Spec => []CallersAgree
<1>1. TypeOK /\ ProvidersInv => CallersAgree
  <2> SUFFICES ASSUME TypeOK, ProvidersInv, NEW c \in Calls, NEW d \in Calls,
                      RefOf(c) = RefOf(d), Verdict(c) \in Outcomes, Verdict(d) \in Outcomes
               PROVE  /\ Verdict(c).tag = Verdict(d).tag
                      /\ charges[RefOf(c)] > 0
                      /\ Verdict(c) # Verdict(d) =>
                            Failed("unknown_decline") \in {Verdict(c), Verdict(d)}
    BY DEF CallersAgree
  <2> DEFINE fate == behaviour_for(attempt[RefOf(c)].card)
  <2>1. ASSUME NEW e \in {c, d}
        PROVE  /\ charges[RefOf(c)] > 0 /\ Verdict(e).tag = fate.tag
               /\ fate.tag = "failed" => Verdict(e).code \in {"unknown_decline", fate.code}
    BY <2>1 DEF ProvidersInv, CallIsTrue, Verdict, RefOf
  <2>2. ASSUME NEW e \in {c, d}
        PROVE  \/ Verdict(e) = Succeeded
               \/ Verdict(e).tag = "failed" /\ Verdict(e) = Failed(Verdict(e).code)
    BY <2>2 DEF Outcomes, Failed
  <2> HIDE DEF fate
  <2>3. Succeeded.tag # "failed"
    BY DEF Succeeded
  <2> QED BY <2>1, <2>2, <2>3
<1> QED BY <1>1, ProvidersInvariant, PTL

\* The card that breaks the connection moves no money and decides nothing, so
\* that its attempt can only end by being handed to a person: neither adapter
\* ever makes an outcome of a dropped connection, whatever arrives in its place.
\* (settle() of mock-psp before the ledger, classify_transport_error)
BrokenLinesDecideNothing ==
    \A r \in References : Drops(attempt[r].card) =>
        /\ charges[r] = 0
        /\ \A c \in Calls : RefOf(c) = r => Verdict(c) \in {NoOutcome, Unknown}

\* Inductive: no call about such a card gets as far as the ledger.
KeptOffTheLedger ==
    /\ \A r \in References : Drops(attempt[r].card) => charges[r] = 0
    /\ \A c \in Calls : call[c].server = "missed" => ~Drops(attempt[RefOf(c)].card)

LEMMA KeptOffStep ==
    TypeOK /\ ProvidersInv /\ KeptOffTheLedger /\ [Next]_vars => KeptOffTheLedger'
<1> SUFFICES ASSUME TypeOK, ProvidersInv, KeptOffTheLedger, [Next]_vars
             PROVE  KeptOffTheLedger'
  OBVIOUS
<1>a. attempt' = attempt
  BY DEF Next, vars, Submit, TransportError, Receive, Record, Reply, Restart, admin_reset
<1>b. ASSUME NEW c \in Calls, NEW new \in Call,
             call' = [call EXCEPT ![c] = new], charges' = charges,
             new.server = "missed" => ~Drops(attempt[new.ref].card)
      PROVE  KeptOffTheLedger'
  BY <1>a, <1>b DEF KeptOffTheLedger, TypeOK, RefOf
<1>1. ASSUME NEW c \in Calls, NEW r \in References, Submit(c, r) PROVE KeptOffTheLedger'
  <2> DEFINE new == [Idle EXCEPT !.ref = r, !.server = "onWire"]
  <2>1. new \in Call /\ new.server = "onWire"
    BY DEF Idle, Call
  <2>2. call' = [call EXCEPT ![c] = new] /\ charges' = charges
    BY <1>1 DEF Submit
  <2> HIDE DEF new
  <2> QED BY <1>b, <2>1, <2>2
<1>2. ASSUME NEW c \in Calls, TransportError(c) PROVE KeptOffTheLedger'
  <2> DEFINE new == [call[c] EXCEPT !.client = Unknown]
  <2>1. call[c] \in Call
    BY CallsHaveReferences
  <2>2. new \in Call /\ new.server = call[c].server /\ new.ref = call[c].ref
    BY <2>1 DEF Call
  <2>3. call' = [call EXCEPT ![c] = new] /\ charges' = charges
    BY <1>2 DEF TransportError
  <2> HIDE DEF new
  <2> QED BY <1>b, <2>2, <2>3 DEF KeptOffTheLedger, RefOf
<1>3. ASSUME NEW c \in Calls, NEW server \in {"missed", "replying", "dropping"},
             NEW held \in {NoOutcome} \cup Outcomes, Serve(c, server, held),
             server = "missed" => ~Drops(attempt[RefOf(c)].card)
      PROVE  \E new \in Call :
                /\ call' = [call EXCEPT ![c] = new]
                /\ new.server = "missed" => ~Drops(attempt[new.ref].card)
                /\ new.server = server
  <2>1. PICK new \in Call : /\ call' = [call EXCEPT ![c] = new]
                            /\ new.ref = call[c].ref /\ new.server = server
    BY <1>3, ServeEffect
  <2> QED BY <1>3, <2>1 DEF RefOf
<1>4. ASSUME NEW c \in Calls, call[c].server \in {"onWire", "missed"}
      PROVE  RefOf(c) \in References /\ ledger[LedgerKey(c)] \in {NoOutcome} \cup Outcomes
  <2>1. RefOf(c) \in References /\ attempt[RefOf(c)].processor \in Processors
    BY <1>4, CallsHaveReferences
  <2> QED BY <2>1 DEF LedgerKey, TypeOK
<1>5. ASSUME NEW c \in Calls, Receive(c) PROVE KeptOffTheLedger'
  BY <1>b, <1>3, <1>4, <1>5 DEF Receive
<1>6. ASSUME NEW c \in Calls, Record(c) PROVE KeptOffTheLedger'
  <2>1. RefOf(c) \in References /\ ~Drops(attempt[RefOf(c)].card)
    BY <1>4, <1>6 DEF Record, KeptOffTheLedger
  <2>2. \A r \in References : Drops(attempt[r].card) => charges'[r] = 0
    BY <1>6, <2>1 DEF Record, KeptOffTheLedger, TypeOK
  <2>3. PICK o \in {NoOutcome} \cup Outcomes : Serve(c, "replying", o)
    <3>1. behaviour_for(attempt[RefOf(c)].card) \in Outcomes
      BY <2>1, CardsHaveFates, CallsHaveReferences
    <3> QED BY <1>4, <1>6, <3>1 DEF Record
  <2>4. PICK new \in Call : call' = [call EXCEPT ![c] = new] /\ new.server = "replying"
    BY <1>3, <2>3
  <2> QED BY <1>a, <2>2, <2>4 DEF KeptOffTheLedger, TypeOK, RefOf
<1>7. ASSUME NEW c \in Calls, Reply(c) PROVE KeptOffTheLedger'
  <2>1. PICK new \in Call : call' = [call EXCEPT ![c] = new] /\ new.server = "done"
    BY <1>7, ReplyEffect
  <2> QED BY <1>7, <1>b, <2>1 DEF Reply
<1>8. CASE Restart
  <2>1. \A c \in Calls : call[c] \in Call
    BY CallsHaveReferences
  <2>2. \A c \in Calls : call'[c].server # "missed" /\ charges' = charges
    BY <1>8, <2>1 DEF Restart, Call
  <2> QED BY <1>a, <1>8, <2>2 DEF KeptOffTheLedger, Restart
<1>9. CASE admin_reset \/ UNCHANGED vars
  BY <1>9, <1>a DEF admin_reset, vars, KeptOffTheLedger, RefOf
<1> QED BY <1>1, <1>2, <1>5, <1>6, <1>7, <1>8, <1>9 DEF Next

\* A dropped connection is never taken for an outcome.
THEOREM BrokenLinesStayOpen == Spec => []BrokenLinesDecideNothing
<1>1. Init => KeptOffTheLedger
  BY DEF Init, KeptOffTheLedger, Idle
<1>2. TypeOK /\ ProvidersInv /\ KeptOffTheLedger => BrokenLinesDecideNothing
  <2> SUFFICES ASSUME TypeOK, ProvidersInv, KeptOffTheLedger,
                      NEW r \in References, Drops(attempt[r].card)
               PROVE  /\ charges[r] = 0
                      /\ \A c \in Calls : RefOf(c) = r => Verdict(c) \in {NoOutcome, Unknown}
    BY DEF BrokenLinesDecideNothing
  <2>1. charges[r] = 0
    BY DEF KeptOffTheLedger
  <2> QED BY <2>1 DEF TypeOK, ProvidersInv, CallIsTrue, RefOf, Verdict
<1> QED BY <1>1, <1>2, KeptOffStep, ProvidersInvariant, PTL DEF Spec

=============================================================================

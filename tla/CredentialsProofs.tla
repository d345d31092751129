------------------------- MODULE CredentialsProofs -------------------------
(* Proofs about Credentials, for every set of keys, tokens, requests and   *)
(* permission lists.                                                       *)
EXTENDS Credentials, TLAPS

-----------------------------------------------------------------------------
(* The permission grammar *)

\* A pair a list grants is covered by one of its scopes, directly or, for read,
\* through a mutating action of the same resource.
LEMMA GrantedBy ==
    ASSUME NEW P \in SUBSET Scopes, NEW r \in Resources, NEW a \in Actions
    PROVE  has_scope(P, r, a) <=>
             \/ \E s \in P : s[1] \in {r, "*"} /\ s[2] \in {a, "*"}
             \/ a = "read" /\ \E s \in P : s[1] \in {r, "*"} /\ s[2] \in Mutating
  <1>1. \A s \in P : s = <<s[1], s[2]>>
    BY DEF Scopes
  <1>2. ASSUME has_scope(P, r, a)
        PROVE  \/ \E s \in P : s[1] \in {r, "*"} /\ s[2] \in {a, "*"}
               \/ a = "read" /\ \E s \in P : s[1] \in {r, "*"} /\ s[2] \in Mutating
    BY <1>1, <1>2 DEF has_scope
  <1>3. ASSUME NEW s \in P, s[1] \in {r, "*"}, s[2] \in {a, "*"}
        PROVE  has_scope(P, r, a)
    BY <1>1, <1>3 DEF has_scope
  <1>4. ASSUME a = "read", NEW s \in P, s[1] \in {r, "*"}, s[2] \in Mutating
        PROVE  has_scope(P, r, a)
    BY <1>1, <1>4 DEF has_scope
  <1> QED BY <1>2, <1>3, <1>4

\* What is_subset_of lets through only narrows: whatever the requested list
\* grants, the held one grants. (is_subset_of of permissions.rs)
THEOREM SubsetNarrows ==
    ASSUME NEW P \in SUBSET Scopes, NEW Q \in SUBSET Scopes, is_subset_of(Q, P)
    PROVE  Grants(Q) \subseteq Grants(P)
  <1> SUFFICES ASSUME NEW r \in Resources, NEW a \in Actions, has_scope(Q, r, a)
               PROVE  has_scope(P, r, a)
    BY DEF Grants
  <1>1. ASSUME NEW s \in Q, NEW m \in Actions, s[1] \in {r, "*"}, s[2] \in {m, "*"}
        PROVE  has_scope(P, r, m)
    <2>1. <<r, m>> \in expand(s)
      BY <1>1 DEF expand
    <2> QED BY <2>1 DEF is_subset_of
  <1>2. CASE \E s \in Q : s[1] \in {r, "*"} /\ s[2] \in {a, "*"}
    BY <1>1, <1>2
  <1>3. CASE a = "read" /\ \E s \in Q : s[1] \in {r, "*"} /\ s[2] \in Mutating
    <2>1. PICK s \in Q : s[1] \in {r, "*"} /\ s[2] \in Mutating
      BY <1>3
    <2>2. s[2] \in Actions /\ s[2] # "read"
      BY <2>1 DEF Actions, Mutating
    <2>3. has_scope(P, r, s[2])
      BY <1>1, <2>1, <2>2
    <2>4. PICK h \in P : h[1] \in {r, "*"} /\ h[2] \in {s[2], "*"}
      BY <2>2, <2>3, GrantedBy
    <2> QED BY <1>3, <2>1, <2>4, GrantedBy
  <1> QED BY <1>2, <1>3, GrantedBy

-----------------------------------------------------------------------------
(* Type correctness *)

LEMMA InitType == Init => TypeOK
  <1> SUFFICES ASSUME Init PROVE TypeOK
    OBVIOUS
  <1>1. \A k \in Seeds : Seed[k] \in Credential
    BY CredentialsAssumption
  <1>2. \A k \in Seeds : Issue("live", k, Seed[k].business, Seed[k].permissions)
                           \in Held({"live", "revoked"})
    BY <1>1 DEF Credential, Held, Issue
  <1>3. key \in [KeyIds -> Held({"live", "revoked"}) \cup {Absent}]
    BY <1>2 DEF Init
  <1> QED BY <1>3 DEF Init, TypeOK

LEMMA OpenType ==
    ASSUME TypeOK, NEW q \in Requests, NEW c \in Context, Open(q, c)
    PROVE  TypeOK'
  BY DEF TypeOK, Open

LEMMA HeldIsNotAbsent ==
    ASSUME NEW S, NEW c \in Held(S), "absent" \notin S
    PROVE  c # Absent /\ c.state \in S /\ c.root \in Seeds /\ c.business \in Businesses
           /\ c.permissions \in SUBSET Scopes
  BY DEF Held, Absent

LEMMA IssueType ==
    ASSUME NEW S, NEW s \in S, NEW root \in Seeds, NEW b \in Businesses,
           NEW p \in SUBSET Scopes
    PROVE  Issue(s, root, b, p) \in Held(S)
  BY DEF Held, Issue

LEMMA PresentKeyContext ==
    ASSUME TypeOK, NEW k \in KeyIds, resolve_api_key(k), NEW r \in Routes
    PROVE  from_api_key(k, r) \in Context
  <1>1. key[k] \in Held({"live", "revoked"})
    BY DEF TypeOK, resolve_api_key, Absent
  <1> QED BY <1>1, HeldIsNotAbsent DEF from_api_key, AuthContext, Context

LEMMA PresentTokenContext ==
    ASSUME TypeOK, NEW t \in TokenIds, token[t].state = "valid", NEW r \in Routes
    PROVE  from_token(t, r) \in Context
  <1>1. token[t] \in Held({"valid", "expired"})
    BY DEF TypeOK, Absent
  <1> QED BY <1>1, HeldIsNotAbsent DEF from_token, AuthContext, Context

LEMMA ContextFields ==
    ASSUME TypeOK, NEW q \in Requests, ctx[q] # None
    PROVE  /\ ctx[q] \in Context
           /\ ctx[q].root \in Seeds
           /\ ctx[q].business \in Businesses
           /\ ctx[q].permissions \in SUBSET Scopes
           /\ ctx[q].tier \in {"standard", "critical"}
           /\ ctx[q].route \in Routes
  <1>1. ctx[q] \in Context
    BY DEF TypeOK
  <1> QED BY <1>1 DEF Context

LEMMA TypeStep == TypeOK /\ [Next]_vars => TypeOK'
  <1> SUFFICES ASSUME TypeOK, [Next]_vars PROVE TypeOK'
    OBVIOUS
  <1>1. ASSUME NEW q \in Requests, NEW k \in KeyIds, NEW r \in Called, PresentKey(q, k, r)
        PROVE  TypeOK'
    BY <1>1, PresentKeyContext, OpenType, CredentialsAssumption DEF PresentKey
  <1>2. ASSUME NEW q \in Requests, NEW t \in TokenIds, NEW r \in Called, PresentToken(q, t, r)
        PROVE  TypeOK'
    BY <1>2, PresentTokenContext, OpenType, CredentialsAssumption DEF PresentToken
  <1>3. ASSUME NEW q \in Requests, NEW t \in TokenIds, NEW p \in PermissionLists, mint(q, t, p)
        PROVE  TypeOK'
    <2>1. Issue("valid", ctx[q].root, ctx[q].business, p) \in Held({"valid", "expired"})
      BY <1>3, ContextFields, IssueType DEF mint, validate_permissions
    <2> QED BY <1>3, <2>1 DEF mint, Done, TypeOK
  <1>4. ASSUME NEW q \in Requests, NEW k \in KeyIds, NEW p \in PermissionLists, create(q, k, p)
        PROVE  TypeOK'
    <2>1. Issue("live", ctx[q].root, ctx[q].business, p) \in Held({"live", "revoked"})
      BY <1>4, ContextFields, IssueType DEF create, validate_permissions
    <2> QED BY <1>4, <2>1 DEF create, Done, TypeOK
  <1>5. ASSUME NEW q \in Requests, NEW k \in KeyIds, revoke(q, k)
        PROVE  TypeOK'
    <2>1. key[k] \in Held({"live", "revoked"})
      BY <1>5 DEF revoke, TypeOK
    <2>2. [key[k] EXCEPT !.state = "revoked"] \in Held({"live", "revoked"})
      BY <2>1 DEF Held
    <2>3. key' = [key EXCEPT ![k] = [key[k] EXCEPT !.state = "revoked"]]
      BY <1>5 DEF revoke
    <2> QED BY <1>5, <2>2, <2>3 DEF revoke, Done, TypeOK
  <1>6. ASSUME NEW q \in Requests, End(q)
        PROVE  TypeOK'
    BY <1>6 DEF End, Done, TypeOK
  <1>7. ASSUME NEW t \in TokenIds, Expire(t)
        PROVE  TypeOK'
    <2>1. token[t] \in Held({"valid", "expired"})
      BY <1>7 DEF Expire, TypeOK, Absent
    <2>2. [token[t] EXCEPT !.state = "expired"] \in Held({"valid", "expired"})
      BY <2>1 DEF Held
    <2>3. token' = [token EXCEPT ![t] = [token[t] EXCEPT !.state = "expired"]]
      BY <1>7 DEF Expire
    <2> QED BY <1>7, <2>2, <2>3 DEF Expire, TypeOK
  <1>8. CASE UNCHANGED vars
    BY <1>8 DEF vars, TypeOK
  <1> QED BY <1>1, <1>2, <1>3, <1>4, <1>5, <1>6, <1>7, <1>8 DEF Next

\* Keys, tokens and contexts keep their shape through every trade of one for
\* another. (routes/api_keys.rs, routes/tokens.rs, auth/mod.rs)
THEOREM TypeCorrect == Spec => []TypeOK
  <1>1. Init => TypeOK
    BY InitType
  <1>2. TypeOK /\ [Next]_vars => TypeOK'
    BY TypeStep
  <1> QED BY <1>1, <1>2, PTL DEF Spec

-----------------------------------------------------------------------------
(* No escalation *)

\* The conjuncts of CredentialInv for one request.
ContextOK(q) ==
    ctx[q] # None =>
        /\ Within(ctx[q])
        /\ authorize(ctx[q].route, ctx[q].permissions, ctx[q].tier)
        /\ ctx[q].tier = "critical" <=> ctx[q].api_key_id = None

LEMMA InvByParts ==
    CredentialInv <=>
        /\ \A k \in KeyIds : key[k] # Absent => Within(key[k])
        /\ \A t \in TokenIds : token[t] # Absent => Within(token[t])
        /\ \A q \in Requests : ContextOK(q)
  BY DEF CredentialInv, NoEscalation, ContextOK

\* A scope list that is_subset_of lets through stays within the same seed.
LEMMA HandedOnWithin ==
    ASSUME TypeOK, NEW q \in Requests, ctx[q] # None, Within(ctx[q]),
           NEW p \in SUBSET Scopes, is_subset_of(p, ctx[q].permissions), NEW s
    PROVE  Within(Issue(s, ctx[q].root, ctx[q].business, p))
  <1>1. Grants(p) \subseteq Grants(ctx[q].permissions)
    BY ContextFields, SubsetNarrows
  <1> QED BY <1>1 DEF Within, Issue

LEMMA InitInv == Init => CredentialInv
  <1> SUFFICES ASSUME Init PROVE CredentialInv
    OBVIOUS
  <1>1. ASSUME NEW k \in KeyIds, key[k] # Absent
        PROVE  Within(key[k])
    <2>1. k \in Seeds /\ key[k] = Issue("live", k, Seed[k].business, Seed[k].permissions)
      BY <1>1 DEF Init
    <2> QED BY <2>1 DEF Within, Issue
  <1>2. \A t \in TokenIds : token[t] = Absent
    BY DEF Init
  <1>3. \A q \in Requests : ctx[q] = None
    BY DEF Init
  <1> QED BY <1>1, <1>2, <1>3, InvByParts DEF ContextOK

LEMMA OpenInv ==
    ASSUME TypeOK, CredentialInv, NEW q \in Requests, NEW c \in Context, Open(q, c),
           Within(c), c.tier = "critical" <=> c.api_key_id = None
    PROVE  CredentialInv'
  <1>1. key' = key /\ token' = token /\ ctx' = [ctx EXCEPT ![q] = c]
    BY DEF Open
  <1>2. ctx'[q] = c /\ \A x \in Requests : x # q => ctx'[x] = ctx[x]
    BY <1>1 DEF TypeOK
  <1>3. ASSUME NEW x \in Requests PROVE ContextOK(x)'
    <2>1. CASE x = q
      BY <1>2, <2>1 DEF ContextOK, Open, Within
    <2>2. CASE x # q
      BY <1>2, <2>2, InvByParts DEF ContextOK, Within
    <2> QED BY <2>1, <2>2
  <1>4. (\A k \in KeyIds : key[k] # Absent => Within(key[k]))'
    BY <1>1, InvByParts DEF Within
  <1>5. (\A t \in TokenIds : token[t] # Absent => Within(token[t]))'
    BY <1>1, InvByParts DEF Within
  <1>6. CredentialInv' <=>
          /\ (\A k \in KeyIds : key[k] # Absent => Within(key[k]))'
          /\ (\A t \in TokenIds : token[t] # Absent => Within(token[t]))'
          /\ \A x \in Requests : ContextOK(x)'
    BY DEF CredentialInv, NoEscalation, ContextOK
  <1> QED BY <1>3, <1>4, <1>5, <1>6

\* A step that only ends a request leaves the other contexts as they were.
LEMMA DoneInv ==
    ASSUME TypeOK, CredentialInv, NEW q \in Requests, Done(q)
    PROVE  \A x \in Requests : ContextOK(x)'
  <1>1. ctx'[q] = None /\ \A x \in Requests : x # q => ctx'[x] = ctx[x]
    BY DEF Done, TypeOK
  <1> QED BY <1>1, InvByParts DEF ContextOK, Within

LEMMA InvStep == TypeOK /\ CredentialInv /\ [Next]_vars => CredentialInv'
  <1> SUFFICES ASSUME TypeOK, CredentialInv, [Next]_vars PROVE CredentialInv'
    OBVIOUS
  <1>0. CredentialInv' <=>
          /\ (\A k \in KeyIds : key[k] # Absent => Within(key[k]))'
          /\ (\A t \in TokenIds : token[t] # Absent => Within(token[t]))'
          /\ \A x \in Requests : ContextOK(x)'
    BY DEF CredentialInv, NoEscalation, ContextOK
  <1>1. ASSUME NEW q \in Requests, NEW k \in KeyIds, NEW r \in Called, PresentKey(q, k, r)
        PROVE  CredentialInv'
    <2>1. from_api_key(k, r) \in Context
      BY <1>1, PresentKeyContext, CredentialsAssumption DEF PresentKey
    <2>2. Within(from_api_key(k, r))
      BY <1>1, InvByParts DEF PresentKey, resolve_api_key, Absent, from_api_key, AuthContext, Within
    <2>3. from_api_key(k, r).tier = "standard" /\ from_api_key(k, r).api_key_id # None
      BY CredentialsAssumption DEF from_api_key, AuthContext
    <2> QED BY <1>1, <2>1, <2>2, <2>3, OpenInv DEF PresentKey
  <1>2. ASSUME NEW q \in Requests, NEW t \in TokenIds, NEW r \in Called, PresentToken(q, t, r)
        PROVE  CredentialInv'
    <2>1. from_token(t, r) \in Context
      BY <1>2, PresentTokenContext, CredentialsAssumption DEF PresentToken
    <2>2. Within(from_token(t, r))
      BY <1>2, InvByParts DEF PresentToken, Absent, from_token, AuthContext, Within
    <2>3. from_token(t, r).tier = "critical" /\ from_token(t, r).api_key_id = None
      BY DEF from_token, AuthContext
    <2> QED BY <1>2, <2>1, <2>2, <2>3, OpenInv DEF PresentToken
  <1>3. ASSUME NEW q \in Requests, NEW t \in TokenIds, NEW p \in PermissionLists, mint(q, t, p)
        PROVE  CredentialInv'
    <2> DEFINE new == Issue("valid", ctx[q].root, ctx[q].business, p)
    <2>1. Within(new)
      BY <1>3, InvByParts, HandedOnWithin DEF mint, validate_permissions, ContextOK
    <2>2. token' = [token EXCEPT ![t] = new] /\ key' = key /\ Done(q)
      BY <1>3 DEF mint
    <2>3. \A x \in TokenIds : token'[x] = IF x = t THEN new ELSE token[x]
      BY <2>2 DEF TypeOK
    <2>4. (\A x \in TokenIds : token[x] # Absent => Within(token[x]))'
      BY <2>1, <2>3, InvByParts DEF Within
    <2>5. (\A k \in KeyIds : key[k] # Absent => Within(key[k]))'
      BY <2>2, InvByParts DEF Within
    <2> QED BY <1>0, <2>2, <2>4, <2>5, DoneInv
  <1>4. ASSUME NEW q \in Requests, NEW k \in KeyIds, NEW p \in PermissionLists, create(q, k, p)
        PROVE  CredentialInv'
    <2> DEFINE new == Issue("live", ctx[q].root, ctx[q].business, p)
    <2>1. Within(new)
      BY <1>4, InvByParts, HandedOnWithin DEF create, validate_permissions, ContextOK
    <2>2. key' = [key EXCEPT ![k] = new] /\ token' = token /\ Done(q)
      BY <1>4 DEF create
    <2>3. \A x \in KeyIds : key'[x] = IF x = k THEN new ELSE key[x]
      BY <2>2 DEF TypeOK
    <2>4. (\A x \in KeyIds : key[x] # Absent => Within(key[x]))'
      BY <2>1, <2>3, InvByParts DEF Within
    <2>5. (\A t \in TokenIds : token[t] # Absent => Within(token[t]))'
      BY <2>2, InvByParts DEF Within
    <2> QED BY <1>0, <2>2, <2>4, <2>5, DoneInv
  <1>5. ASSUME NEW q \in Requests, NEW k \in KeyIds, revoke(q, k)
        PROVE  CredentialInv'
    <2>1. key[k] \in Held({"live", "revoked"})
      BY <1>5 DEF revoke, TypeOK
    <2>2. key' = [key EXCEPT ![k] = [key[k] EXCEPT !.state = "revoked"]]
          /\ token' = token /\ Done(q)
      BY <1>5 DEF revoke
    <2>3. \A x \in KeyIds : key'[x] = IF x = k THEN [key[k] EXCEPT !.state = "revoked"]
                                      ELSE key[x]
      BY <2>2 DEF TypeOK
    <2>4. Within(key[k])
      BY <1>5, InvByParts DEF revoke
    <2>5. Within([key[k] EXCEPT !.state = "revoked"])
      BY <2>1, <2>4 DEF Within, Held
    <2>6. (\A x \in KeyIds : key[x] # Absent => Within(key[x]))'
      BY <2>3, <2>5, InvByParts DEF Within
    <2>7. (\A t \in TokenIds : token[t] # Absent => Within(token[t]))'
      BY <2>2, InvByParts DEF Within
    <2> QED BY <1>0, <2>2, <2>6, <2>7, DoneInv
  <1>6. ASSUME NEW q \in Requests, End(q)
        PROVE  CredentialInv'
    <2>1. key' = key /\ token' = token /\ Done(q)
      BY <1>6 DEF End
    <2>2. (\A k \in KeyIds : key[k] # Absent => Within(key[k]))'
      BY <2>1, InvByParts DEF Within
    <2>3. (\A t \in TokenIds : token[t] # Absent => Within(token[t]))'
      BY <2>1, InvByParts DEF Within
    <2> QED BY <1>0, <2>1, <2>2, <2>3, DoneInv
  <1>7. ASSUME NEW t \in TokenIds, Expire(t)
        PROVE  CredentialInv'
    <2>1. token[t] \in Held({"valid", "expired"}) /\ token[t] # Absent
      BY <1>7 DEF Expire, TypeOK, Absent
    <2>2. token' = [token EXCEPT ![t] = [token[t] EXCEPT !.state = "expired"]]
          /\ key' = key /\ ctx' = ctx
      BY <1>7 DEF Expire
    <2>3. \A x \in TokenIds : token'[x] = IF x = t THEN [token[t] EXCEPT !.state = "expired"]
                                          ELSE token[x]
      BY <2>2 DEF TypeOK
    <2>4. Within(token[t])
      BY <2>1, InvByParts
    <2>5. Within([token[t] EXCEPT !.state = "expired"])
      BY <2>1, <2>4 DEF Within, Held
    <2>6. (\A x \in TokenIds : token[x] # Absent => Within(token[x]))'
      BY <2>3, <2>5, InvByParts DEF Within
    <2>7. (\A k \in KeyIds : key[k] # Absent => Within(key[k]))'
      BY <2>2, InvByParts DEF Within
    <2>8. \A x \in Requests : ContextOK(x)'
      BY <2>2, InvByParts DEF ContextOK, Within
    <2> QED BY <1>0, <2>6, <2>7, <2>8
  <1>8. CASE UNCHANGED vars
    BY <1>8 DEF vars, CredentialInv, NoEscalation, Within
  <1> QED BY <1>1, <1>2, <1>3, <1>4, <1>5, <1>6, <1>7, <1>8 DEF Next

\* The inductive invariant: every credential and every request in flight is
\* within the operator's key it descends from, and passed the middleware.
THEOREM InvariantHolds == Spec => []CredentialInv
  <1>1. Init => TypeOK /\ CredentialInv
    BY InitType, InitInv
  <1>2. TypeOK /\ CredentialInv /\ [Next]_vars => (TypeOK /\ CredentialInv)'
    BY TypeStep, InvStep
  <1> QED BY <1>1, <1>2, PTL DEF Spec

\* However credentials are traded for others, none grants more than the key the
\* operator made. (is_subset_of in routes/tokens.rs and routes/api_keys.rs)
THEOREM NeverEscalates == Spec => []NoEscalation
  <1>1. CredentialInv => NoEscalation
    BY DEF CredentialInv
  <1> QED BY <1>1, InvariantHolds, PTL

-----------------------------------------------------------------------------
(* What changes a key, and what a revocation ends                          *)

\* The request behind a change of a key: it carries a token of that business
\* with the scope for the change.
MayChange(q, action, b) ==
    /\ ctx[q] # None
    /\ ctx[q].api_key_id = None
    /\ ctx[q].business = b
    /\ has_scope(ctx[q].permissions, "api_key", action)

LEMMA CriticalRoutes ==
    ASSUME TypeOK, CredentialInv, NEW q \in Requests, ctx[q] # None
    PROVE  /\ ctx[q].route = "POST /api_keys"
                 => MayChange(q, "create", ctx[q].business)
           /\ ctx[q].route = "DELETE /api_keys/{id}"
                 => MayChange(q, "delete", ctx[q].business)
  <1>1. ContextOK(q)
    BY InvByParts
  <1>2. authorize("POST /api_keys", ctx[q].permissions, ctx[q].tier)
           => ctx[q].tier = "critical" /\ has_scope(ctx[q].permissions, "api_key", "create")
    BY DEF authorize, ROUTE_SCOPES, Route
  <1>3. authorize("DELETE /api_keys/{id}", ctx[q].permissions, ctx[q].tier)
           => ctx[q].tier = "critical" /\ has_scope(ctx[q].permissions, "api_key", "delete")
    BY DEF authorize, ROUTE_SCOPES, Route
  <1> QED BY <1>1, <1>2, <1>3 DEF ContextOK, MayChange

LEMMA ChangeStep ==
    ASSUME TypeOK, CredentialInv, [Next]_vars, NEW k \in KeyIds, key'[k] # key[k]
    PROVE  \E q \in Requests :
              MayChange(q, IF key[k] = Absent THEN "create" ELSE "delete", key'[k].business)
  <1>1. ASSUME NEW q \in Requests, NEW c \in KeyIds, NEW p \in PermissionLists, create(q, c, p)
        PROVE  \E x \in Requests :
                  MayChange(x, IF key[k] = Absent THEN "create" ELSE "delete", key'[k].business)
    <2>1. k = c /\ key[k] = Absent
          /\ key'[k] = Issue("live", ctx[q].root, ctx[q].business, p)
      BY <1>1 DEF create, TypeOK
    <2>2. key'[k].business = ctx[q].business
      BY <2>1 DEF Issue
    <2> QED BY <1>1, <2>1, <2>2, CriticalRoutes DEF create
  <1>2. ASSUME NEW q \in Requests, NEW c \in KeyIds, revoke(q, c)
        PROVE  \E x \in Requests :
                  MayChange(x, IF key[k] = Absent THEN "create" ELSE "delete", key'[k].business)
    <2>1. k = c /\ key[k] # Absent /\ key[k].business = ctx[q].business
      BY <1>2 DEF revoke, TypeOK
    <2>2. key[k] \in Held({"live", "revoked"})
      BY <2>1 DEF TypeOK
    <2>3. key'[k] = [key[k] EXCEPT !.state = "revoked"]
      BY <1>2, <2>1 DEF revoke, TypeOK
    <2>4. key'[k].business = key[k].business
      BY <2>2, <2>3 DEF Held
    <2> QED BY <1>2, <2>1, <2>4, CriticalRoutes DEF revoke
  <1>3. key' = key
        \/ \E q \in Requests, c \in KeyIds :
              revoke(q, c) \/ \E p \in PermissionLists : create(q, c, p)
    BY DEF Next, PresentKey, PresentToken, Open, mint, End, Expire, vars
  <1> QED BY <1>1, <1>2, <1>3

\* Keys appear and are revoked only on the word of a token of their business
\* that holds the scope. (middleware.rs authorize, rls.sql api_keys policies)
THEOREM KeysChangeOnlyByToken == Spec => KeysChangeByToken
  <1>1. TypeOK /\ CredentialInv /\ [Next]_vars =>
          [\A k \in KeyIds : key'[k] # key[k] =>
             \E q \in Requests :
                /\ ctx[q] # None
                /\ ctx[q].api_key_id = None
                /\ ctx[q].business = key'[k].business
                /\ has_scope(ctx[q].permissions, "api_key",
                             IF key[k] = Absent THEN "create" ELSE "delete")]_vars
    BY ChangeStep DEF MayChange
  <1> QED BY <1>1, TypeCorrect, InvariantHolds, PTL DEF Spec, KeysChangeByToken

LEMMA DeadStep ==
    ASSUME TypeOK, [Next]_vars, NEW s \in Seeds, Dead(s)
    PROVE  Dead(s)'
  <1>1. ASSUME NEW q \in Requests, NEW k \in KeyIds, NEW r \in Called, PresentKey(q, k, r)
        PROVE  Dead(s)'
    <2>1. key[k].root # s
      BY <1>1 DEF PresentKey, resolve_api_key, Dead, Absent
    <2>2. ctx' = [ctx EXCEPT ![q] = from_api_key(k, r)] /\ key' = key /\ token' = token
      BY <1>1 DEF PresentKey, Open
    <2>3. from_api_key(k, r).root # s
      BY <2>1 DEF from_api_key, AuthContext
    <2>4. \A x \in Requests : ctx'[x] = IF x = q THEN from_api_key(k, r) ELSE ctx[x]
      BY <2>2 DEF TypeOK
    <2> QED BY <2>2, <2>3, <2>4 DEF Dead
  <1>2. ASSUME NEW q \in Requests, NEW t \in TokenIds, NEW r \in Called, PresentToken(q, t, r)
        PROVE  Dead(s)'
    <2>1. token[t].root # s
      BY <1>2 DEF PresentToken, Dead, Absent
    <2>2. ctx' = [ctx EXCEPT ![q] = from_token(t, r)] /\ key' = key /\ token' = token
      BY <1>2 DEF PresentToken, Open
    <2>3. from_token(t, r).root # s
      BY <2>1 DEF from_token, AuthContext
    <2>4. \A x \in Requests : ctx'[x] = IF x = q THEN from_token(t, r) ELSE ctx[x]
      BY <2>2 DEF TypeOK
    <2> QED BY <2>2, <2>3, <2>4 DEF Dead
  <1>3. ASSUME NEW q \in Requests, Done(q)
        PROVE  \A x \in Requests : ctx'[x] # None => ctx'[x].root # s
    BY <1>3 DEF Done, TypeOK, Dead
  <1>4. ASSUME NEW q \in Requests, NEW t \in TokenIds, NEW p \in PermissionLists, mint(q, t, p)
        PROVE  Dead(s)'
    <2> DEFINE new == Issue("valid", ctx[q].root, ctx[q].business, p)
    <2>1. new.root # s
      BY <1>4 DEF mint, Dead, Issue
    <2>2. token' = [token EXCEPT ![t] = new] /\ key' = key /\ Done(q)
      BY <1>4 DEF mint
    <2>3. \A x \in TokenIds : token'[x] = IF x = t THEN new ELSE token[x]
      BY <2>2 DEF TypeOK
    <2> HIDE DEF new
    <2> QED BY <1>3, <2>1, <2>2, <2>3 DEF Dead
  <1>5. ASSUME NEW q \in Requests, NEW k \in KeyIds, NEW p \in PermissionLists, create(q, k, p)
        PROVE  Dead(s)'
    <2> DEFINE new == Issue("live", ctx[q].root, ctx[q].business, p)
    <2>1. new.root # s
      BY <1>5 DEF create, Dead, Issue
    <2>2. key' = [key EXCEPT ![k] = new] /\ token' = token /\ Done(q)
      BY <1>5 DEF create
    <2>3. \A x \in KeyIds : key'[x] = IF x = k THEN new ELSE key[x]
      BY <2>2 DEF TypeOK
    <2> HIDE DEF new
    <2> QED BY <1>3, <2>1, <2>2, <2>3 DEF Dead
  <1>6. ASSUME NEW q \in Requests, NEW k \in KeyIds, revoke(q, k)
        PROVE  Dead(s)'
    <2> DEFINE new == [key[k] EXCEPT !.state = "revoked"]
    <2>1. key[k] \in Held({"live", "revoked"})
      BY <1>6 DEF revoke, TypeOK
    <2>2. new.root = key[k].root /\ new.state = "revoked"
      BY <2>1 DEF Held
    <2>3. key' = [key EXCEPT ![k] = new] /\ token' = token /\ Done(q)
      BY <1>6 DEF revoke
    <2>4. \A x \in KeyIds : key'[x] = IF x = k THEN new ELSE key[x]
      BY <2>3 DEF TypeOK
    <2> HIDE DEF new
    <2> QED BY <1>3, <2>2, <2>3, <2>4 DEF Dead
  <1>7. ASSUME NEW q \in Requests, End(q)
        PROVE  Dead(s)'
    BY <1>3, <1>7 DEF End, Dead
  <1>8. ASSUME NEW t \in TokenIds, Expire(t)
        PROVE  Dead(s)'
    <2> DEFINE new == [token[t] EXCEPT !.state = "expired"]
    <2>1. token[t] \in Held({"valid", "expired"})
      BY <1>8 DEF Expire, TypeOK, Absent
    <2>2. new.root = token[t].root /\ new.state = "expired"
      BY <2>1 DEF Held
    <2>3. token' = [token EXCEPT ![t] = new] /\ key' = key /\ ctx' = ctx
      BY <1>8 DEF Expire
    <2>4. \A x \in TokenIds : token'[x] = IF x = t THEN new ELSE token[x]
      BY <2>3 DEF TypeOK
    <2> HIDE DEF new
    <2> QED BY <2>2, <2>3, <2>4 DEF Dead
  <1>9. CASE UNCHANGED vars
    BY <1>9 DEF vars, Dead
  <1> QED BY <1>1, <1>2, <1>4, <1>5, <1>6, <1>7, <1>8, <1>9 DEF Next

\* Once the keys of a seed are revoked, its tokens expired and its requests
\* over, nothing of it works again. (lookup_api_key, revoke)
THEOREM RevocationHolds == Spec => RevocationIsFinal
  <1>1. TypeOK /\ [Next]_vars => [\A s \in Seeds : Dead(s) => Dead(s)']_vars
    BY DeadStep
  <1> QED BY <1>1, TypeCorrect, PTL DEF Spec, RevocationIsFinal

=============================================================================

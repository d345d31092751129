---------------------------- MODULE Credentials ----------------------------
(***************************************************************************)
(* The life of a credential: API keys are created and revoked by requests  *)
(* that carry a token, tokens are minted by requests that carry a key      *)
(* (crates/api/src/routes/api_keys.rs, routes/tokens.rs, auth/).           *)
(*                                                                         *)
(* A request is authenticated and authorised in the middleware and runs    *)
(* its handler later with the context it got then, so a key may be revoked *)
(* and a token may expire in between.                                      *)
(***************************************************************************)
EXTENDS Permissions

CONSTANTS
    Businesses,
    KeyIds,
    TokenIds,
    Requests,         \* requests in flight at a time
    Called,           \* the routes they are made to
    Seeds,            \* keys that exist from the start, made by an operator
    Seed,             \* their business and permissions
    PermissionLists,  \* what clients ask for
    None

Credential == [business : Businesses, permissions : SUBSET Scopes]

\* The key a request presented is in its context; a token names none.
Context == [route : Routes, tier : {"standard", "critical"}, api_key_id : KeyIds \cup {None},
            root : Seeds, business : Businesses, permissions : SUBSET Scopes]

ASSUME CredentialsAssumption ==
    /\ Seeds \subseteq KeyIds
    /\ Called \subseteq Routes
    /\ None \notin KeyIds \cup Context
    /\ Seed \in [Seeds -> Credential]

VARIABLES
    key,     \* api_keys, with the seed each descends from as a history
    token,   \* tokens in the hands of clients; the service stores none
    ctx      \* AuthContext of each request in flight, and its route

vars == <<key, token, ctx>>

Held(states) ==
    [state : states, root : Seeds, business : Businesses, permissions : SUBSET Scopes]

Absent == [state |-> "absent"]

TypeOK ==
    /\ key \in [KeyIds -> Held({"live", "revoked"}) \cup {Absent}]
    /\ token \in [TokenIds -> Held({"valid", "expired"}) \cup {Absent}]
    /\ ctx \in [Requests -> Context \cup {None}]

Issue(state, root, business, permissions) ==
    [state |-> state, root |-> root, business |-> business, permissions |-> permissions]

Init ==
    /\ key = [k \in KeyIds |->
                IF k \in Seeds THEN Issue("live", k, Seed[k].business, Seed[k].permissions)
                ELSE Absent]
    /\ token = [t \in TokenIds |-> Absent]
    /\ ctx = [q \in Requests |-> None]

-----------------------------------------------------------------------------
(* The middleware. A refused request leaves no trace.                      *)

AuthContext(c, tier, id, r) ==
    [route |-> r, tier |-> tier, api_key_id |-> id, root |-> c.root,
     business |-> c.business, permissions |-> c.permissions]

\* Mutant of from_api_key: the claims of a key name the wrong tier.
from_api_key_critical(k, r) == AuthContext(key[k], "critical", k, r)

from_api_key(k, r) == AuthContext(key[k], "standard", k, r)

from_token(t, r) == AuthContext(token[t], "critical", None, r)

\* Mutant of resolve_api_key: a revoked key still authenticates.
resolve_api_key_revoked(k) == key[k].state \in {"live", "revoked"}

resolve_api_key(k) == key[k].state = "live"

Open(q, c) ==
    /\ ctx[q] = None
    /\ authorize(c.route, c.permissions, c.tier)
    /\ ctx' = [ctx EXCEPT ![q] = c]
    /\ UNCHANGED <<key, token>>

PresentKey(q, k, r) == resolve_api_key(k) /\ Open(q, from_api_key(k, r))

PresentToken(q, t, r) == token[t].state = "valid" /\ Open(q, from_token(t, r))

-----------------------------------------------------------------------------
(* The handlers, with the context of the middleware.                       *)

Done(q) == ctx' = [ctx EXCEPT ![q] = None]

\* POST /auth/tokens: nothing is stored, so revoking the key stops no token.
mint(q, t, permissions) ==
    /\ ctx[q] # None
    /\ ctx[q].route = "POST /auth/tokens"
    /\ validate_permissions(permissions)
    /\ is_subset_of(permissions, ctx[q].permissions)
    /\ token[t] = Absent
    /\ token' = [token EXCEPT ![t] =
                    Issue("valid", ctx[q].root, ctx[q].business, permissions)]
    /\ Done(q)
    /\ UNCHANGED key

create(q, k, permissions) ==
    /\ ctx[q] # None
    /\ ctx[q].route = "POST /api_keys"
    /\ validate_permissions(permissions)
    /\ is_subset_of(permissions, ctx[q].permissions)
    /\ key[k] = Absent
    /\ \A c \in {"insert", "select"} : Policy("api_keys", c, ctx[q].permissions, ctx[q].tier)
    /\ key' = [key EXCEPT ![k] = Issue("live", ctx[q].root, ctx[q].business, permissions)]
    /\ Done(q)
    /\ UNCHANGED token

\* Mutant of revoke: the row is found by its id alone, whatever its business.
revoke_anyBusiness(q, k) ==
    /\ ctx[q] # None
    /\ ctx[q].route = "DELETE /api_keys/{id}"
    /\ key[k] # Absent
    /\ key' = [key EXCEPT ![k].state = "revoked"]
    /\ Done(q)
    /\ UNCHANGED token

\* Mutant of revoke: no row is taken for a revoked one.
revoke_missing(q, k) ==
    /\ ctx[q] # None
    /\ ctx[q].route = "DELETE /api_keys/{id}"
    /\ key' = [key EXCEPT ![k] = [@ EXCEPT !.state = "revoked"]]
    /\ Done(q)
    /\ UNCHANGED token

revoke(q, k) ==
    /\ ctx[q] # None
    /\ ctx[q].route = "DELETE /api_keys/{id}"
    /\ key[k] # Absent
    /\ key[k].business = ctx[q].business
    /\ \A c \in {"update", "select"} : Policy("api_keys", c, ctx[q].permissions, ctx[q].tier)
    /\ key' = [key EXCEPT ![k].state = "revoked"]
    /\ Done(q)
    /\ UNCHANGED token

\* Any other end: a refusal, another route's handler, a crash.
End(q) == ctx[q] # None /\ Done(q) /\ UNCHANGED <<key, token>>

Expire(t) ==
    /\ token[t].state = "valid"
    /\ token' = [token EXCEPT ![t].state = "expired"]
    /\ UNCHANGED <<key, ctx>>

Next ==
    \/ \E q \in Requests :
          \/ \E k \in KeyIds, r \in Called : PresentKey(q, k, r)
          \/ \E t \in TokenIds, r \in Called : PresentToken(q, t, r)
          \/ \E p \in PermissionLists :
                \/ \E t \in TokenIds : mint(q, t, p)
                \/ \E k \in KeyIds : create(q, k, p)
          \/ \E k \in KeyIds : revoke(q, k)
          \/ End(q)
    \/ \E t \in TokenIds : Expire(t)

Spec == Init /\ [][Next]_vars

-----------------------------------------------------------------------------
(* Properties *)

Grants(permissions) ==
    {pair \in Resources \X Actions : has_scope(permissions, pair[1], pair[2])}

Within(c) ==
    /\ c.business = Seed[c.root].business
    /\ Grants(c.permissions) \subseteq Grants(Seed[c.root].permissions)

\* However often credentials are traded for others, none grants what the
\* operator's key it descends from does not, nor in another business; and
\* neither does a request that is still running with an older context.
NoEscalation ==
    /\ \A k \in KeyIds : key[k] # Absent => Within(key[k])
    /\ \A t \in TokenIds : token[t] # Absent => Within(token[t])
    /\ \A q \in Requests : ctx[q] # None => Within(ctx[q])

\* Keys appear and are revoked only by a request that carries a token of the
\* key's business with the scope for it, never by an API key alone.
KeysChangeByToken ==
    [][\A k \in KeyIds : key'[k] # key[k] =>
         \E q \in Requests :
            /\ ctx[q] # None
            /\ ctx[q].api_key_id = None
            /\ ctx[q].business = key'[k].business
            /\ has_scope(ctx[q].permissions, "api_key",
                         IF key[k] = Absent THEN "create" ELSE "delete")]_vars

\* Inductive: a request in flight passed the middleware with the context it
\* still has, and only a token gives the critical tier.
CredentialInv ==
    /\ NoEscalation
    /\ \A q \in Requests : ctx[q] # None =>
          /\ authorize(ctx[q].route, ctx[q].permissions, ctx[q].tier)
          /\ ctx[q].tier = "critical" <=> ctx[q].api_key_id = None

\* Nothing is left of a seed: no live key, no valid token, no open request.
Dead(s) ==
    /\ \A k \in KeyIds : key[k] # Absent /\ key[k].root = s => key[k].state = "revoked"
    /\ \A t \in TokenIds : token[t] # Absent /\ token[t].root = s => token[t].state = "expired"
    /\ \A q \in Requests : ctx[q] # None => ctx[q].root # s

\* Revocation works: once every key that descends from a seed is revoked and
\* the tokens and requests of before have run out, no credential of it ever
\* works or appears again. The tokens are the part that revocation cannot hasten.
RevocationIsFinal == [][\A s \in Seeds : Dead(s) => Dead(s)']_vars

=============================================================================

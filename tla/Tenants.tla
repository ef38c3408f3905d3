------------------------------ MODULE Tenants ------------------------------
(***************************************************************************)
(* Tenants and their registration: PgTenantRepository (crates/tenant),     *)
(* TenantRegistry and JwksCache (crates/auth/src/tenant_registry.rs,       *)
(* jwks_cache.rs), the handlers of crates/api/src/admin.rs and             *)
(* crates/api/src/registrations.rs, the authentication of a request        *)
(* (crates/auth/src/validate.rs), and the start of the server.             *)
(*                                                                         *)
(* Each element of Req is one HTTP request, served once; it also names the *)
(* tenant or the registration it inserts, since every id is new.  Each     *)
(* statement commits by itself.  A token is its issuer; whether its        *)
(* signature verifies under the keys of the issuer is a choice.            *)
(***************************************************************************)
EXTENDS Functions, TLC

CONSTANTS
    Req,            \* HTTP requests
    Issuer,         \* OIDC issuers
    Trim,           \* the issuer without trailing slashes (a function)
    SeedTenants,    \* active tenants at first, with their issuer (a function)
    SeedRegs,       \* pending registrations at first, with their issuer
    None

Tenant == DOMAIN SeedTenants \cup Req
Reg    == DOMAIN SeedRegs \cup Req

ASSUME TenantsAssumption ==
    /\ SeedTenants \in [DOMAIN SeedTenants -> Issuer]
    /\ \A s, t \in DOMAIN SeedTenants : SeedTenants[s] = SeedTenants[t] => s = t
    /\ SeedRegs \in [DOMAIN SeedRegs -> Issuer]
    /\ DOMAIN Trim = Issuer
    /\ Req \cap (DOMAIN SeedTenants \cup DOMAIN SeedRegs) = {}
    /\ None \notin Tenant \cup Reg \cup Issuer \cup [oidc_issuer : Issuer, active : BOOLEAN]

VARIABLES
    issuer,     \* tenants.oidc_issuer, None if there is no such row
    active,     \* tenants.active: the tenants that are
    regIssuer,  \* tenant_registrations.oidc_issuer, None if there is no such row
    status,     \* tenant_registrations.status
    provided,   \* tenant_registrations.tenant_id
    registry,   \* TenantRegistry: None, or the tenant and its active flag
    jwks        \* JwksCache: the <<tenant, URL>> of the entries that have not expired

VARIABLES
    pc,         \* where the request is in its handler
    tid,        \* the tenant it is about
    reg,        \* the registration it is about
    arg,        \* the issuer in its body
    old,        \* the row get_by_id returned
    resp        \* the answer

VARIABLES
    torn,       \* tenants with overlapping admin requests, or with a lost answer
    late,       \* <<tenant, URL>> asked for before and inserted after an eviction
    unclear,    \* registrations with overlapping decisions
    renamed,    \* some issuer was changed
    booted      \* load_all has read the table

tables  == <<issuer, active, regIssuer, status, provided>>
locals  == <<tid, reg, arg, old>>
caches  == <<registry, jwks>>
history == <<torn, late, unclear, renamed, booted>>
vars    == <<tables, caches, pc, locals, resp, history>>

Nowhere == [id |-> None, on |-> FALSE]

\* load_all
Loaded ==
    [i \in Issuer |-> IF \E t \in Tenant : issuer[t] = i
                      THEN LET t == CHOOSE t \in Tenant : issuer[t] = i
                           IN  [id |-> t, on |-> t \in active]
                      ELSE Nowhere]

Init ==
    /\ issuer = [t \in Tenant |-> IF t \in DOMAIN SeedTenants THEN SeedTenants[t] ELSE None]
    /\ active = DOMAIN SeedTenants
    /\ regIssuer = [g \in Reg |-> IF g \in DOMAIN SeedRegs THEN SeedRegs[g] ELSE None]
    /\ status = [g \in Reg |-> IF g \in DOMAIN SeedRegs THEN "pending" ELSE "none"]
    /\ provided = [g \in Reg |-> None]
    /\ registry = Loaded
    /\ jwks = {}
    /\ pc = [r \in Req |-> "idle"]
    /\ tid = [r \in Req |-> None]
    /\ reg = [r \in Req |-> None]
    /\ arg = [r \in Req |-> None]
    /\ old = [r \in Req |-> None]
    /\ resp = [r \in Req |-> "none"]
    /\ torn = {}
    /\ late = {}
    /\ unclear = {}
    /\ renamed = FALSE
    /\ booted = TRUE

Goto(r, l) == pc' = [pc EXCEPT ![r] = l] /\ UNCHANGED resp

Answer(r, a) == pc' = [pc EXCEPT ![r] = "done"] /\ resp' = [resp EXCEPT ![r] = a]

\* An admin request that is not answered yet and has to do with t or the issuers S.
Meets(q, t, S) ==
    /\ pc[q] \in {"upsert", "deactivate", "invalidate", "rename", "replace", "evict",
              "reinsert"}
    /\ tid[q] = t \/ arg[q] \in S \/ (old[q] # None /\ old[q].oidc_issuer \in S)

\* torn after a request about t and the issuers S arrives.
TornBy(r, t, S) ==
    LET met == {q \in Req \ {r} : Meets(q, t, S)}
    IN  IF met = {} THEN torn ELSE torn \cup {t} \cup {tid[q] : q \in met}

\* AdminAuthService::call: every request under /admin needs the configured token.
AdminRefused(r) ==
    /\ pc[r] = "idle"
    /\ Answer(r, "not_admin")
    /\ UNCHANGED <<tables, caches, locals, history>>

\* Mutant: UNIQUE is dropped from tenants.oidc_issuer.
TakenNever(t, i) == FALSE

\* The UNIQUE constraint on tenants.oidc_issuer.
Taken(t, i) == \E s \in Tenant \ {t} : issuer[s] = i

(***************************************************************************)
(* POST /admin/tenants                                                     *)
(***************************************************************************)

\* create_tenant of the repository: INSERT.
CreateTenant(r, i) ==
    /\ pc[r] = "idle"
    /\ IF Taken(r, i)
       THEN Answer(r, "conflict") /\ UNCHANGED <<issuer, active, tid, arg, torn>>
       ELSE /\ issuer' = [issuer EXCEPT ![r] = i]
            /\ active' = active \cup {r}
            /\ tid' = [tid EXCEPT ![r] = r]
            /\ arg' = [arg EXCEPT ![r] = i]
            /\ torn' = TornBy(r, r, {i})
            /\ Goto(r, "upsert")
    /\ UNCHANGED <<regIssuer, status, provided, caches, reg, old, late, unclear, renamed, booted>>

\* TenantRegistry::upsert
Upserted(i, t, on) == [registry EXCEPT ![i] = [id |-> t, on |-> on]]

UpsertCreated(r) ==
    /\ pc[r] = "upsert"
    /\ registry' = Upserted(arg[r], r, TRUE)
    /\ Answer(r, "created")
    /\ UNCHANGED <<tables, jwks, locals, history>>

(***************************************************************************)
(* DELETE /admin/tenants/{id} and PUT /admin/tenants/{id}/oidc             *)
(***************************************************************************)

\* get_by_id, on which the rest of both handlers relies.
GetById(r, t, i, l) ==
    /\ pc[r] = "idle"
    /\ IF issuer[t] = None
       THEN Answer(r, "not_found") /\ UNCHANGED <<tid, arg, old, torn>>
       ELSE /\ tid' = [tid EXCEPT ![r] = t]
            /\ arg' = [arg EXCEPT ![r] = i]
            /\ old' = [old EXCEPT ![r] = [oidc_issuer |-> issuer[t], active |-> t \in active]]
            /\ torn' = TornBy(r, t, {issuer[t], i} \ {None})
            /\ Goto(r, l)
    /\ UNCHANGED <<tables, caches, reg, late, unclear, renamed, booted>>

DeactivateRequest(r, t) == GetById(r, t, None, "deactivate")

\* deactivate_tenant of the repository: UPDATE.
Deactivate(r) ==
    /\ pc[r] = "deactivate"
    /\ active' = active \ {tid[r]}
    /\ Goto(r, "invalidate")
    /\ UNCHANGED <<issuer, regIssuer, status, provided, caches, locals, history>>

\* Mutant: the entry stays.
WithoutNone(i) == registry

\* TenantRegistry::invalidate
Without(i) == [registry EXCEPT ![i] = Nowhere]

Invalidate(r) ==
    /\ pc[r] = "invalidate"
    /\ registry' = Without(old[r].oidc_issuer)
    /\ Answer(r, "no_content")
    /\ UNCHANGED <<tables, jwks, locals, history>>

RenameRequest(r, t, i) == GetById(r, t, i, "rename")

\* update_oidc_issuer of the repository: UPDATE.
Rename(r) ==
    /\ pc[r] = "rename"
    /\ IF Taken(tid[r], arg[r])
       THEN Answer(r, "conflict") /\ UNCHANGED <<issuer, renamed>>
       ELSE /\ issuer' = [issuer EXCEPT ![tid[r]] = arg[r]]
            /\ renamed' = TRUE
            /\ Goto(r, "replace")
    /\ UNCHANGED <<active, regIssuer, status, provided, caches, locals, torn, late, unclear, booted>>

\* The old entry is removed first, ...
RemoveOld(r) ==
    /\ pc[r] = "replace"
    /\ registry' = Without(old[r].oidc_issuer)
    /\ Goto(r, "evict")
    /\ UNCHANGED <<tables, jwks, locals, history>>

\* Mutant: the entry of the new issuer goes.
EvictedNew(r) == {<<tid[r], arg[r]>>}

\* The URL is made from the issuer as it is, and not by build_jwks_url.
Evicted(r) == {<<tid[r], old[r].oidc_issuer>>}

\* ... then the keys of the old issuer, ...
EvictJwks(r) ==
    /\ pc[r] = "evict"
    /\ jwks' = jwks \ Evicted(r)
    /\ late' = late \cup {<<tid[q], Trim[arg[q]]>> : q \in {p \in Req : pc[p] \in {"cached", "fetch"}}}
    /\ Goto(r, "reinsert")
    /\ UNCHANGED <<tables, registry, locals, torn, unclear, renamed, booted>>

\* ... and the new one has the active flag that get_by_id returned.
Reinsert(r) ==
    /\ pc[r] = "reinsert"
    /\ registry' = Upserted(arg[r], tid[r], old[r].active)
    /\ Answer(r, "no_content")
    /\ UNCHANGED <<tables, jwks, locals, history>>

(***************************************************************************)
(* POST /registrations                                                     *)
(***************************************************************************)

\* validate_registration_fields refuses the body.
SubmitInvalid(r) ==
    /\ pc[r] = "idle"
    /\ Answer(r, "unprocessable")
    /\ UNCHANGED <<tables, caches, locals, history>>

\* The first EXISTS: an active tenant has the issuer.
SubmitRequest(r, i) ==
    /\ pc[r] = "idle"
    /\ arg' = [arg EXCEPT ![r] = i]
    /\ IF \E t \in active : issuer[t] = i THEN Answer(r, "conflict") ELSE Goto(r, "submit_check")
    /\ UNCHANGED <<tables, caches, tid, reg, old, history>>

\* The second EXISTS: a registration that is not rejected has it.
SubmitCheck(r) ==
    /\ pc[r] = "submit_check"
    /\ IF \E g \in Reg : regIssuer[g] = arg[r] /\ status[g] \in {"pending", "approved"}
       THEN Answer(r, "conflict") ELSE Goto(r, "submit")
    /\ UNCHANGED <<tables, caches, locals, history>>

Submit(r) ==
    /\ pc[r] = "submit"
    /\ regIssuer' = [regIssuer EXCEPT ![r] = arg[r]]
    /\ status' = [status EXCEPT ![r] = "pending"]
    /\ Answer(r, "created")
    /\ UNCHANGED <<issuer, active, provided, caches, locals, history>>

(***************************************************************************)
(* POST /admin/registrations/{id}/approve and .../reject                   *)
(***************************************************************************)

Deciding(q, g) == pc[q] \in {"provision", "approve", "reject"} /\ reg[q] = g

\* Mutant: the status is not looked at.
MayDecideAny(g) == status[g] # "none"

\* The check on the status.
MayDecide(g) == status[g] = "pending"

\* The SELECT both handlers begin with.
DecisionRequest(r, g, l) ==
    /\ pc[r] = "idle"
    /\ reg' = [reg EXCEPT ![r] = g]
    /\ IF MayDecide(g)
       THEN /\ unclear' = IF \E q \in Req \ {r} : Deciding(q, g) THEN unclear \cup {g} ELSE unclear
            /\ Goto(r, l)
       ELSE /\ Answer(r, IF status[g] = "none" THEN "not_found" ELSE "not_pending")
            /\ UNCHANGED unclear
    /\ UNCHANGED <<tables, caches, tid, arg, old, torn, late, renamed, booted>>

ApproveRequest(r, g) == DecisionRequest(r, g, "provision")

RejectRequest(r, g) == DecisionRequest(r, g, "reject")

\* create_tenant of the repository; the registry is not told of the tenant.
Provision(r) ==
    /\ pc[r] = "provision"
    /\ IF Taken(r, regIssuer[reg[r]])
       THEN Answer(r, "database") /\ UNCHANGED <<issuer, active, tid>>
       ELSE /\ issuer' = [issuer EXCEPT ![r] = regIssuer[reg[r]]]
            /\ active' = active \cup {r}
            /\ tid' = [tid EXCEPT ![r] = r]
            /\ Goto(r, "approve")
    /\ UNCHANGED <<regIssuer, status, provided, caches, reg, arg, old, history>>

Approve(r) ==
    /\ pc[r] = "approve"
    /\ status' = [status EXCEPT ![reg[r]] = "approved"]
    /\ provided' = [provided EXCEPT ![reg[r]] = r]
    /\ Answer(r, "ok")
    /\ UNCHANGED <<issuer, active, regIssuer, caches, locals, history>>

Reject(r) ==
    /\ pc[r] = "reject"
    /\ status' = [status EXCEPT ![reg[r]] = "rejected"]
    /\ Answer(r, "ok")
    /\ UNCHANGED <<issuer, active, regIssuer, provided, caches, locals, history>>

(***************************************************************************)
(* GET /registrations/{id}                                                 *)
(***************************************************************************)

\* The token is missing, or it is not the one the row has; there is no such row;
\* or the answer is the row.
GetRegistration(r, g) ==
    /\ pc[r] = "idle"
    /\ reg' = [reg EXCEPT ![r] = g]
    /\ \/ Answer(r, "invalid_token")
       \/ Answer(r, IF status[g] = "none" THEN "not_found" ELSE status[g])
    /\ UNCHANGED <<tables, caches, tid, arg, old, history>>

(***************************************************************************)
(* A request with a bearer token: AuthService::call, validate_bearer_token *)
(* and JwksCache::get_or_fetch.                                            *)
(***************************************************************************)

\* AuthError::into_response
Refused(r, a) == Answer(r, a) /\ UNCHANGED <<tid, arg>>

\* AuthService::call: there is no token, or an empty one.
NoToken(r) ==
    /\ pc[r] = "idle"
    /\ Refused(r, "missing_token")
    /\ UNCHANGED <<tables, caches, reg, old, history>>

\* decode_unverified_claims finds no issuer.
Malformed(r) ==
    /\ pc[r] = "idle"
    /\ Refused(r, "invalid_token")
    /\ UNCHANGED <<tables, caches, reg, old, history>>

\* resolve_by_issuer
ResolveByIssuer(i) == registry[i]

Resolve(r, i) ==
    LET config == ResolveByIssuer(i) IN
    /\ pc[r] = "idle"
    /\ \/ config = Nowhere /\ Refused(r, "unknown_tenant")
       \/ config # Nowhere /\ ~config.on /\ Refused(r, "tenant_inactive")
       \/ /\ config.on
          /\ tid' = [tid EXCEPT ![r] = config.id]
          /\ arg' = [arg EXCEPT ![r] = i]
          /\ Goto(r, "cached")
    /\ UNCHANGED <<tables, caches, reg, old, history>>

\* The token is verified under each of the keys at hand.
Verify(r) == \E a \in {"accepted", "invalid_token", "expired_token"} : Answer(r, a)

\* get_or_fetch, with the read lock: an entry, or fetch_jwks is begun.
ReadJwks(r) ==
    /\ pc[r] = "cached"
    /\ IF <<tid[r], Trim[arg[r]]>> \in jwks THEN Verify(r) ELSE Goto(r, "fetch")
    /\ UNCHANGED <<tables, caches, locals, history>>

\* The document has come, and is inserted with the write lock; or it has not.
FetchJwks(r) ==
    /\ pc[r] = "fetch"
    /\ \/ jwks' = jwks \cup {<<tid[r], Trim[arg[r]]>>} /\ Verify(r)
       \/ Answer(r, "invalid_token") /\ UNCHANGED jwks
    /\ UNCHANGED <<tables, registry, locals, history>>

\* JWKS_TTL is over: the entry is as good as absent.
ExpireJwks ==
    /\ \E x \in jwks : jwks' = jwks \ {x}
    /\ UNCHANGED <<tables, registry, pc, locals, resp, history>>

(***************************************************************************)
(* Failures.                                                               *)
(***************************************************************************)

\* A statement fails, or its commit succeeds and its answer is lost: then the
\* registry is not told.
Abort(r) ==
    /\ pc[r] \in {"upsert", "deactivate", "invalidate", "rename", "replace",
                  "submit_check", "submit", "provision", "approve", "reject"}
    /\ Answer(r, "database")
    /\ torn' = IF pc[r] \in {"upsert", "invalidate", "replace"} THEN torn \cup {tid[r]} ELSE torn
    /\ UNCHANGED <<tables, caches, locals, late, unclear, renamed, booted>>

\* The server stops, and with it every request; main fills a new registry.  When
\* the query of load_all fails, unwrap_or_default leaves it empty.
Restart ==
    /\ \/ registry' = Loaded /\ booted' = TRUE /\ torn' = {}
       \/ registry' = [i \in Issuer |-> Nowhere] /\ booted' = FALSE /\ UNCHANGED torn
    /\ jwks' = {} /\ late' = {}
    /\ pc' = [r \in Req |-> IF pc[r] = "idle" THEN "idle" ELSE "done"]
    /\ resp' = [r \in Req |-> IF pc[r] \in {"idle", "done"} THEN resp[r] ELSE "lost"]
    /\ UNCHANGED <<tables, locals, unclear, renamed>>

Next ==
    \/ \E r \in Req :
          \/ AdminRefused(r)
          \/ \E i \in Issuer : CreateTenant(r, i)
          \/ UpsertCreated(r)
          \/ \E t \in Tenant : DeactivateRequest(r, t)
          \/ Deactivate(r)
          \/ Invalidate(r)
          \/ \E t \in Tenant, i \in Issuer : RenameRequest(r, t, i)
          \/ Rename(r)
          \/ RemoveOld(r)
          \/ EvictJwks(r)
          \/ Reinsert(r)
          \/ SubmitInvalid(r)
          \/ \E i \in Issuer : SubmitRequest(r, i)
          \/ SubmitCheck(r)
          \/ Submit(r)
          \/ \E g \in Reg : ApproveRequest(r, g) \/ RejectRequest(r, g)
          \/ Provision(r)
          \/ Approve(r)
          \/ Reject(r)
          \/ \E g \in Reg : GetRegistration(r, g)
          \/ NoToken(r)
          \/ Malformed(r)
          \/ \E i \in Issuer : Resolve(r, i)
          \/ ReadJwks(r)
          \/ FetchJwks(r)
          \/ Abort(r)
    \/ ExpireJwks
    \/ Restart

Spec == Init /\ [][Next]_vars

(***************************************************************************)
(* Properties.                                                             *)
(***************************************************************************)

InFlight(t) == \E r \in Req : tid[r] = t /\ pc[r] \notin {"idle", "done", "cached", "fetch"}

\* The registry is kept in step with the table by hand.  For a tenant whose admin
\* requests did not overlap with others about it or its issuers, and whose
\* answers were not lost, it is: an entry has the tenant's issuer and active flag,
\* and an active tenant has an entry, unless the tenant was approved after the
\* server was started, or load_all failed.
RegistryIsTable ==
    \A t \in Tenant \ torn : ~InFlight(t) =>
        /\ \A i \in Issuer : registry[i].id = t =>
               issuer[t] = i /\ registry[i].on = (t \in active)
        /\ (t \in active /\ booted /\ (t \in Req => reg[t] = None)) =>
               registry[issuer[t]] = [id |-> t, on |-> TRUE]

\* The issuer i is its own URL, and no other issuer has that URL.
Plain(i) == \A j \in Issuer : Trim[j] = i <=> j = i

\* Once update_oidc_issuer has changed the issuer of a tenant, no keys of the old
\* issuer are cached for it.  Three cases are left out, and in each of them the old
\* keys can stay: a request that asked for them before the eviction and got them
\* after it (late); an issuer that shares its URL with one that ends with a slash
\* (Plain); and a tenant two admin requests overlap on, or for which one failed
\* after its statement (torn).
OldKeysAreGone ==
    \A t \in Tenant \ torn : ~InFlight(t) =>
        \A i \in Issuer : (<<t, i>> \in jwks \ late /\ Plain(i)) => issuer[t] = i

\* What get_registration told the applicant of a decision stays so, and an
\* approved registration names a tenant that exists, whichever statements fail and
\* whenever the server restarts.  Left out: a registration that two decisions
\* overlapped on (unclear).  The handlers check the status and write it in two
\* statements, so there the second decision replaces the first.
DecisionsStand ==
    \A r \in Req : (resp[r] \in {"approved", "rejected"} /\ reg[r] \notin unclear) =>
        /\ status[reg[r]] = resp[r]
        /\ resp[r] = "approved" => issuer[provided[reg[r]]] # None

\* approve_registration inserts the tenant before it updates the registration: each
\* tenant it inserted is the one its registration names, or this very approval was
\* cut off in between, by an error or a restart, and never answered with success.
\* Left out: a registration that two decisions overlapped on (unclear), where a
\* reject may follow the insert.
ProvisionedIsApproved ==
    \A r \in Req : (tid[r] = r /\ reg[r] # None /\ reg[r] \notin unclear) =>
        \/ pc[r] = "approve"
        \/ resp[r] \in {"database", "lost"}
        \/ status[reg[r]] = "approved" /\ provided[reg[r]] = r

\* The UNIQUE constraint is what keeps two approvals at once from providing two
\* tenants for one registration, as long as no tenant's issuer is changed.
OneTenantPerRegistration ==
    renamed \/ \A q, r \in Req :
        (tid[q] = q /\ tid[r] = r /\ reg[q] # None /\ reg[q] = reg[r]) => q = r
=============================================================================

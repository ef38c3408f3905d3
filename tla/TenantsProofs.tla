---------------------------- MODULE TenantsProofs ----------------------------
(***************************************************************************)
(* Tenants and their registration, for any number of requests, tenants,    *)
(* registrations and issuers: what an approval leaves behind, and how the  *)
(* registry and the cached keys follow the table.                          *)
(***************************************************************************)
EXTENDS Tenants, TLAPS

AdminLabels == {"upsert", "deactivate", "invalidate", "rename", "replace", "evict", "reinsert"}
OtherLabels == {"idle", "submit_check", "submit", "provision", "approve", "reject", "cached", "fetch",
                "done"}
Answers     == {"none", "not_admin", "conflict", "created", "not_found", "no_content", "unprocessable",
                "not_pending", "database", "ok", "invalid_token", "pending", "approved", "rejected",
                "missing_token", "unknown_tenant", "tenant_inactive", "accepted", "expired_token",
                "lost"}
Statuses    == {"none", "pending", "approved", "rejected"}
OldRow      == [oidc_issuer : Issuer, active : BOOLEAN]
Entry       == [id : Tenant \cup {None}, on : BOOLEAN]

TenantsType ==
    /\ issuer \in [Tenant -> Issuer \cup {None}]
    /\ active \subseteq Tenant
    /\ regIssuer \in [Reg -> Issuer \cup {None}]
    /\ status \in [Reg -> Statuses]
    /\ provided \in [Reg -> Req \cup {None}]
    /\ registry \in [Issuer -> Entry]
    /\ pc \in [Req -> AdminLabels \cup OtherLabels]
    /\ tid \in [Req -> Tenant \cup {None}]
    /\ reg \in [Req -> Reg \cup {None}]
    /\ arg \in [Req -> Issuer \cup {None}]
    /\ old \in [Req -> OldRow \cup {None}]
    /\ resp \in [Req -> Answers]

Admin(r) == pc[r] \in AdminLabels

\* What is known of a request from where it is in its handler.
AtLabel(r) ==
    /\ pc[r] = "idle" => tid[r] = None /\ reg[r] = None /\ arg[r] = None /\ old[r] = None
    /\ pc[r] = "upsert" => tid[r] = r /\ arg[r] # None /\ old[r] = None
    /\ Admin(r) => tid[r] \in Tenant /\ issuer[tid[r]] # None /\ reg[r] = None
    /\ Admin(r) /\ pc[r] # "upsert" => old[r] # None
    /\ pc[r] \in {"rename", "replace", "evict", "reinsert"} => arg[r] # None
    /\ pc[r] \in {"submit_check", "submit"} => arg[r] # None /\ tid[r] = None /\ reg[r] = None
    /\ pc[r] \in {"provision", "approve", "reject"} => reg[r] # None
    /\ pc[r] \in {"provision", "reject"} => tid[r] = None
    /\ pc[r] = "approve" => tid[r] = r
    /\ pc[r] \in {"cached", "fetch"} => tid[r] \in Tenant /\ issuer[tid[r]] # None /\ arg[r] # None
    /\ tid[r] = r <=> issuer[r] # None
    /\ pc[r] \in {"idle", "submit_check", "submit"} => status[r] = "none"

\* The UNIQUE constraint on tenants.oidc_issuer.
OneIssuer == \A s, t \in Tenant : issuer[s] = issuer[t] /\ issuer[s] # None => s = t

RegRows == \A g \in Reg : status[g] # "none" => regIssuer[g] # None
DecidedRows ==
    \A r \in Req : (reg[r] # None /\ (pc[r] # "done" \/ tid[r] = r)) => status[reg[r]] # "none"

\* An entry is about a row.
Entries ==
    \A i \in Issuer : /\ registry[i].id = None => ~registry[i].on
                      /\ registry[i].id # None => issuer[registry[i].id] # None

BaseInv ==
    /\ TenantsType
    /\ \A r \in Req : AtLabel(r)
    /\ OneIssuer /\ RegRows /\ DecidedRows /\ Entries

\* Until an issuer is changed, a tenant has the issuer of its registration.
ProvidedIssuer ==
    renamed \/ \A r \in Req : tid[r] = r /\ reg[r] # None => issuer[r] = regIssuer[reg[r]]

\* A registration that is decided once is pending until then.
Decisions(g) ==
    g \notin unclear =>
        /\ \A q, r \in Req : Deciding(q, g) /\ Deciding(r, g) => q = r
        /\ \A q \in Req : Deciding(q, g) => status[g] = "pending"

Approved(g) == status[g] = "approved" => provided[g] \in Req /\ issuer[provided[g]] # None

Told(r) == (resp[r] \in {"approved", "rejected"} /\ reg[r] \notin unclear) =>
               reg[r] \in Reg /\ status[reg[r]] = resp[r]

Unanswered == \A r \in Req : pc[r] # "done" => resp[r] = "none"

DecisionInv ==
    /\ ProvidedIssuer /\ Unanswered
    /\ \A g \in Reg : Decisions(g) /\ Approved(g)
    /\ \A r \in Req : Told(r)
    /\ ProvisionedIsApproved

\* The issuers an admin request has to do with.
Names(r) == {arg[r]} \cup (IF old[r] = None THEN {} ELSE {old[r].oidc_issuer})

\* Two admin requests at once about a tenant or an issuer: their tenants are torn.
Apart(q, r) ==
    /\ Admin(q) /\ Admin(r) /\ q # r
    /\ tid[q] = tid[r] \/ \E i \in Issuer : i \in Names(q) /\ i \in Names(r)
    => tid[q] \in torn /\ tid[r] \in torn

\* An approved tenant of which the registry has not heard.
Silent(s) ==
    /\ s \in Req /\ reg[s] # None
    /\ \A i \in Issuer : registry[i].id # s
    /\ \A q \in Req : Admin(q) => tid[q] # s

\* The issuer an admin request writes about is its tenant's, but for those.
Alone(r) ==
    Admin(r) =>
        \A s \in Tenant \ (torn \cup {tid[r]}) :
            \/ pc[r] # "upsert" /\ issuer[s] = old[r].oidc_issuer
            \/ pc[r] \in {"upsert", "replace", "evict", "reinsert"} /\ issuer[s] = arg[r]
            => Silent(s)

NoEntry(t) == \A i \in Issuer : registry[i].id # t

\* What an admin request knows of its tenant, when no other has changed it.
Knows(r) ==
    (Admin(r) /\ tid[r] \notin torn) =>
        /\ pc[r] \in {"upsert", "replace", "evict", "reinsert"} => issuer[tid[r]] = arg[r]
        /\ pc[r] = "upsert" => tid[r] \in active
        /\ pc[r] \in {"deactivate", "invalidate", "rename"} => issuer[tid[r]] = old[r].oidc_issuer
        /\ pc[r] \in {"deactivate", "rename", "replace", "evict", "reinsert"} =>
               (old[r].active <=> tid[r] \in active)
        /\ pc[r] = "invalidate" => tid[r] \notin active
        /\ pc[r] = "replace" => \A i \in Issuer : registry[i].id = tid[r] => i = old[r].oidc_issuer
        /\ pc[r] \in {"upsert", "evict", "reinsert"} => NoEntry(tid[r])

At(t, labels) == \E r \in Req : tid[r] = t /\ pc[r] \in labels

\* An entry is right, or is being put right.
EntryRight(t) ==
    \A i \in Issuer : registry[i].id = t =>
        \/ issuer[t] = i /\ ((registry[i].on <=> t \in active) \/ At(t, {"invalidate"}))
        \/ \E r \in Req : tid[r] = t /\ pc[r] = "replace" /\ old[r].oidc_issuer = i

\* An active tenant has its entry, or will have it.
HasEntry(t) ==
    (t \in active /\ booted /\ (t \in Req => reg[t] = None)) =>
        \/ registry[issuer[t]].id = t /\ registry[issuer[t]].on
        \/ At(t, {"upsert", "replace", "evict", "reinsert"})

ActiveRows == \A t \in active : issuer[t] # None

RegistryInv ==
    /\ ActiveRows
    /\ \A q, r \in Req : Apart(q, r)
    /\ \A r \in Req : Alone(r) /\ Knows(r)
    /\ \A t \in Tenant \ torn : EntryRight(t) /\ HasEntry(t)

\* The issuer of t was i, and its keys are about to be evicted.
Leaving(t, i) ==
    \E r \in Req : tid[r] = t /\ pc[r] \in {"replace", "evict"} /\ old[r].oidc_issuer = i

Held(t, i) == issuer[t] = i \/ Leaving(t, i)

KeysInv ==
    \A t \in Tenant \ torn : \A i \in Issuer : Plain(i) /\ <<t, i>> \notin late =>
        /\ \A q \in Req : pc[q] \in {"cached", "fetch"} /\ tid[q] = t /\ arg[q] = i => Held(t, i)
        /\ <<t, i>> \in jwks => Held(t, i)

TenantsInv == BaseInv /\ DecisionInv /\ RegistryInv /\ KeysInv

LEMMA NoneIsNot ==
    /\ None \notin Tenant /\ None \notin Req /\ None \notin Reg /\ None \notin Issuer /\ None \notin OldRow
    /\ Req \subseteq Tenant /\ Req \subseteq Reg
  BY TenantsAssumption, Zenon DEF OldRow, Tenant, Reg

LEMMA NowhereIs ==
    /\ Nowhere.id = None /\ ~Nowhere.on
    /\ Nowhere \in Entry
  BY Zenon DEF Nowhere, Entry

LEMMA LoadedRight ==
    ASSUME issuer \in [Tenant -> Issuer \cup {None}], OneIssuer
    PROVE  /\ Loaded \in [Issuer -> Entry]
           /\ \A i \in Issuer :
                /\ Loaded[i].id = None => ~Loaded[i].on
                /\ Loaded[i].id # None => /\ Loaded[i].id \in Tenant /\ issuer[Loaded[i].id] = i
                                          /\ Loaded[i].on <=> Loaded[i].id \in active
           /\ \A t \in Tenant : issuer[t] # None => Loaded[issuer[t]].id = t
<1>1. ASSUME NEW i \in Issuer, NEW s \in Tenant, issuer[s] = i
      PROVE  /\ Loaded[i] \in Entry
             /\ Loaded[i].id = s /\ (Loaded[i].on <=> s \in active)
  <2> DEFINE t == CHOOSE t \in Tenant : issuer[t] = i
  <2>1. t \in Tenant /\ issuer[t] = i
    BY <1>1, Zenon
  <2>2. t = s
    BY <1>1, <2>1, NoneIsNot, Zenon DEF OneIssuer
  <2>3. Loaded[i] = [id |-> t, on |-> t \in active]
    BY <1>1, Zenon DEF Loaded
  <2>4. Loaded[i] = [id |-> s, on |-> s \in active]
    BY <2>2, <2>3, Zenon
  <2>5. [id |-> s, on |-> s \in active] \in Entry
    BY SMT DEF Entry
  <2>6. [id |-> s, on |-> s \in active].id = s /\ ([id |-> s, on |-> s \in active].on <=> s \in active)
    BY Zenon
  <2>7. QED
    BY <2>4, <2>5, <2>6, Zenon
<1>2. ASSUME NEW i \in Issuer, \A s \in Tenant : issuer[s] # i
      PROVE  /\ Loaded[i] \in Entry
             /\ Loaded[i].id = None /\ ~Loaded[i].on
  <2>1. Loaded[i] = Nowhere
    BY <1>2, Zenon DEF Loaded
  <2>2. QED
    BY <2>1, NowhereIs, Zenon
<1>3. \A i \in Issuer :
                /\ Loaded[i].id = None => ~Loaded[i].on
                /\ Loaded[i].id # None => /\ Loaded[i].id \in Tenant /\ issuer[Loaded[i].id] = i
                                          /\ Loaded[i].on <=> Loaded[i].id \in active
  <2> SUFFICES ASSUME NEW i \in Issuer
               PROVE  /\ Loaded[i].id = None => ~Loaded[i].on
                      /\ Loaded[i].id # None => /\ Loaded[i].id \in Tenant /\ issuer[Loaded[i].id] = i
                                                /\ Loaded[i].on <=> Loaded[i].id \in active
    BY Zenon
  <2>1. CASE \E s \in Tenant : issuer[s] = i
    <3>1. PICK s \in Tenant : issuer[s] = i
      BY <2>1, Zenon
    <3>2. Loaded[i].id = s /\ (Loaded[i].on <=> s \in active) /\ s # None
      BY <1>1, <3>1, NoneIsNot, Zenon
    <3>3. QED
      BY <3>1, <3>2, Zenon
  <2>2. CASE \A s \in Tenant : issuer[s] # i
    BY <1>2, <2>2, Zenon
  <2>3. QED
    BY <2>1, <2>2, Zenon
<1>4. Loaded \in [Issuer -> Entry]
  <2>1. \A i \in Issuer : Loaded[i] \in Entry
    BY <1>1, <1>2, Zenon
  <2>2. Loaded = [i \in Issuer |-> Loaded[i]]
    BY Zenon DEF Loaded
  <2>3. QED
    BY <2>1, <2>2, Zenon
<1>5. \A t \in Tenant : issuer[t] # None => Loaded[issuer[t]].id = t
  <2> SUFFICES ASSUME NEW t \in Tenant, issuer[t] # None PROVE Loaded[issuer[t]].id = t
    BY Zenon
  <2>1. issuer[t] \in Issuer
    BY Zenon
  <2>2. QED
    BY <1>1, <2>1, Zenon
<1>6. QED
  BY <1>3, <1>4, <1>5, Zenon

LEMMA TenantsInit ==
    Init => TenantsInv
<1> SUFFICES ASSUME Init PROVE TenantsInv
  BY Zenon
<1>1. /\ issuer \in [Tenant -> Issuer \cup {None}] /\ active \subseteq Tenant
      /\ \A t \in Tenant : issuer[t] # None => t \notin Req
      /\ \A t \in Tenant \ Req : issuer[t] \in Issuer
      /\ \A t \in Req : issuer[t] = None
  BY TenantsAssumption, Zenon DEF Init, Tenant
<1>2. OneIssuer
  BY TenantsAssumption, Zenon DEF Init, Tenant, OneIssuer
<1>3. /\ regIssuer \in [Reg -> Issuer \cup {None}] /\ status \in [Reg -> Statuses]
      /\ \A g \in Reg : status[g] # "none" => regIssuer[g] # None
      /\ \A g \in Reg : status[g] \in {"none", "pending"}
      /\ \A r \in Req : status[r] = "none"
  BY TenantsAssumption, Zenon DEF Init, Reg, Statuses
<1>4. /\ registry \in [Issuer -> Entry]
      /\ \A i \in Issuer :
                /\ registry[i].id = None => ~registry[i].on
                /\ registry[i].id # None => /\ registry[i].id \in Tenant /\ issuer[registry[i].id] = i
                                            /\ registry[i].on <=> registry[i].id \in active
      /\ \A t \in Tenant : issuer[t] # None => registry[issuer[t]].id = t
  <2>1. registry = Loaded
    BY Zenon DEF Init
  <2>2. QED
    BY <1>1, <1>2, <2>1, LoadedRight, Zenon
<1>5. \A r \in Req : /\ pc[r] = "idle" /\ tid[r] = None /\ reg[r] = None /\ arg[r] = None /\ old[r] = None
                     /\ resp[r] = "none"
  BY Zenon DEF Init
<1>6. TenantsType
  <2>1. /\ pc \in [Req -> AdminLabels \cup OtherLabels]
        /\ tid \in [Req -> Tenant \cup {None}]
        /\ reg \in [Req -> Reg \cup {None}]
        /\ arg \in [Req -> Issuer \cup {None}]
        /\ old \in [Req -> OldRow \cup {None}]
        /\ provided \in [Reg -> Req \cup {None}]
    BY Zenon DEF Init, OtherLabels
  <2>2. resp \in [Req -> Answers]
    BY Zenon DEF Init, Answers
  <2>3. QED
    BY <1>1, <1>3, <1>4, <2>1, <2>2, Zenon DEF TenantsType
<1>7. \A r \in Req : AtLabel(r) /\ ~Admin(r)
  BY <1>1, <1>3, <1>5, NoneIsNot, Zenon DEF AtLabel, Admin, AdminLabels
<1>8. Entries
  <2>1. \A i \in Issuer : i # None
    BY NoneIsNot, Zenon
  <2>2. \A i \in Issuer : registry[i].id # None => issuer[registry[i].id] = i
    BY <1>4, Zenon
  <2>3. \A i \in Issuer : registry[i].id = None => ~registry[i].on
    BY <1>4, Zenon
  <2>4. QED
    BY <2>1, <2>2, <2>3, Zenon DEF Entries
<1>9. BaseInv
  BY <1>2, <1>3, <1>5, <1>6, <1>7, <1>8, Zenon DEF BaseInv, RegRows, DecidedRows
<1>10. DecisionInv
  BY <1>3, <1>5, Zenon DEF DecisionInv, ProvidedIssuer, Unanswered, Decisions, Approved, Told,
     ProvisionedIsApproved, Deciding
<1>11. RegistryInv
  <2>1. (\A q, r \in Req : Apart(q, r)) /\ \A r \in Req : Alone(r) /\ Knows(r)
    BY <1>7, Zenon DEF Apart, Alone, Knows
  <2>2. \A t \in Tenant : EntryRight(t)
    <3>1. \A t \in Tenant : t # None
      BY NoneIsNot, Zenon
    <3>2. ASSUME NEW t \in Tenant, NEW i \in Issuer, registry[i].id = t
          PROVE  issuer[t] = i /\ (registry[i].on <=> t \in active)
      <4>1. registry[i].id # None
        BY <3>1, <3>2, Zenon
      <4>2. issuer[registry[i].id] = i /\ (registry[i].on <=> registry[i].id \in active)
        BY <1>4, <4>1, Zenon
      <4>3. QED
        BY <3>2, <4>2, Zenon
    <3>3. QED
      BY <3>2, Zenon DEF EntryRight
  <2>3. \A t \in Tenant : HasEntry(t)
    <3>1. \A t \in active : issuer[t] \in Issuer /\ t \in Tenant
      BY <1>1, TenantsAssumption, Zenon DEF Init, Tenant
    <3>2. ASSUME NEW t \in Tenant, t \in active
          PROVE  registry[issuer[t]].id = t /\ registry[issuer[t]].on
      <4>1. issuer[t] \in Issuer /\ issuer[t] # None /\ t # None
        BY <3>1, <3>2, NoneIsNot, Zenon
      <4>2. registry[issuer[t]].id = t
        BY <1>4, <4>1, Zenon
      <4>3. QED
        BY <1>4, <3>2, <4>1, <4>2, Zenon
    <3>3. QED
      BY <3>2, Zenon DEF HasEntry
  <2>4. ActiveRows
    <3>1. \A t \in active : issuer[t] \in Issuer
      BY <1>1, TenantsAssumption, Zenon DEF Init, Tenant
    <3>2. QED
      BY <3>1, NoneIsNot, Zenon DEF ActiveRows
  <2>5. QED
    BY <2>1, <2>2, <2>3, <2>4, Zenon DEF RegistryInv
<1>12. KeysInv
  BY <1>5, Zenon DEF Init, KeysInv
<1>13. QED
  BY <1>9, <1>10, <1>11, <1>12, Zenon DEF TenantsInv

-----------------------------------------------------------------------------
(***************************************************************************)
(* One step.                                                               *)
(***************************************************************************)

\* The steps of one request.
Step(r) ==
    \/ AdminRefused(r)
    \/ \E i \in Issuer : CreateTenant(r, i)
    \/ UpsertCreated(r)
    \/ \E t \in Tenant : DeactivateRequest(r, t)
    \/ Deactivate(r)
    \/ Invalidate(r)
    \/ \E t \in Tenant, i \in Issuer : RenameRequest(r, t, i)
    \/ Rename(r)
    \/ RemoveOld(r)
    \/ EvictJwks(r)
    \/ Reinsert(r)
    \/ SubmitInvalid(r)
    \/ \E i \in Issuer : SubmitRequest(r, i)
    \/ SubmitCheck(r)
    \/ Submit(r)
    \/ \E g \in Reg : ApproveRequest(r, g)
    \/ \E g \in Reg : RejectRequest(r, g)
    \/ Provision(r)
    \/ Approve(r)
    \/ Reject(r)
    \/ \E g \in Reg : GetRegistration(r, g)
    \/ NoToken(r)
    \/ Malformed(r)
    \/ \E i \in Issuer : Resolve(r, i)
    \/ ReadJwks(r)
    \/ FetchJwks(r)
    \/ Abort(r)

\* What each step leaves as it is for the other requests.
Same(q) ==
    /\ pc'[q] = pc[q] /\ tid'[q] = tid[q] /\ reg'[q] = reg[q] /\ arg'[q] = arg[q] /\ old'[q] = old[q]
    /\ resp'[q] = resp[q]

LEMMA OthersSame ==
    ASSUME TenantsType, NEW r \in Req, Step(r)
    PROVE  \A q \in Req \ {r} : Same(q)
<1> USE DEF TenantsType, Same
<1> DEFINE Own == \A q \in Req \ {r} : Same(q)
<1>1. ASSUME AdminRefused(r) PROVE Own
  BY <1>1, Zenon DEF AdminRefused, Answer, locals
<1>2. ASSUME NEW i \in Issuer, CreateTenant(r, i) PROVE Own
  BY <1>2, Zenon DEF CreateTenant, Goto, Answer
<1>3. ASSUME UpsertCreated(r) PROVE Own
  BY <1>3, Zenon DEF UpsertCreated, Answer, locals
<1>4. ASSUME NEW t \in Tenant, DeactivateRequest(r, t) PROVE Own
  BY <1>4, Zenon DEF DeactivateRequest, GetById, Goto, Answer
<1>5. ASSUME Deactivate(r) PROVE Own
  BY <1>5, Zenon DEF Deactivate, Goto, locals
<1>6. ASSUME Invalidate(r) PROVE Own
  BY <1>6, Zenon DEF Invalidate, Answer, locals
<1>7. ASSUME NEW t \in Tenant, NEW i \in Issuer, RenameRequest(r, t, i) PROVE Own
  BY <1>7, ZenonT(30) DEF RenameRequest, GetById, Goto, Answer
<1>8. ASSUME Rename(r) PROVE Own
  BY <1>8, Zenon DEF Rename, Goto, Answer, locals
<1>9. ASSUME RemoveOld(r) PROVE Own
  BY <1>9, Zenon DEF RemoveOld, Goto, locals
<1>10. ASSUME EvictJwks(r) PROVE Own
  BY <1>10, Zenon DEF EvictJwks, Goto, locals
<1>11. ASSUME Reinsert(r) PROVE Own
  BY <1>11, Zenon DEF Reinsert, Answer, locals
<1>12. ASSUME SubmitInvalid(r) PROVE Own
  BY <1>12, Zenon DEF SubmitInvalid, Answer, locals
<1>13. ASSUME NEW i \in Issuer, SubmitRequest(r, i) PROVE Own
  BY <1>13, Zenon DEF SubmitRequest, Goto, Answer
<1>14. ASSUME SubmitCheck(r) PROVE Own
  BY <1>14, Zenon DEF SubmitCheck, Goto, Answer, locals
<1>15. ASSUME Submit(r) PROVE Own
  BY <1>15, Zenon DEF Submit, Answer, locals
<1>16. ASSUME NEW g \in Reg, ApproveRequest(r, g) PROVE Own
  BY <1>16, Zenon DEF ApproveRequest, DecisionRequest, Goto, Answer
<1>17. ASSUME NEW g \in Reg, RejectRequest(r, g) PROVE Own
  BY <1>17, Zenon DEF RejectRequest, DecisionRequest, Goto, Answer
<1>18. ASSUME Provision(r) PROVE Own
  BY <1>18, Zenon DEF Provision, Goto, Answer
<1>19. ASSUME Approve(r) PROVE Own
  BY <1>19, Zenon DEF Approve, Answer, locals
<1>20. ASSUME Reject(r) PROVE Own
  BY <1>20, Zenon DEF Reject, Answer, locals
<1>21. ASSUME NEW g \in Reg, GetRegistration(r, g) PROVE Own
  BY <1>21, Zenon DEF GetRegistration, Answer
<1>22. ASSUME NoToken(r) PROVE Own
  BY <1>22, Zenon DEF NoToken, Refused, Answer
<1>23. ASSUME Malformed(r) PROVE Own
  BY <1>23, Zenon DEF Malformed, Refused, Answer
<1>24. ASSUME NEW i \in Issuer, Resolve(r, i) PROVE Own
  BY <1>24, Zenon DEF Resolve, Refused, Goto, Answer
<1>25. ASSUME ReadJwks(r) PROVE Own
  BY <1>25, Zenon DEF ReadJwks, Verify, Goto, Answer, locals
<1>26. ASSUME FetchJwks(r) PROVE Own
  BY <1>26, Zenon DEF FetchJwks, Verify, Answer, locals
<1>27. ASSUME Abort(r) PROVE Own
  BY <1>27, Zenon DEF Abort, Answer, locals
<1>28. QED
  BY <1>1, <1>2, <1>3, <1>4, <1>5, <1>6, <1>7, <1>8, <1>9, <1>10, <1>11, <1>12, <1>13, <1>14,
     <1>15, <1>16, <1>17, <1>18, <1>19, <1>20, <1>21, <1>22, <1>23, <1>24, <1>25, <1>26, <1>27,
     Zenon DEF Step

LEMMA ControlType ==
    ASSUME TenantsType, NEW r \in Req,
           \/ \E a \in Answers : Answer(r, a)
           \/ \E l \in AdminLabels \cup OtherLabels : Goto(r, l)
    PROVE  pc' \in [Req -> AdminLabels \cup OtherLabels] /\ resp' \in [Req -> Answers]
<1>1. "done" \in AdminLabels \cup OtherLabels
  BY Zenon DEF OtherLabels
<1>2. QED
  BY <1>1, ZenonT(30) DEF TenantsType, Answer, Goto

LEMMA RegistryType ==
    ASSUME TenantsType, NEW i \in Issuer
    PROVE  /\ Without(i) \in [Issuer -> Entry]
           /\ \A t \in Tenant, on \in BOOLEAN : Upserted(i, t, on) \in [Issuer -> Entry]
<1>1. Without(i) \in [Issuer -> Entry]
  BY NowhereIs, Zenon DEF TenantsType, Without
<1>2. ASSUME NEW t \in Tenant, NEW on \in BOOLEAN PROVE [id |-> t, on |-> on] \in Entry
  BY Zenon DEF Entry
<1>3. QED
  BY <1>1, <1>2, Zenon DEF TenantsType, Upserted

LEMMA TypeStep ==
    ASSUME BaseInv, NEW r \in Req, Step(r)
    PROVE  TenantsType'
<1>0. TenantsType /\ AtLabel(r) /\ r \in Tenant /\ r \in Reg
  BY NoneIsNot, Zenon DEF BaseInv
<1> USE DEF AdminLabels, OtherLabels, Answers, Statuses
<1>1. ASSUME AdminRefused(r) PROVE TenantsType'
  BY <1>0, <1>1, Zenon DEF AdminRefused, Answer, locals, tables, caches, history, TenantsType
<1>2. ASSUME NEW i \in Issuer, CreateTenant(r, i) PROVE TenantsType'
  <2>1. pc' \in [Req -> AdminLabels \cup OtherLabels] /\ resp' \in [Req -> Answers]
    BY <1>0, <1>2, ControlType, Zenon DEF CreateTenant
  <2>2. /\ issuer' \in [Tenant -> Issuer \cup {None}] /\ active' \subseteq Tenant
        /\ tid' \in [Req -> Tenant \cup {None}] /\ arg' \in [Req -> Issuer \cup {None}]
    <3>1. CASE Taken(r, i)
      BY <1>0, <1>2, <3>1, Zenon DEF CreateTenant, TenantsType
    <3>2. CASE ~Taken(r, i)
      <4>1. /\ issuer' = [issuer EXCEPT ![r] = i] /\ active' = active \cup {r}
            /\ tid' = [tid EXCEPT ![r] = r] /\ arg' = [arg EXCEPT ![r] = i]
        BY <1>2, <3>2, Zenon DEF CreateTenant
      <4>2. QED
        BY <1>0, <4>1, Zenon DEF TenantsType
    <3>3. QED
      BY <3>1, <3>2, Zenon
  <2>3. QED
    BY <1>0, <1>2, <2>1, <2>2, Zenon DEF CreateTenant, TenantsType, caches
<1>3. ASSUME UpsertCreated(r) PROVE TenantsType'
  <2>1. pc' \in [Req -> AdminLabels \cup OtherLabels] /\ resp' \in [Req -> Answers]
    BY <1>0, <1>3, ControlType, Zenon DEF UpsertCreated
  <2>2. arg[r] \in Issuer
    BY <1>0, <1>3, Zenon DEF UpsertCreated, AtLabel, TenantsType
  <2>3. registry' \in [Issuer -> Entry]
    BY <1>0, <1>3, <2>2, RegistryType, Zenon DEF UpsertCreated
  <2>4. QED
    BY <1>0, <1>3, <2>1, <2>3, Zenon DEF UpsertCreated, TenantsType, tables, locals
<1>4. ASSUME NEW t \in Tenant, DeactivateRequest(r, t) PROVE TenantsType'
  <2>1. pc' \in [Req -> AdminLabels \cup OtherLabels] /\ resp' \in [Req -> Answers]
    BY <1>0, <1>4, ControlType, Zenon DEF DeactivateRequest, GetById
  <2>2. /\ tid' \in [Req -> Tenant \cup {None}] /\ arg' \in [Req -> Issuer \cup {None}]
        /\ old' \in [Req -> OldRow \cup {None}]
    <3>1. issuer[t] # None => [oidc_issuer |-> issuer[t], active |-> t \in active] \in OldRow
      BY <1>0 DEF TenantsType, OldRow
    <3>2. QED
      BY <1>0, <1>4, <3>1, ZenonT(30) DEF DeactivateRequest, GetById, TenantsType
  <2>3. QED
    BY <1>0, <1>4, <2>1, <2>2, Zenon DEF DeactivateRequest, GetById, TenantsType, tables, caches
<1>5. ASSUME Deactivate(r) PROVE TenantsType'
  BY <1>0, <1>5, Zenon DEF Deactivate, Goto, locals, tables, caches, history, TenantsType
<1>6. ASSUME Invalidate(r) PROVE TenantsType'
  <2>1. pc' \in [Req -> AdminLabels \cup OtherLabels] /\ resp' \in [Req -> Answers]
    BY <1>0, <1>6, ControlType, Zenon DEF Invalidate
  <2>2. old[r].oidc_issuer \in Issuer
    BY <1>0, <1>6, Zenon DEF Invalidate, AtLabel, Admin, TenantsType, OldRow
  <2>3. registry' \in [Issuer -> Entry]
    BY <1>0, <1>6, <2>2, RegistryType, Zenon DEF Invalidate
  <2>4. QED
    BY <1>0, <1>6, <2>1, <2>3, Zenon DEF Invalidate, TenantsType, tables, locals
<1>7. ASSUME NEW t \in Tenant, NEW i \in Issuer, RenameRequest(r, t, i) PROVE TenantsType'
  <2>1. pc' \in [Req -> AdminLabels \cup OtherLabels] /\ resp' \in [Req -> Answers]
    BY <1>0, <1>7, ControlType, Zenon DEF RenameRequest, GetById
  <2>2. /\ tid' \in [Req -> Tenant \cup {None}] /\ arg' \in [Req -> Issuer \cup {None}]
        /\ old' \in [Req -> OldRow \cup {None}]
    <3>1. issuer[t] # None => [oidc_issuer |-> issuer[t], active |-> t \in active] \in OldRow
      BY <1>0 DEF TenantsType, OldRow
    <3>2. QED
      BY <1>0, <1>7, <3>1, ZenonT(30) DEF RenameRequest, GetById, TenantsType
  <2>3. QED
    BY <1>0, <1>7, <2>1, <2>2, Zenon DEF RenameRequest, GetById, TenantsType, tables, caches
<1>8. ASSUME Rename(r) PROVE TenantsType'
  BY <1>0, <1>8, ZenonT(30) DEF Rename, Goto, Answer, locals, tables, caches, history, TenantsType
<1>9. ASSUME RemoveOld(r) PROVE TenantsType'
  <2>1. pc' \in [Req -> AdminLabels \cup OtherLabels] /\ resp' \in [Req -> Answers]
    BY <1>0, <1>9, ControlType, Zenon DEF RemoveOld
  <2>2. old[r].oidc_issuer \in Issuer
    BY <1>0, <1>9, Zenon DEF RemoveOld, AtLabel, Admin, TenantsType, OldRow
  <2>3. registry' \in [Issuer -> Entry]
    BY <1>0, <1>9, <2>2, RegistryType, Zenon DEF RemoveOld
  <2>4. QED
    BY <1>0, <1>9, <2>1, <2>3, Zenon DEF RemoveOld, TenantsType, tables, locals
<1>10. ASSUME EvictJwks(r) PROVE TenantsType'
  BY <1>0, <1>10, Zenon DEF EvictJwks, Goto, locals, tables, caches, history, TenantsType
<1>11. ASSUME Reinsert(r) PROVE TenantsType'
  <2>1. pc' \in [Req -> AdminLabels \cup OtherLabels] /\ resp' \in [Req -> Answers]
    BY <1>0, <1>11, ControlType, Zenon DEF Reinsert
  <2>2. arg[r] \in Issuer /\ tid[r] \in Tenant /\ old[r].active \in BOOLEAN
    BY <1>0, <1>11, Zenon DEF Reinsert, AtLabel, Admin, TenantsType, OldRow
  <2>3. registry' \in [Issuer -> Entry]
    BY <1>0, <1>11, <2>2, RegistryType, Zenon DEF Reinsert
  <2>4. QED
    BY <1>0, <1>11, <2>1, <2>3, Zenon DEF Reinsert, TenantsType, tables, locals
<1>12. ASSUME SubmitInvalid(r) PROVE TenantsType'
  BY <1>0, <1>12, Zenon DEF SubmitInvalid, Answer, locals, tables, caches, history, TenantsType
<1>13. ASSUME NEW i \in Issuer, SubmitRequest(r, i) PROVE TenantsType'
  BY <1>0, <1>13, ZenonT(30) DEF SubmitRequest, Goto, Answer, tables, caches, history, TenantsType
<1>14. ASSUME SubmitCheck(r) PROVE TenantsType'
  BY <1>0, <1>14, Zenon DEF SubmitCheck, Goto, Answer, locals, tables, caches, history,
     TenantsType
<1>15. ASSUME Submit(r) PROVE TenantsType'
  BY <1>0, <1>15, Zenon DEF Submit, Answer, locals, tables, caches, history, TenantsType
<1>16. ASSUME NEW g \in Reg, ApproveRequest(r, g) PROVE TenantsType'
  BY <1>0, <1>16, ZenonT(30) DEF ApproveRequest, DecisionRequest, Goto, Answer, tables, caches,
     history, TenantsType
<1>17. ASSUME NEW g \in Reg, RejectRequest(r, g) PROVE TenantsType'
  BY <1>0, <1>17, ZenonT(30) DEF RejectRequest, DecisionRequest, Goto, Answer, tables, caches,
     history, TenantsType
<1>18. ASSUME Provision(r) PROVE TenantsType'
  <2>1. pc' \in [Req -> AdminLabels \cup OtherLabels] /\ resp' \in [Req -> Answers]
    BY <1>0, <1>18, ControlType, Zenon DEF Provision
  <2>2. regIssuer[reg[r]] \in Issuer
    BY <1>0, <1>18 DEF Provision, BaseInv, AtLabel, RegRows, DecidedRows, TenantsType
  <2>3. /\ issuer' \in [Tenant -> Issuer \cup {None}] /\ active' \subseteq Tenant
        /\ tid' \in [Req -> Tenant \cup {None}]
    <3>1. CASE Taken(r, regIssuer[reg[r]])
      BY <1>0, <1>18, <3>1, Zenon DEF Provision, TenantsType
    <3>2. CASE ~Taken(r, regIssuer[reg[r]])
      <4>1. /\ issuer' = [issuer EXCEPT ![r] = regIssuer[reg[r]]] /\ active' = active \cup {r}
            /\ tid' = [tid EXCEPT ![r] = r]
        BY <1>18, <3>2, Zenon DEF Provision
      <4>2. QED
        BY <1>0, <2>2, <4>1, Zenon DEF TenantsType
    <3>3. QED
      BY <3>1, <3>2, Zenon
  <2>4. QED
    BY <1>0, <1>18, <2>1, <2>3, Zenon DEF Provision, TenantsType, caches
<1>19. ASSUME Approve(r) PROVE TenantsType'
  BY <1>0, <1>19, Zenon DEF Approve, Answer, locals, tables, caches, history, TenantsType
<1>20. ASSUME Reject(r) PROVE TenantsType'
  BY <1>0, <1>20, Zenon DEF Reject, Answer, locals, tables, caches, history, TenantsType
<1>21. ASSUME NEW g \in Reg, GetRegistration(r, g) PROVE TenantsType'
  <2>1. (IF status[g] = "none" THEN "not_found" ELSE status[g]) \in Answers
    BY <1>0, Zenon DEF TenantsType
  <2>2. pc' \in [Req -> AdminLabels \cup OtherLabels] /\ resp' \in [Req -> Answers]
    BY <1>0, <1>21, <2>1, ControlType, Zenon DEF GetRegistration
  <2>3. reg' \in [Req -> Reg \cup {None}]
    BY <1>0, <1>21, Zenon DEF GetRegistration, TenantsType
  <2>4. QED
    BY <1>0, <1>21, <2>2, <2>3, Zenon DEF GetRegistration, TenantsType, tables, caches
<1>22. ASSUME NoToken(r) PROVE TenantsType'
  BY <1>0, <1>22, Zenon DEF NoToken, Refused, Answer, tables, caches, history, TenantsType
<1>23. ASSUME Malformed(r) PROVE TenantsType'
  BY <1>0, <1>23, Zenon DEF Malformed, Refused, Answer, tables, caches, history, TenantsType
<1>24. ASSUME NEW i \in Issuer, Resolve(r, i) PROVE TenantsType'
  <2>1. pc' \in [Req -> AdminLabels \cup OtherLabels] /\ resp' \in [Req -> Answers]
    BY <1>0, <1>24, ControlType, Zenon DEF Resolve, Refused
  <2>2. registry[i].id \in Tenant \cup {None}
    BY <1>0, Zenon DEF TenantsType, Entry
  <2>3. tid' \in [Req -> Tenant \cup {None}] /\ arg' \in [Req -> Issuer \cup {None}]
    BY <1>0, <1>24, <2>2, ZenonT(30) DEF Resolve, ResolveByIssuer, Refused, TenantsType
  <2>4. QED
    BY <1>0, <1>24, <2>1, <2>3, Zenon DEF Resolve, TenantsType, tables, caches
<1>25. ASSUME ReadJwks(r) PROVE TenantsType'
  <2>1. pc' \in [Req -> AdminLabels \cup OtherLabels] /\ resp' \in [Req -> Answers]
    BY <1>0, <1>25, ControlType, Zenon DEF ReadJwks, Verify
  <2>2. QED
    BY <1>0, <1>25, <2>1, Zenon DEF ReadJwks, TenantsType, tables, caches, locals
<1>26. ASSUME FetchJwks(r) PROVE TenantsType'
  <2>1. pc' \in [Req -> AdminLabels \cup OtherLabels] /\ resp' \in [Req -> Answers]
    BY <1>0, <1>26, ControlType, Zenon DEF FetchJwks, Verify
  <2>2. QED
    BY <1>0, <1>26, <2>1, Zenon DEF FetchJwks, TenantsType, tables, locals
<1>27. ASSUME Abort(r) PROVE TenantsType'
  BY <1>0, <1>27, Zenon DEF Abort, Answer, locals, tables, caches, history, TenantsType
<1>28. QED
  BY <1>1, <1>2, <1>3, <1>4, <1>5, <1>6, <1>7, <1>8, <1>9, <1>10, <1>11, <1>12, <1>13, <1>14,
     <1>15, <1>16, <1>17, <1>18, <1>19, <1>20, <1>21, <1>22, <1>23, <1>24, <1>25, <1>26, <1>27,
     Zenon DEF Step

\* How the rows of tenants change: a new row, or a new issuer, that no other row has.
LEMMA IssuerMoves ==
    ASSUME BaseInv, NEW r \in Req, Step(r)
    PROVE  \/ issuer' = issuer
           \/ \E t \in Tenant, i \in Issuer :
                 /\ ~Taken(t, i) /\ issuer' = [issuer EXCEPT ![t] = i]
                 /\ \/ t = r /\ issuer[r] = None /\ tid'[r] = r /\ pc[r] \in {"idle", "provision"}
                    \/ Rename(r) /\ t = tid[r] /\ i = arg[r] /\ issuer[t] # None
<1> DEFINE Own ==
           \/ issuer' = issuer
           \/ \E t \in Tenant, i \in Issuer :
                 /\ ~Taken(t, i) /\ issuer' = [issuer EXCEPT ![t] = i]
                 /\ \/ t = r /\ issuer[r] = None /\ tid'[r] = r /\ pc[r] \in {"idle", "provision"}
                    \/ Rename(r) /\ t = tid[r] /\ i = arg[r] /\ issuer[t] # None
<1>0. TenantsType /\ AtLabel(r) /\ r \in Tenant /\ tid \in [Req -> Tenant \cup {None}]
  BY NoneIsNot, Zenon DEF BaseInv, TenantsType
<1>1. ASSUME NEW i \in Issuer, CreateTenant(r, i) PROVE Own
  <2>1. CASE Taken(r, i)
    BY <1>1, <2>1, Zenon DEF CreateTenant
  <2>2. CASE ~Taken(r, i)
    <3>1. issuer' = [issuer EXCEPT ![r] = i] /\ tid' = [tid EXCEPT ![r] = r] /\ pc[r] = "idle"
      BY <1>1, <2>2, Zenon DEF CreateTenant
    <3>2. tid[r] # r
      BY <1>0, <3>1, NoneIsNot, Zenon DEF AtLabel
    <3>3. issuer[r] = None
      BY <1>0, <3>2, Zenon DEF AtLabel
    <3>4. tid'[r] = r
      BY <1>0, <3>1, Zenon
    <3>5. QED
      BY <1>0, <2>2, <3>1, <3>3, <3>4, Zenon
  <2>3. QED
    BY <2>1, <2>2, Zenon
<1>2. ASSUME Provision(r) PROVE Own
  <2> DEFINE i == regIssuer[reg[r]]
  <2>0. i \in Issuer
    BY <1>0, <1>2 DEF Provision, BaseInv, AtLabel, RegRows, DecidedRows, TenantsType
  <2>1. CASE Taken(r, i)
    BY <1>2, <2>1, Zenon DEF Provision
  <2>2. CASE ~Taken(r, i)
    <3>1. issuer' = [issuer EXCEPT ![r] = i] /\ tid' = [tid EXCEPT ![r] = r] /\ pc[r] = "provision"
      BY <1>2, <2>2, Zenon DEF Provision
    <3>2. tid[r] # r
      BY <1>0, <3>1, NoneIsNot, Zenon DEF AtLabel
    <3>3. issuer[r] = None
      BY <1>0, <3>2, Zenon DEF AtLabel
    <3>4. tid'[r] = r
      BY <1>0, <3>1, Zenon
    <3> HIDE DEF i
    <3>5. QED
      BY <1>0, <2>0, <2>2, <3>1, <3>3, <3>4, Zenon
  <2>3. QED
    BY <2>1, <2>2, Zenon
<1>3. ASSUME Rename(r) PROVE Own
  <2>1. CASE Taken(tid[r], arg[r])
    BY <1>3, <2>1, Zenon DEF Rename
  <2>2. CASE ~Taken(tid[r], arg[r])
    <3>1. issuer' = [issuer EXCEPT ![tid[r]] = arg[r]] /\ pc[r] = "rename"
      BY <1>3, <2>2, Zenon DEF Rename
    <3>2. tid[r] \in Tenant /\ issuer[tid[r]] # None /\ arg[r] \in Issuer
      BY <1>0, <3>1, Zenon DEF AtLabel, Admin, AdminLabels, TenantsType
    <3>3. QED
      BY <1>3, <2>2, <3>1, <3>2, Zenon
  <2>3. QED
    BY <2>1, <2>2, Zenon
<1>4. ASSUME \/ AdminRefused(r) \/ UpsertCreated(r)
             \/ \E t \in Tenant : DeactivateRequest(r, t)
             \/ Deactivate(r) \/ Invalidate(r)
             \/ \E t \in Tenant, i \in Issuer : RenameRequest(r, t, i)
             \/ RemoveOld(r) \/ EvictJwks(r) \/ Reinsert(r) \/ SubmitInvalid(r)
             \/ \E i \in Issuer : SubmitRequest(r, i)
             \/ SubmitCheck(r) \/ Submit(r)
             \/ \E g \in Reg : ApproveRequest(r, g)
             \/ \E g \in Reg : RejectRequest(r, g)
             \/ Approve(r) \/ Reject(r)
             \/ \E g \in Reg : GetRegistration(r, g)
             \/ NoToken(r) \/ Malformed(r)
             \/ \E i \in Issuer : Resolve(r, i)
             \/ ReadJwks(r) \/ FetchJwks(r) \/ Abort(r)
      PROVE  Own
  BY <1>4, Zenon DEF AdminRefused, UpsertCreated, DeactivateRequest, Deactivate, Invalidate,
     RenameRequest, RemoveOld, EvictJwks, Reinsert, SubmitInvalid, SubmitRequest, SubmitCheck,
     Submit, ApproveRequest, RejectRequest, Approve, Reject, GetRegistration, NoToken,
     Malformed, Resolve, ReadJwks, FetchJwks, Abort, GetById, DecisionRequest, tables
<1>5. Own
  BY <1>1, <1>2, <1>3, <1>4, Zenon DEF Step
<1>6. QED
  BY <1>5, Zenon

LEMMA IssuerKept ==
    ASSUME BaseInv, NEW r \in Req, Step(r)
    PROVE  /\ OneIssuer'
           /\ \A t \in Tenant : issuer[t] # None => issuer'[t] # None
           /\ \A t \in Tenant \ {r} : issuer[t] = None => issuer'[t] = None
<1>0. TenantsType /\ OneIssuer
  BY Zenon DEF BaseInv
<1>1. CASE issuer' = issuer
  BY <1>0, <1>1, Zenon DEF OneIssuer
<1>2. CASE issuer' # issuer
  <2>1. PICK t \in Tenant, i \in Issuer :
               /\ ~Taken(t, i) /\ issuer' = [issuer EXCEPT ![t] = i]
               /\ t = r \/ issuer[t] # None
    BY <1>2, IssuerMoves, Zenon
  <2>2. issuer'[t] = i /\ i # None /\ \A s \in Tenant \ {t} : issuer'[s] = issuer[s] /\ issuer[s] # i
    BY <1>0, <2>1, NoneIsNot, Zenon DEF TenantsType, Taken
  <2>3. OneIssuer'
    <3> SUFFICES ASSUME NEW u \in Tenant, NEW v \in Tenant, issuer'[u] = issuer'[v], issuer'[u] # None
                 PROVE  u = v
      BY Zenon DEF OneIssuer
    <3>1. CASE u = t \/ v = t
      BY <2>2, <3>1, Zenon
    <3>2. CASE u # t /\ v # t
      <4>1. issuer[u] = issuer[v] /\ issuer[u] # None
        BY <2>2, <3>2, Zenon
      <4>2. QED
        BY <1>0, <4>1, Zenon DEF OneIssuer
    <3>3. QED
      BY <3>1, <3>2, Zenon
  <2>4. QED
    BY <2>1, <2>2, <2>3, Zenon
<1>3. QED
  BY <1>1, <1>2, Zenon

\* How the rows of tenant_registrations change: there is a new one, or one is decided.
LEMMA StatusMoves ==
    ASSUME BaseInv, NEW r \in Req, Step(r)
    PROVE  /\ \A g \in Reg \ {r} : status'[g] = "none" <=> status[g] = "none"
           /\ \A g \in Reg : status[g] # "none" => status'[g] # "none" /\ regIssuer'[g] = regIssuer[g]
           /\ RegRows'
<1> DEFINE Own ==
           /\ \A g \in Reg \ {r} : status'[g] = "none" <=> status[g] = "none"
           /\ \A g \in Reg : status[g] # "none" => status'[g] # "none" /\ regIssuer'[g] = regIssuer[g]
           /\ RegRows'
<1>0. TenantsType /\ AtLabel(r) /\ r \in Reg /\ RegRows
  BY NoneIsNot, Zenon DEF BaseInv
<1>1. ASSUME Submit(r) PROVE Own
  <2>1. /\ regIssuer'[r] = arg[r] /\ status'[r] = "pending" /\ pc[r] = "submit"
        /\ \A g \in Reg \ {r} : regIssuer'[g] = regIssuer[g] /\ status'[g] = status[g]
    BY <1>0, <1>1, Zenon DEF Submit, TenantsType
  <2>2. status[r] = "none" /\ arg[r] # None
    BY <1>0, <2>1, Zenon DEF AtLabel
  <2>3. QED
    BY <1>0, <2>1, <2>2, Zenon DEF RegRows
<1>2. ASSUME Approve(r) \/ Reject(r) PROVE Own
  <2>1. /\ regIssuer' = regIssuer /\ pc[r] \in {"approve", "reject"}
        /\ \E x \in {"approved", "rejected"} : status' = [status EXCEPT ![reg[r]] = x]
    BY <1>2, Zenon DEF Approve, Reject
  <2>2. reg[r] \in Reg /\ status[reg[r]] # "none"
    <3>1. reg[r] # None
      BY <1>0, <2>1, Zenon DEF AtLabel
    <3>2. QED
      BY <1>0, <2>1, <3>1, Zenon DEF TenantsType, BaseInv, DecidedRows
  <2>3. PICK x \in {"approved", "rejected"} : status' = [status EXCEPT ![reg[r]] = x]
    BY <2>1, Zenon
  <2>4. status'[reg[r]] # "none" /\ \A g \in Reg \ {reg[r]} : status'[g] = status[g]
    BY <1>0, <2>2, <2>3, Zenon DEF TenantsType
  <2>5. QED
    BY <1>0, <2>1, <2>2, <2>4, Zenon DEF RegRows
<1>3. ASSUME \/ AdminRefused(r)
             \/ \E i \in Issuer : CreateTenant(r, i)
             \/ UpsertCreated(r)
             \/ \E t \in Tenant : DeactivateRequest(r, t)
             \/ Deactivate(r) \/ Invalidate(r)
             \/ \E t \in Tenant, i \in Issuer : RenameRequest(r, t, i)
             \/ Rename(r) \/ RemoveOld(r) \/ EvictJwks(r) \/ Reinsert(r) \/ SubmitInvalid(r)
             \/ \E i \in Issuer : SubmitRequest(r, i)
             \/ SubmitCheck(r)
             \/ \E g \in Reg : ApproveRequest(r, g)
             \/ \E g \in Reg : RejectRequest(r, g)
             \/ Provision(r)
             \/ \E g \in Reg : GetRegistration(r, g)
             \/ NoToken(r) \/ Malformed(r)
             \/ \E i \in Issuer : Resolve(r, i)
             \/ ReadJwks(r) \/ FetchJwks(r) \/ Abort(r)
      PROVE  Own
  <2>1. UNCHANGED <<status, regIssuer>>
    BY <1>3, Zenon DEF AdminRefused, CreateTenant, UpsertCreated, DeactivateRequest, Deactivate,
       Invalidate, RenameRequest, Rename, RemoveOld, EvictJwks, Reinsert, SubmitInvalid,
       SubmitRequest, SubmitCheck, ApproveRequest, RejectRequest, Provision, GetRegistration,
       NoToken, Malformed, Resolve, ReadJwks, FetchJwks, Abort, GetById, DecisionRequest, tables
  <2>2. QED
    BY <1>0, <2>1, Zenon DEF RegRows
<1>4. QED
  BY <1>1, <1>2, <1>3, Zenon DEF Step

\* How the registry changes, ...
LEMMA RegistryMoves ==
    ASSUME BaseInv, NEW r \in Req, Step(r)
    PROVE  \/ registry' = registry
           \/ /\ Invalidate(r) \/ RemoveOld(r)
              /\ old[r].oidc_issuer \in Issuer /\ registry' = Without(old[r].oidc_issuer)
           \/ /\ UpsertCreated(r) \/ Reinsert(r)
              /\ arg[r] \in Issuer /\ tid[r] \in Tenant
              /\ \E on \in BOOLEAN : registry' = Upserted(arg[r], tid[r], on)
<1>0. TenantsType /\ AtLabel(r)
  BY Zenon DEF BaseInv
<1>1. CASE Invalidate(r) \/ RemoveOld(r)
  <2>1. pc[r] \in {"invalidate", "replace"} /\ registry' = Without(old[r].oidc_issuer)
    BY <1>1, Zenon DEF Invalidate, RemoveOld
  <2>2. old[r] \in OldRow
    BY <1>0, <2>1, Zenon DEF AtLabel, Admin, AdminLabels, TenantsType
  <2>3. QED
    BY <1>1, <2>1, <2>2, Zenon DEF OldRow
<1>2. CASE UpsertCreated(r)
  <2>1. pc[r] = "upsert" /\ registry' = Upserted(arg[r], r, TRUE)
    BY <1>2, Zenon DEF UpsertCreated
  <2>2. tid[r] = r /\ tid[r] \in Tenant /\ arg[r] \in Issuer
    BY <1>0, <2>1, Zenon DEF AtLabel, Admin, AdminLabels, TenantsType
  <2>3. QED
    BY <1>2, <2>1, <2>2, Zenon
<1>3. CASE Reinsert(r)
  <2>1. pc[r] = "reinsert" /\ registry' = Upserted(arg[r], tid[r], old[r].active)
    BY <1>3, Zenon DEF Reinsert
  <2>2. tid[r] \in Tenant /\ arg[r] \in Issuer /\ old[r] \in OldRow
    BY <1>0, <2>1, Zenon DEF AtLabel, Admin, AdminLabels, TenantsType
  <2>3. old[r].active \in BOOLEAN
    BY <2>2, Zenon DEF OldRow
  <2>4. QED
    BY <1>3, <2>1, <2>2, <2>3, Zenon
<1>4. CASE \/ AdminRefused(r)
           \/ \E i \in Issuer : CreateTenant(r, i)
           \/ \E t \in Tenant : DeactivateRequest(r, t)
           \/ Deactivate(r)
           \/ \E t \in Tenant, i \in Issuer : RenameRequest(r, t, i)
           \/ Rename(r) \/ EvictJwks(r) \/ SubmitInvalid(r)
           \/ \E i \in Issuer : SubmitRequest(r, i)
           \/ SubmitCheck(r) \/ Submit(r)
           \/ \E g \in Reg : ApproveRequest(r, g)
           \/ \E g \in Reg : RejectRequest(r, g)
           \/ Provision(r) \/ Approve(r) \/ Reject(r)
           \/ \E g \in Reg : GetRegistration(r, g)
           \/ NoToken(r) \/ Malformed(r)
           \/ \E i \in Issuer : Resolve(r, i)
           \/ ReadJwks(r) \/ FetchJwks(r) \/ Abort(r)
  <2>1. registry' = registry
    BY <1>4, Zenon DEF AdminRefused, CreateTenant, DeactivateRequest, Deactivate, RenameRequest,
       Rename, EvictJwks, SubmitInvalid, SubmitRequest, SubmitCheck, Submit, ApproveRequest,
       RejectRequest, Provision, Approve, Reject, GetRegistration, NoToken, Malformed, Resolve,
       ReadJwks, FetchJwks, Abort, GetById, DecisionRequest, caches
  <2>2. QED
    BY <2>1, Zenon
<1>5. QED
  BY <1>1, <1>2, <1>3, <1>4, Zenon DEF Step

\* ... entry by entry.
LEMMA EntryMoves ==
    ASSUME BaseInv, NEW r \in Req, Step(r), NEW i \in Issuer
    PROVE  \/ registry'[i] = registry[i]
           \/ registry'[i].id = None /\ ~registry'[i].on
           \/ (UpsertCreated(r) \/ Reinsert(r)) /\ i = arg[r] /\ registry'[i].id = tid[r] /\ tid[r] \in Tenant
<1>0. TenantsType
  BY Zenon DEF BaseInv
<1>1. CASE registry' = registry
  BY <1>1, Zenon
<1>2. CASE old[r].oidc_issuer \in Issuer /\ registry' = Without(old[r].oidc_issuer)
  <2>1. registry'[i] = IF i = old[r].oidc_issuer THEN Nowhere ELSE registry[i]
    BY <1>0, <1>2, Zenon DEF Without, TenantsType
  <2>2. QED
    BY <2>1, NowhereIs, Zenon
<1>3. CASE /\ UpsertCreated(r) \/ Reinsert(r)
           /\ arg[r] \in Issuer /\ tid[r] \in Tenant
           /\ \E on \in BOOLEAN : registry' = Upserted(arg[r], tid[r], on)
  <2>1. PICK on \in BOOLEAN : registry' = Upserted(arg[r], tid[r], on)
    BY <1>3, Zenon
  <2>2. registry'[i] = IF i = arg[r] THEN [id |-> tid[r], on |-> on] ELSE registry[i]
    BY <1>0, <1>3, <2>1, Zenon DEF Upserted, TenantsType
  <2>3. [id |-> tid[r], on |-> on].id = tid[r]
    BY Zenon
  <2>4. CASE i # arg[r]
    BY <2>2, <2>4, Zenon
  <2>5. CASE i = arg[r]
    BY <1>3, <2>2, <2>3, <2>5, Zenon
  <2>6. QED
    BY <2>4, <2>5, Zenon
<1>4. QED
  BY <1>1, <1>2, <1>3, RegistryMoves, Zenon

LEMMA ResolveEffect ==
    ASSUME NEW r, NEW i, Resolve(r, i)
    PROVE  \/ \E a \in {"unknown_tenant", "tenant_inactive"} : Refused(r, a)
           \/ /\ registry[i].on
              /\ tid' = [tid EXCEPT ![r] = registry[i].id] /\ arg' = [arg EXCEPT ![r] = i]
              /\ Goto(r, "cached")
  BY Zenon DEF Resolve, ResolveByIssuer

LEMMA LabelStep ==
    ASSUME BaseInv, NEW r \in Req, Step(r)
    PROVE  AtLabel(r)'
<1>0. TenantsType /\ AtLabel(r) /\ r \in Tenant /\ r \in Reg /\ Entries
  BY NoneIsNot, Zenon DEF BaseInv
<1> USE DEF TenantsType, AtLabel, Admin, AdminLabels
<1>1. ASSUME AdminRefused(r) PROVE AtLabel(r)'
  BY <1>0, <1>1, NoneIsNot, Zenon DEF AdminRefused, Answer, locals, tables
<1>2. ASSUME NEW i \in Issuer, CreateTenant(r, i) PROVE AtLabel(r)'
  <2>1. pc[r] = "idle" /\ tid[r] # r /\ UNCHANGED <<reg, old, status>>
    BY <1>0, <1>2, NoneIsNot, ZenonT(30) DEF CreateTenant
  <2>2. CASE Taken(r, i)
    <3>1. pc'[r] = "done" /\ UNCHANGED <<issuer, tid>>
      BY <1>0, <1>2, <2>2, Zenon DEF CreateTenant, Answer
    <3>2. QED
      BY <1>0, <3>1, Zenon
  <2>3. CASE ~Taken(r, i)
    <3>1. pc'[r] = "upsert" /\ issuer'[r] = i /\ tid'[r] = r /\ arg'[r] = i
      BY <1>0, <1>2, <2>3, Zenon DEF CreateTenant, Goto
    <3>2. old'[r] = None /\ reg'[r] = None /\ i # None
      BY <1>0, <2>1, NoneIsNot, Zenon
    <3>3. QED
      BY <1>0, <3>1, <3>2, Zenon
  <2>4. QED
    BY <2>2, <2>3, Zenon
<1>3. ASSUME UpsertCreated(r) PROVE AtLabel(r)'
  BY <1>0, <1>3, NoneIsNot, Zenon DEF UpsertCreated, Answer, locals, tables
<1>4. ASSUME NEW t \in Tenant, DeactivateRequest(r, t) PROVE AtLabel(r)'
  <2>1. pc[r] = "idle" /\ tid[r] # r /\ UNCHANGED <<reg, issuer, status>>
    BY <1>0, <1>4, NoneIsNot, Zenon DEF DeactivateRequest, GetById, tables
  <2>2. CASE issuer[t] = None
    <3>1. pc'[r] = "done" /\ tid' = tid
      BY <1>0, <1>4, <2>2, Zenon DEF DeactivateRequest, GetById, Answer
    <3>2. QED
      BY <1>0, <2>1, <3>1, Zenon
  <2>3. CASE issuer[t] # None
    <3>1. /\ pc'[r] = "deactivate" /\ tid'[r] = t /\ arg'[r] = None
          /\ old'[r] = [oidc_issuer |-> issuer[t], active |-> t \in active]
      BY <1>0, <1>4, <2>3, Zenon DEF DeactivateRequest, GetById, Goto
    <3>2. [oidc_issuer |-> issuer[t], active |-> t \in active] \in OldRow
      BY <1>0, <2>3 DEF OldRow
    <3>3. old'[r] # None /\ t # r /\ reg'[r] = None
      BY <1>0, <2>1, <2>3, <3>1, <3>2, NoneIsNot, Zenon
    <3>4. QED
      BY <1>0, <2>1, <2>3, <3>1, <3>3, NoneIsNot, Zenon
  <2>4. QED
    BY <2>2, <2>3, Zenon
<1>5. ASSUME Deactivate(r) PROVE AtLabel(r)'
  BY <1>0, <1>5, NoneIsNot, Zenon DEF Deactivate, Goto, locals, tables
<1>6. ASSUME Invalidate(r) PROVE AtLabel(r)'
  BY <1>0, <1>6, NoneIsNot, Zenon DEF Invalidate, Answer, locals, tables
<1>7. ASSUME NEW t \in Tenant, NEW i \in Issuer, RenameRequest(r, t, i) PROVE AtLabel(r)'
  <2>1. pc[r] = "idle" /\ tid[r] # r /\ UNCHANGED <<reg, issuer, status>>
    BY <1>0, <1>7, NoneIsNot, Zenon DEF RenameRequest, GetById, tables
  <2>2. CASE issuer[t] = None
    <3>1. pc'[r] = "done" /\ tid' = tid
      BY <1>0, <1>7, <2>2, Zenon DEF RenameRequest, GetById, Answer
    <3>2. QED
      BY <1>0, <2>1, <3>1, Zenon
  <2>3. CASE issuer[t] # None
    <3>1. /\ pc'[r] = "rename" /\ tid'[r] = t /\ arg'[r] = i
          /\ old'[r] = [oidc_issuer |-> issuer[t], active |-> t \in active]
      BY <1>0, <1>7, <2>3, Zenon DEF RenameRequest, GetById, Goto
    <3>2. [oidc_issuer |-> issuer[t], active |-> t \in active] \in OldRow
      BY <1>0, <2>3 DEF OldRow
    <3>3. old'[r] # None /\ t # r /\ reg'[r] = None
      BY <1>0, <2>1, <2>3, <3>1, <3>2, NoneIsNot, Zenon
    <3>4. QED
      BY <1>0, <2>1, <2>3, <3>1, <3>3, NoneIsNot, Zenon
  <2>4. QED
    BY <2>2, <2>3, Zenon
<1>8. ASSUME Rename(r) PROVE AtLabel(r)'
  BY <1>0, <1>8, NoneIsNot, ZenonT(30) DEF Rename, Goto, Answer, locals, tables
<1>9. ASSUME RemoveOld(r) PROVE AtLabel(r)'
  BY <1>0, <1>9, NoneIsNot, Zenon DEF RemoveOld, Goto, locals, tables
<1>10. ASSUME EvictJwks(r) PROVE AtLabel(r)'
  BY <1>0, <1>10, NoneIsNot, Zenon DEF EvictJwks, Goto, locals, tables
<1>11. ASSUME Reinsert(r) PROVE AtLabel(r)'
  BY <1>0, <1>11, NoneIsNot, Zenon DEF Reinsert, Answer, locals, tables
<1>12. ASSUME SubmitInvalid(r) PROVE AtLabel(r)'
  BY <1>0, <1>12, NoneIsNot, Zenon DEF SubmitInvalid, Answer, locals, tables
<1>13. ASSUME NEW i \in Issuer, SubmitRequest(r, i) PROVE AtLabel(r)'
  <2>1. /\ pc[r] = "idle" /\ arg'[r] = i /\ UNCHANGED <<tid, reg, issuer, status>>
        /\ pc'[r] \in {"submit_check", "done"}
    BY <1>0, <1>13, Zenon DEF SubmitRequest, Goto, Answer, tables
  <2>2. QED
    BY <1>0, <2>1, NoneIsNot, Zenon
<1>14. ASSUME SubmitCheck(r) PROVE AtLabel(r)'
  <2>1. /\ pc[r] = "submit_check" /\ UNCHANGED <<tid, reg, arg, issuer, status>>
        /\ pc'[r] \in {"submit", "done"}
    BY <1>0, <1>14, Zenon DEF SubmitCheck, Goto, Answer, tables, locals
  <2>2. QED
    BY <1>0, <2>1, Zenon
<1>15. ASSUME Submit(r) PROVE AtLabel(r)'
  BY <1>0, <1>15, NoneIsNot, Zenon DEF Submit, Answer, locals, tables
<1>16. ASSUME NEW g \in Reg, ApproveRequest(r, g) PROVE AtLabel(r)'
  BY <1>0, <1>16, NoneIsNot, ZenonT(30) DEF ApproveRequest, DecisionRequest, Goto, Answer, tables
<1>17. ASSUME NEW g \in Reg, RejectRequest(r, g) PROVE AtLabel(r)'
  BY <1>0, <1>17, NoneIsNot, ZenonT(30) DEF RejectRequest, DecisionRequest, Goto, Answer, tables
<1>18. ASSUME Provision(r) PROVE AtLabel(r)'
  <2>1. pc[r] = "provision" /\ tid[r] # r /\ UNCHANGED <<reg, status>>
    BY <1>0, <1>18, NoneIsNot, Zenon DEF Provision
  <2>2. CASE Taken(r, regIssuer[reg[r]])
    <3>1. pc'[r] = "done" /\ UNCHANGED <<issuer, tid>>
      BY <1>0, <1>18, <2>2, Zenon DEF Provision, Answer
    <3>2. QED
      BY <1>0, <3>1, Zenon
  <2>3. CASE ~Taken(r, regIssuer[reg[r]])
    <3>1. pc'[r] = "approve" /\ issuer'[r] = regIssuer[reg[r]] /\ tid'[r] = r
      BY <1>0, <1>18, <2>3, Zenon DEF Provision, Goto
    <3>2. regIssuer[reg[r]] # None
      BY <1>0, <2>1 DEF BaseInv, RegRows, DecidedRows
    <3>3. QED
      BY <1>0, <2>1, <3>1, <3>2, Zenon
  <2>4. QED
    BY <2>2, <2>3, Zenon
<1>19. ASSUME Approve(r) PROVE AtLabel(r)'
  BY <1>0, <1>19, NoneIsNot, Zenon DEF Approve, Answer, locals, tables
<1>20. ASSUME Reject(r) PROVE AtLabel(r)'
  BY <1>0, <1>20, NoneIsNot, Zenon DEF Reject, Answer, locals, tables
<1>21. ASSUME NEW g \in Reg, GetRegistration(r, g) PROVE AtLabel(r)'
  BY <1>0, <1>21, NoneIsNot, Zenon DEF GetRegistration, Answer, tables
<1>22. ASSUME NoToken(r) PROVE AtLabel(r)'
  BY <1>0, <1>22, NoneIsNot, Zenon DEF NoToken, Refused, Answer, tables
<1>23. ASSUME Malformed(r) PROVE AtLabel(r)'
  BY <1>0, <1>23, NoneIsNot, Zenon DEF Malformed, Refused, Answer, tables
<1>24. ASSUME NEW i \in Issuer, Resolve(r, i) PROVE AtLabel(r)'
  <2>1. pc[r] = "idle" /\ tid[r] # r /\ UNCHANGED <<reg, issuer, status>>
    BY <1>0, <1>24, NoneIsNot, Zenon DEF Resolve, tables
  <2>2. CASE \E a \in {"unknown_tenant", "tenant_inactive"} : Refused(r, a)
    <3>1. pc'[r] = "done" /\ tid' = tid
      BY <1>0, <2>2, Zenon DEF Refused, Answer
    <3>2. QED
      BY <1>0, <2>1, <3>1, Zenon
  <2>3. CASE /\ registry[i].on
             /\ tid' = [tid EXCEPT ![r] = registry[i].id] /\ arg' = [arg EXCEPT ![r] = i]
             /\ Goto(r, "cached")
    <3>1. pc'[r] = "cached" /\ tid'[r] = registry[i].id /\ arg'[r] = i
      BY <1>0, <2>3, Zenon DEF Goto
    <3>2. registry[i].id \in Tenant \cup {None}
      BY <1>0, Zenon DEF Entry
    <3>3. registry[i].id \in Tenant /\ issuer[registry[i].id] # None
      BY <1>0, <2>3, <3>2, Zenon DEF Entries
    <3>4. registry[i].id # r
      BY <1>0, <2>1, <3>3, Zenon
    <3>5. QED
      BY <1>0, <2>1, <3>1, <3>3, <3>4, NoneIsNot, Zenon
  <2>4. QED
    BY <1>24, <2>2, <2>3, ResolveEffect, Zenon
<1>25. ASSUME ReadJwks(r) PROVE AtLabel(r)'
  <2>1. /\ pc[r] = "cached" /\ UNCHANGED <<tid, reg, arg, issuer, status>>
        /\ pc'[r] \in {"fetch", "done"}
    BY <1>0, <1>25, Zenon DEF ReadJwks, Verify, Goto, Answer, tables, locals
  <2>2. QED
    BY <1>0, <2>1, Zenon
<1>26. ASSUME FetchJwks(r) PROVE AtLabel(r)'
  BY <1>0, <1>26, NoneIsNot, ZenonT(30) DEF FetchJwks, Verify, Answer, locals, tables
<1>27. ASSUME Abort(r) PROVE AtLabel(r)'
  BY <1>0, <1>27, NoneIsNot, Zenon DEF Abort, Answer, locals, tables
<1>28. QED
  BY <1>1, <1>2, <1>3, <1>4, <1>5, <1>6, <1>7, <1>8, <1>9, <1>10, <1>11, <1>12, <1>13, <1>14,
     <1>15, <1>16, <1>17, <1>18, <1>19, <1>20, <1>21, <1>22, <1>23, <1>24, <1>25, <1>26, <1>27,
     ZenonT(30) DEF Step

LEMMA BaseStep ==
    ASSUME BaseInv, NEW r \in Req, Step(r)
    PROVE  BaseInv'
<1>0. TenantsType /\ TenantsType' /\ AtLabel(r)' /\ DecidedRows /\ Entries /\ AtLabel(r)
  BY TypeStep, LabelStep, Zenon DEF BaseInv
<1>1. ASSUME NEW q \in Req, q # r PROVE AtLabel(q)'
  <2>1. Same(q) /\ AtLabel(q) /\ q \in Tenant /\ q \in Reg
    BY <1>0, <1>1, OthersSame, NoneIsNot, Zenon DEF BaseInv
  <2>2. /\ issuer'[q] # None <=> issuer[q] # None
        /\ tid[q] \in Tenant /\ issuer[tid[q]] # None => issuer'[tid[q]] # None
        /\ status'[q] = "none" <=> status[q] = "none"
    BY <1>1, <2>1, IssuerKept, StatusMoves, Zenon
  <2>3. QED
    BY <2>1, <2>2, Zenon DEF AtLabel, Same, Admin
<1>2. DecidedRows'
  <2> SUFFICES ASSUME NEW q \in Req, reg'[q] # None, pc'[q] # "done" \/ tid'[q] = q
               PROVE  status'[reg'[q]] # "none"
    BY Zenon DEF DecidedRows
  <2>1. ASSUME reg'[q] = reg[q], pc[q] # "done" \/ tid[q] = q PROVE status'[reg'[q]] # "none"
    <3>1. status[reg[q]] # "none" /\ reg[q] \in Reg
      BY <1>0, <2>1, Zenon DEF DecidedRows, TenantsType
    <3>2. QED
      BY <2>1, <3>1, StatusMoves, Zenon
  <2>2. CASE q # r
    <3>1. Same(q)
      BY <1>0, <2>2, OthersSame, Zenon
    <3>2. QED
      BY <2>1, <3>1, Zenon DEF Same
  <2>3. CASE q = r
    <3>1. pc[r] # "done"
      BY Zenon DEF Step, AdminRefused, CreateTenant, UpsertCreated, DeactivateRequest, GetById, Deactivate,
         Invalidate, RenameRequest, Rename, RemoveOld, EvictJwks, Reinsert, SubmitInvalid, SubmitRequest,
         SubmitCheck, Submit, ApproveRequest, RejectRequest, DecisionRequest, Provision, Approve, Reject,
         GetRegistration, NoToken, Malformed, Resolve, ReadJwks, FetchJwks, Abort
    <3>2. CASE reg' = reg
      BY <2>1, <2>3, <3>1, <3>2, Zenon
    <3>3. CASE \E g \in Reg : ApproveRequest(r, g) \/ RejectRequest(r, g)
      <4>1. PICK g \in Reg, l \in {"provision", "reject"} : DecisionRequest(r, g, l)
        BY <3>3, Zenon DEF ApproveRequest, RejectRequest
      <4>2. reg'[r] = g /\ status' = status /\ tid' = tid /\ pc[r] = "idle"
        BY <1>0, <4>1, Zenon DEF DecisionRequest, TenantsType, tables
      <4>3. CASE MayDecide(g)
        BY <2>3, <4>2, <4>3, Zenon DEF MayDecide
      <4>4. CASE ~MayDecide(g)
        <5>1. pc' = [pc EXCEPT ![r] = "done"]
          BY <4>1, <4>4, Zenon DEF DecisionRequest, Answer
        <5>2. pc'[r] = "done"
          BY <1>0, <5>1, Zenon DEF TenantsType
        <5>3. tid[r] # r
          BY <1>0, <4>2, NoneIsNot, Zenon DEF AtLabel
        <5>4. QED
          BY <2>3, <4>2, <5>2, <5>3, Zenon
      <4>5. QED
        BY <4>3, <4>4, Zenon
    <3>4. CASE \E g \in Reg : GetRegistration(r, g)
      <4>1. pc'[r] = "done" /\ tid' = tid /\ pc[r] = "idle"
        BY <1>0, <3>4, Zenon DEF GetRegistration, Answer, TenantsType
      <4>2. tid[r] # r
        BY <1>0, <4>1, NoneIsNot, Zenon DEF AtLabel
      <4>3. QED
        BY <2>3, <4>1, <4>2, Zenon
    <3>5. QED
      BY <3>2, <3>3, <3>4, Zenon DEF Step, AdminRefused, CreateTenant, UpsertCreated, DeactivateRequest,
         GetById, Deactivate, Invalidate, RenameRequest, Rename, RemoveOld, EvictJwks, Reinsert,
         SubmitInvalid, SubmitRequest, SubmitCheck, Submit, Provision, Approve, Reject, NoToken,
         Malformed, Resolve, ReadJwks, FetchJwks, Abort, locals
  <2>4. QED
    BY <2>2, <2>3, Zenon
<1>3. Entries'
  <2> SUFFICES ASSUME NEW i \in Issuer
               PROVE  /\ registry'[i].id = None => ~registry'[i].on
                      /\ registry'[i].id # None => issuer'[registry'[i].id] # None
    BY Zenon DEF Entries
  <2>1. registry[i].id \in Tenant \cup {None}
    BY <1>0, Zenon DEF TenantsType, Entry
  <2>2. /\ registry[i].id = None => ~registry[i].on
        /\ registry[i].id # None => issuer[registry[i].id] # None
    BY <1>0, Zenon DEF Entries
  <2>3. CASE registry'[i] = registry[i]
    <3>1. registry[i].id # None => issuer'[registry[i].id] # None
      BY <2>1, <2>2, IssuerKept, Zenon
    <3>2. QED
      BY <2>2, <2>3, <3>1, Zenon
  <2>4. CASE registry'[i].id = None /\ ~registry'[i].on
    BY <2>4, Zenon
  <2>5. CASE (UpsertCreated(r) \/ Reinsert(r)) /\ registry'[i].id = tid[r] /\ tid[r] \in Tenant
    <3>1. pc[r] \in {"upsert", "reinsert"}
      BY <2>5, Zenon DEF UpsertCreated, Reinsert
    <3>2. issuer[tid[r]] # None
      BY <1>0, <3>1, Zenon DEF AtLabel, Admin, AdminLabels
    <3>3. issuer'[tid[r]] # None /\ tid[r] # None
      BY <2>5, <3>2, IssuerKept, NoneIsNot, Zenon
    <3>4. QED
      BY <2>5, <3>3, Zenon
  <2>6. QED
    BY <2>3, <2>4, <2>5, EntryMoves, Zenon
<1>4. OneIssuer' /\ RegRows'
  BY IssuerKept, StatusMoves, Zenon
<1>5. \A q \in Req : AtLabel(q)'
  BY <1>0, <1>1, Zenon
<1>6. QED
  BY <1>0, <1>2, <1>3, <1>4, <1>5, Zenon DEF BaseInv

LEMMA RestartBase ==
    ASSUME BaseInv, Restart
    PROVE  /\ BaseInv'
           /\ \A r \in Req : pc'[r] \in {"idle", "done"} /\ (pc'[r] = "idle" <=> pc[r] = "idle")
           /\ \/ registry' = Loaded /\ booted' = TRUE /\ torn' = {}
              \/ booted' = FALSE /\ \A i \in Issuer : registry'[i].id = None /\ ~registry'[i].on
<1>0. TenantsType /\ OneIssuer
  BY Zenon DEF BaseInv
<1>1. UNCHANGED <<issuer, active, regIssuer, status, provided, tid, reg, arg, old>>
  BY Zenon DEF Restart, tables, locals
<1>2. \A r \in Req : pc'[r] \in {"idle", "done"} /\ (pc'[r] = "idle" <=> pc[r] = "idle")
  BY Zenon DEF Restart
<1>3. \/ registry' = Loaded /\ booted' = TRUE /\ torn' = {}
      \/ booted' = FALSE /\ registry' = [i \in Issuer |-> Nowhere]
  BY Zenon DEF Restart
<1>4. registry' \in [Issuer -> Entry] /\ Entries'
  <2>1. CASE registry' = Loaded
    <3>1. registry' \in [Issuer -> Entry]
      BY <1>0, <2>1, LoadedRight, Zenon DEF TenantsType
    <3>2. \A i \in Issuer : /\ Loaded[i].id = None => ~Loaded[i].on
                            /\ Loaded[i].id # None => issuer[Loaded[i].id] = i
      BY <1>0, LoadedRight, Zenon DEF TenantsType
    <3>3. \A i \in Issuer : i # None
      BY NoneIsNot, Zenon
    <3>4. Entries'
      BY <1>1, <2>1, <3>2, <3>3, Zenon DEF Entries
    <3>5. QED
      BY <3>1, <3>4, Zenon
  <2>2. CASE registry' = [i \in Issuer |-> Nowhere]
    BY <2>2, NowhereIs, Zenon DEF Entries
  <2>3. QED
    BY <1>3, <2>1, <2>2, Zenon
<1>5. pc' \in [Req -> AdminLabels \cup OtherLabels] /\ resp' \in [Req -> Answers]
  <2>1. /\ "idle" \in AdminLabels \cup OtherLabels /\ "done" \in AdminLabels \cup OtherLabels
        /\ "lost" \in Answers
    BY Zenon DEF OtherLabels, Answers
  <2>2. QED
    BY <1>0, <2>1, Zenon DEF Restart, TenantsType
<1>6. TenantsType'
  BY <1>0, <1>1, <1>4, <1>5, Zenon DEF TenantsType
<1>7. \A r \in Req : AtLabel(r)'
  <2> SUFFICES ASSUME NEW r \in Req PROVE AtLabel(r)'
    BY Zenon
  <2>1. AtLabel(r)
    BY Zenon DEF BaseInv
  <2>2. CASE pc'[r] = "idle"
    <3>1. pc[r] = "idle"
      BY <1>2, <2>2, Zenon
    <3>2. QED
      BY <1>1, <2>1, <2>2, <3>1, Zenon DEF AtLabel, Admin, AdminLabels
  <2>3. CASE pc'[r] = "done"
    BY <1>1, <2>1, <2>3, Zenon DEF AtLabel, Admin, AdminLabels
  <2>4. QED
    BY <1>2, <2>2, <2>3, Zenon
<1>8. OneIssuer' /\ RegRows' /\ DecidedRows'
  <2>1. \A r \in Req : pc'[r] # "done" => pc[r] # "done"
    BY <1>2, Zenon
  <2>2. OneIssuer /\ RegRows /\ DecidedRows
    BY Zenon DEF BaseInv
  <2>3. QED
    BY <1>1, <2>1, <2>2, Zenon DEF OneIssuer, RegRows, DecidedRows
<1>9. BaseInv'
  BY <1>4, <1>6, <1>7, <1>8, Zenon DEF BaseInv
<1>10. booted' = FALSE /\ registry' = [i \in Issuer |-> Nowhere]
         => \A i \in Issuer : registry'[i].id = None /\ ~registry'[i].on
  BY NowhereIs, Zenon
<1>11. QED
  BY <1>2, <1>3, <1>9, <1>10, Zenon

-----------------------------------------------------------------------------
(***************************************************************************)
(* Registrations.                                                          *)
(***************************************************************************)

LEMMA StepControl ==
    ASSUME NEW r \in Req, Step(r)
    PROVE  pc[r] # "done" /\ ((\E a : Answer(r, a)) \/ \E l : Goto(r, l))
  BY Zenon DEF Step, AdminRefused, CreateTenant, UpsertCreated, DeactivateRequest, Deactivate,
     Invalidate, RenameRequest, Rename, RemoveOld, EvictJwks, Reinsert, SubmitInvalid,
     SubmitRequest, SubmitCheck, Submit, ApproveRequest, RejectRequest, Provision, Approve,
     Reject, GetRegistration, NoToken, Malformed, Resolve, ReadJwks, FetchJwks, Abort, GetById,
     DecisionRequest, Refused, Verify

\* The registration of a request is named when it arrives.
LEMMA RegMoves ==
    ASSUME BaseInv, NEW r \in Req, Step(r)
    PROVE  \/ reg' = reg
           \/ pc[r] = "idle" /\ tid' = tid /\ tid[r] # r
<1>1. CASE \E g \in Reg : ApproveRequest(r, g) \/ RejectRequest(r, g) \/ GetRegistration(r, g)
  <2>1. pc[r] = "idle" /\ tid' = tid
    BY <1>1, Zenon DEF ApproveRequest, RejectRequest, DecisionRequest, GetRegistration
  <2>2. tid[r] # r
    BY <2>1, NoneIsNot, ZenonT(30) DEF BaseInv, AtLabel
  <2>3. QED
    BY <2>1, <2>2, Zenon
<1>2. CASE \/ AdminRefused(r)
           \/ \E i \in Issuer : CreateTenant(r, i)
           \/ UpsertCreated(r)
           \/ \E t \in Tenant : DeactivateRequest(r, t)
           \/ Deactivate(r) \/ Invalidate(r)
           \/ \E t \in Tenant, i \in Issuer : RenameRequest(r, t, i)
           \/ Rename(r) \/ RemoveOld(r) \/ EvictJwks(r) \/ Reinsert(r) \/ SubmitInvalid(r)
           \/ \E i \in Issuer : SubmitRequest(r, i)
           \/ SubmitCheck(r) \/ Submit(r) \/ Provision(r) \/ Approve(r) \/ Reject(r) \/ NoToken(r)
           \/ Malformed(r)
           \/ \E i \in Issuer : Resolve(r, i)
           \/ ReadJwks(r) \/ FetchJwks(r) \/ Abort(r)
  BY <1>2, Zenon DEF AdminRefused, CreateTenant, UpsertCreated, DeactivateRequest, Deactivate,
     Invalidate, RenameRequest, Rename, RemoveOld, EvictJwks, Reinsert, SubmitInvalid,
     SubmitRequest, SubmitCheck, Submit, Provision, Approve, Reject, NoToken, Malformed,
     Resolve, ReadJwks, FetchJwks, Abort, GetById, locals
<1>3. QED
  BY <1>1, <1>2, Zenon DEF Step

\* Only get_registration tells of a decision.
LEMMA RespMoves ==
    ASSUME TenantsType, NEW r \in Req, Step(r), resp'[r] \in {"approved", "rejected"},
           resp'[r] # resp[r]
    PROVE  \E g \in Reg : GetRegistration(r, g)
<1> DEFINE Own == resp'[r] \notin {"approved", "rejected"} \/ resp'[r] = resp[r]
<1> USE DEF TenantsType
<1>1. ASSUME AdminRefused(r) PROVE Own
  BY <1>1, Zenon DEF AdminRefused, Answer
<1>2. ASSUME NEW i \in Issuer, CreateTenant(r, i) PROVE Own
  BY <1>2, Zenon DEF CreateTenant, Goto, Answer
<1>3. ASSUME UpsertCreated(r) PROVE Own
  BY <1>3, Zenon DEF UpsertCreated, Answer
<1>4. ASSUME NEW t \in Tenant, DeactivateRequest(r, t) PROVE Own
  BY <1>4, Zenon DEF DeactivateRequest, GetById, Goto, Answer
<1>5. ASSUME Deactivate(r) PROVE Own
  BY <1>5, Zenon DEF Deactivate, Goto
<1>6. ASSUME Invalidate(r) PROVE Own
  BY <1>6, Zenon DEF Invalidate, Answer
<1>7. ASSUME NEW t \in Tenant, NEW i \in Issuer, RenameRequest(r, t, i) PROVE Own
  BY <1>7, Zenon DEF RenameRequest, GetById, Goto, Answer
<1>8. ASSUME Rename(r) PROVE Own
  BY <1>8, Zenon DEF Rename, Goto, Answer
<1>9. ASSUME RemoveOld(r) PROVE Own
  BY <1>9, Zenon DEF RemoveOld, Goto
<1>10. ASSUME EvictJwks(r) PROVE Own
  BY <1>10, Zenon DEF EvictJwks, Goto
<1>11. ASSUME Reinsert(r) PROVE Own
  BY <1>11, Zenon DEF Reinsert, Answer
<1>12. ASSUME SubmitInvalid(r) PROVE Own
  BY <1>12, Zenon DEF SubmitInvalid, Answer
<1>13. ASSUME NEW i \in Issuer, SubmitRequest(r, i) PROVE Own
  BY <1>13, Zenon DEF SubmitRequest, Goto, Answer
<1>14. ASSUME SubmitCheck(r) PROVE Own
  BY <1>14, Zenon DEF SubmitCheck, Goto, Answer
<1>15. ASSUME Submit(r) PROVE Own
  BY <1>15, Zenon DEF Submit, Answer
<1>16. ASSUME NEW g \in Reg, ApproveRequest(r, g) PROVE Own
  BY <1>16, Zenon DEF ApproveRequest, DecisionRequest, Goto, Answer
<1>17. ASSUME NEW g \in Reg, RejectRequest(r, g) PROVE Own
  BY <1>17, Zenon DEF RejectRequest, DecisionRequest, Goto, Answer
<1>18. ASSUME Provision(r) PROVE Own
  BY <1>18, Zenon DEF Provision, Goto, Answer
<1>19. ASSUME Approve(r) PROVE Own
  BY <1>19, Zenon DEF Approve, Answer
<1>20. ASSUME Reject(r) PROVE Own
  BY <1>20, Zenon DEF Reject, Answer
<1>21. ASSUME NoToken(r) PROVE Own
  BY <1>21, Zenon DEF NoToken, Refused, Answer
<1>22. ASSUME Malformed(r) PROVE Own
  BY <1>22, Zenon DEF Malformed, Refused, Answer
<1>23. ASSUME NEW i \in Issuer, Resolve(r, i) PROVE Own
  BY <1>23, Zenon DEF Resolve, Refused, Goto, Answer
<1>24. ASSUME ReadJwks(r) PROVE Own
  BY <1>24, Zenon DEF ReadJwks, Verify, Goto, Answer
<1>25. ASSUME FetchJwks(r) PROVE Own
  BY <1>25, Zenon DEF FetchJwks, Verify, Answer
<1>26. ASSUME Abort(r) PROVE Own
  BY <1>26, Zenon DEF Abort, Answer
<1>27. QED
  BY <1>1, <1>2, <1>3, <1>4, <1>5, <1>6, <1>7, <1>8, <1>9, <1>10, <1>11, <1>12, <1>13, <1>14,
     <1>15, <1>16, <1>17, <1>18, <1>19, <1>20, <1>21, <1>22, <1>23, <1>24, <1>25, <1>26, Zenon
     DEF Step

\* What is decided stays so, if it was decided once.
LEMMA DecisionMoves ==
    ASSUME BaseInv, NEW r \in Req, Step(r)
    PROVE  /\ unclear \subseteq unclear'
           /\ \/ status' = status /\ provided' = provided
              \/ Submit(r) /\ status' = [status EXCEPT ![r] = "pending"] /\ status[r] = "none"
                           /\ provided' = provided
              \/ /\ Approve(r) /\ reg[r] \in Reg /\ status' = [status EXCEPT ![reg[r]] = "approved"]
                 /\ provided' = [provided EXCEPT ![reg[r]] = r] /\ tid[r] = r
              \/ /\ Reject(r) /\ reg[r] \in Reg /\ status' = [status EXCEPT ![reg[r]] = "rejected"]
                 /\ provided' = provided
<1>0. AtLabel(r) /\ TenantsType
  BY Zenon DEF BaseInv
<1>1. unclear \subseteq unclear'
  <2>1. CASE \E g \in Reg : ApproveRequest(r, g) \/ RejectRequest(r, g)
    BY <2>1, Zenon DEF ApproveRequest, RejectRequest, DecisionRequest
  <2>2. CASE Abort(r)
    BY <2>2, Zenon DEF Abort
  <2>3. CASE \/ AdminRefused(r)
             \/ \E i \in Issuer : CreateTenant(r, i)
             \/ UpsertCreated(r)
             \/ \E t \in Tenant : DeactivateRequest(r, t)
             \/ Deactivate(r) \/ Invalidate(r)
             \/ \E t \in Tenant, i \in Issuer : RenameRequest(r, t, i)
             \/ Rename(r) \/ RemoveOld(r) \/ EvictJwks(r) \/ Reinsert(r) \/ SubmitInvalid(r)
             \/ \E i \in Issuer : SubmitRequest(r, i)
             \/ SubmitCheck(r) \/ Submit(r) \/ Provision(r) \/ Approve(r) \/ Reject(r)
             \/ \E g \in Reg : GetRegistration(r, g)
             \/ NoToken(r) \/ Malformed(r)
             \/ \E i \in Issuer : Resolve(r, i)
             \/ ReadJwks(r) \/ FetchJwks(r)
    <3>1. unclear' = unclear
      BY <2>3, Zenon DEF AdminRefused, CreateTenant, UpsertCreated, DeactivateRequest,
         Deactivate, Invalidate, RenameRequest, Rename, RemoveOld, EvictJwks, Reinsert,
         SubmitInvalid, SubmitRequest, SubmitCheck, Submit, Provision, Approve, Reject,
         GetRegistration, NoToken, Malformed, Resolve, ReadJwks, FetchJwks, GetById, history
    <3>2. QED
      BY <3>1, Zenon
  <2>4. QED
    BY <2>1, <2>2, <2>3, Zenon DEF Step
<1>2. CASE Submit(r)
  <2>1. pc[r] = "submit" /\ status' = [status EXCEPT ![r] = "pending"] /\ provided' = provided
    BY <1>2, Zenon DEF Submit
  <2>2. status[r] = "none"
    BY <1>0, <2>1, Zenon DEF AtLabel
  <2>3. QED
    BY <1>1, <1>2, <2>1, <2>2, Zenon
<1>3. ASSUME Approve(r) \/ Reject(r) PROVE reg[r] \in Reg
  <2>1. pc[r] \in {"approve", "reject"}
    BY <1>3, Zenon DEF Approve, Reject
  <2>2. QED
    BY <1>0, <2>1, Zenon DEF AtLabel, TenantsType
<1>4. CASE Approve(r)
  <2>1. tid[r] = r
    BY <1>0, <1>4, Zenon DEF Approve, AtLabel
  <2>2. /\ status' = [status EXCEPT ![reg[r]] = "approved"]
        /\ provided' = [provided EXCEPT ![reg[r]] = r]
    BY <1>4, Zenon DEF Approve
  <2>3. QED
    BY <1>1, <1>3, <1>4, <2>1, <2>2, Zenon
<1>5. CASE Reject(r)
  <2>1. status' = [status EXCEPT ![reg[r]] = "rejected"] /\ provided' = provided
    BY <1>5, Zenon DEF Reject
  <2>2. QED
    BY <1>1, <1>3, <1>5, <2>1, Zenon
<1>6. CASE \/ AdminRefused(r)
           \/ \E i \in Issuer : CreateTenant(r, i)
           \/ UpsertCreated(r)
           \/ \E t \in Tenant : DeactivateRequest(r, t)
           \/ Deactivate(r) \/ Invalidate(r)
           \/ \E t \in Tenant, i \in Issuer : RenameRequest(r, t, i)
           \/ Rename(r) \/ RemoveOld(r) \/ EvictJwks(r) \/ Reinsert(r) \/ SubmitInvalid(r)
           \/ \E i \in Issuer : SubmitRequest(r, i)
           \/ SubmitCheck(r)
           \/ \E g \in Reg : ApproveRequest(r, g)
           \/ \E g \in Reg : RejectRequest(r, g)
           \/ Provision(r)
           \/ \E g \in Reg : GetRegistration(r, g)
           \/ NoToken(r) \/ Malformed(r)
           \/ \E i \in Issuer : Resolve(r, i)
           \/ ReadJwks(r) \/ FetchJwks(r) \/ Abort(r)
  <2>1. status' = status /\ provided' = provided
    BY <1>6, Zenon DEF AdminRefused, CreateTenant, UpsertCreated, DeactivateRequest, Deactivate,
       Invalidate, RenameRequest, Rename, RemoveOld, EvictJwks, Reinsert, SubmitInvalid,
       SubmitRequest, SubmitCheck, ApproveRequest, RejectRequest, Provision, GetRegistration,
       NoToken, Malformed, Resolve, ReadJwks, FetchJwks, Abort, GetById, DecisionRequest, tables
  <2>2. QED
    BY <1>1, <2>1, Zenon
<1>7. QED
  BY <1>2, <1>4, <1>5, <1>6, Zenon DEF Step

\* A tenant of a registration: it was there, or create_tenant inserts it.
LEMMA TenantMoves ==
    ASSUME BaseInv, BaseInv', NEW r \in Req, Step(r), NEW q \in Req, tid'[q] = q, reg'[q] # None
    PROVE  \/ tid[q] = q /\ reg[q] = reg'[q] /\ status[reg[q]] # "none" /\ reg[q] \in Reg
           \/ /\ q = r /\ Provision(r) /\ reg' = reg /\ regIssuer' = regIssuer /\ pc'[r] = "approve"
              /\ issuer'[r] = regIssuer[reg[r]]
<1>0. TenantsType /\ AtLabel(r) /\ AtLabel(r)' /\ TenantsType' /\ r \in Tenant /\ DecidedRows
  BY NoneIsNot, Zenon DEF BaseInv
<1>1. ASSUME tid[q] = q, reg[q] = reg'[q] PROVE status[reg[q]] # "none" /\ reg[q] \in Reg
  BY <1>0, <1>1, Zenon DEF DecidedRows, TenantsType
<1>2. CASE q # r
  BY <1>0, <1>1, <1>2, OthersSame, Zenon DEF Same
<1>3. CASE q = r /\ tid[r] = r
  <2>1. reg' = reg
    BY <1>3, RegMoves, Zenon
  <2>2. QED
    BY <1>1, <1>3, <2>1, Zenon
<1>4. CASE q = r /\ tid[r] # r
  <2>1. issuer[r] = None /\ issuer'[r] # None
    BY <1>0, <1>4, Zenon DEF AtLabel
  <2>2. CASE Provision(r)
    <3>1. ~Taken(r, regIssuer[reg[r]])
      BY <2>1, <2>2, Zenon DEF Provision
    <3>2. /\ reg' = reg /\ regIssuer' = regIssuer /\ pc' = [pc EXCEPT ![r] = "approve"]
          /\ issuer' = [issuer EXCEPT ![r] = regIssuer[reg[r]]]
      BY <2>2, <3>1, Zenon DEF Provision, Goto
    <3>3. QED
      BY <1>0, <1>4, <2>2, <3>2, Zenon DEF TenantsType
  <2>3. CASE \E i \in Issuer : CreateTenant(r, i)
    <3>1. reg' = reg /\ pc[r] = "idle"
      BY <2>3, Zenon DEF CreateTenant
    <3>2. reg[r] = None
      BY <1>0, <3>1, Zenon DEF AtLabel
    <3>3. QED
      BY <1>4, <3>1, <3>2, Zenon
  <2>4. CASE Rename(r)
    <3>1. pc[r] = "rename" /\ reg' = reg
      BY <2>4, Zenon DEF Rename, locals
    <3>2. reg[r] = None
      BY <1>0, <3>1, Zenon DEF AtLabel, Admin, AdminLabels
    <3>3. QED
      BY <1>4, <3>1, <3>2, Zenon
  <2>5. CASE \/ AdminRefused(r) \/ UpsertCreated(r)
             \/ \E t \in Tenant : DeactivateRequest(r, t)
             \/ Deactivate(r) \/ Invalidate(r)
             \/ \E t \in Tenant, i \in Issuer : RenameRequest(r, t, i)
             \/ RemoveOld(r) \/ EvictJwks(r) \/ Reinsert(r) \/ SubmitInvalid(r)
             \/ \E i \in Issuer : SubmitRequest(r, i)
             \/ SubmitCheck(r) \/ Submit(r)
             \/ \E g \in Reg : ApproveRequest(r, g)
             \/ \E g \in Reg : RejectRequest(r, g)
             \/ Approve(r) \/ Reject(r)
             \/ \E g \in Reg : GetRegistration(r, g)
             \/ NoToken(r) \/ Malformed(r)
             \/ \E i \in Issuer : Resolve(r, i)
             \/ ReadJwks(r) \/ FetchJwks(r) \/ Abort(r)
    <3>1. issuer' = issuer
      BY <2>5, Zenon DEF AdminRefused, UpsertCreated, DeactivateRequest, Deactivate, Invalidate,
         RenameRequest, RemoveOld, EvictJwks, Reinsert, SubmitInvalid, SubmitRequest,
         SubmitCheck, Submit, ApproveRequest, RejectRequest, Approve, Reject, GetRegistration,
         NoToken, Malformed, Resolve, ReadJwks, FetchJwks, Abort, GetById, DecisionRequest,
         tables
    <3>2. QED
      BY <2>1, <3>1, Zenon
  <2>6. QED
    BY <2>2, <2>3, <2>4, <2>5, Zenon DEF Step
<1>5. QED
  BY <1>2, <1>3, <1>4, Zenon

LEMMA ProvidedStep ==
    ASSUME BaseInv, BaseInv', ProvidedIssuer, NEW r \in Req, Step(r)
    PROVE  ProvidedIssuer'
<1>0. TenantsType /\ AtLabel(r)
  BY Zenon DEF BaseInv
<1>1. SUFFICES ASSUME ~renamed', NEW q \in Req, tid'[q] = q, reg'[q] # None
               PROVE  issuer'[q] = regIssuer'[reg'[q]]
  BY Zenon DEF ProvidedIssuer
<1>2. ~renamed
  <2>1. CASE Rename(r)
    BY <1>1, <2>1, Zenon DEF Rename
  <2>2. CASE \/ AdminRefused(r)
             \/ \E i \in Issuer : CreateTenant(r, i)
             \/ UpsertCreated(r)
             \/ \E t \in Tenant : DeactivateRequest(r, t)
             \/ Deactivate(r) \/ Invalidate(r)
             \/ \E t \in Tenant, i \in Issuer : RenameRequest(r, t, i)
             \/ RemoveOld(r) \/ EvictJwks(r) \/ Reinsert(r) \/ SubmitInvalid(r)
             \/ \E i \in Issuer : SubmitRequest(r, i)
             \/ SubmitCheck(r) \/ Submit(r)
             \/ \E g \in Reg : ApproveRequest(r, g)
             \/ \E g \in Reg : RejectRequest(r, g)
             \/ Provision(r) \/ Approve(r) \/ Reject(r)
             \/ \E g \in Reg : GetRegistration(r, g)
             \/ NoToken(r) \/ Malformed(r)
             \/ \E i \in Issuer : Resolve(r, i)
             \/ ReadJwks(r) \/ FetchJwks(r) \/ Abort(r)
    <3>1. renamed' = renamed
      BY <2>2, Zenon DEF AdminRefused, CreateTenant, UpsertCreated, DeactivateRequest,
         Deactivate, Invalidate, RenameRequest, RemoveOld, EvictJwks, Reinsert, SubmitInvalid,
         SubmitRequest, SubmitCheck, Submit, ApproveRequest, RejectRequest, Provision, Approve,
         Reject, GetRegistration, NoToken, Malformed, Resolve, ReadJwks, FetchJwks, Abort,
         GetById, DecisionRequest, history
    <3>2. QED
      BY <1>1, <3>1, Zenon
  <2>3. QED
    BY <2>1, <2>2, Zenon DEF Step
<1>3. CASE tid[q] = q /\ reg[q] = reg'[q] /\ status[reg[q]] # "none" /\ reg[q] \in Reg
  <2>1. regIssuer'[reg[q]] = regIssuer[reg[q]]
    BY <1>3, StatusMoves, Zenon
  <2>2. issuer[q] # None /\ q \in Tenant
    BY <1>3, NoneIsNot, Zenon DEF BaseInv, AtLabel
  <2>3. issuer'[q] = issuer[q]
    <3>1. ASSUME Rename(r) PROVE issuer' = issuer
      BY <1>1, <3>1, Zenon DEF Rename
    <3>2. CASE issuer' # issuer
      <4>1. PICK t \in Tenant, i \in Issuer : issuer' = [issuer EXCEPT ![t] = i] /\ issuer[t] = None
        BY <3>1, <3>2, IssuerMoves, ZenonT(30)
      <4>2. QED
        BY <1>0, <2>2, <4>1, Zenon DEF TenantsType
    <3>3. QED
      BY <3>2, Zenon
  <2>4. issuer[q] = regIssuer[reg[q]]
    BY <1>1, <1>2, <1>3, Zenon DEF ProvidedIssuer
  <2>5. QED
    BY <1>3, <2>1, <2>3, <2>4, Zenon
<1>4. CASE q = r /\ reg' = reg /\ regIssuer' = regIssuer /\ issuer'[r] = regIssuer[reg[r]]
  BY <1>4, Zenon
<1>5. QED
  BY <1>1, <1>3, <1>4, TenantMoves, Zenon

\* A request that decides has just begun to, or has just inserted the tenant.
LEMMA DecidingFrom ==
    ASSUME TenantsType, NEW r \in Req, Step(r), pc'[r] \in {"provision", "approve", "reject"}
    PROVE  (\E h \in Reg, l \in {"provision", "reject"} : DecisionRequest(r, h, l)) \/ Provision(r)
<1> DEFINE Own == pc'[r] \notin {"provision", "approve", "reject"}
<1> USE DEF TenantsType
<1>1. ASSUME AdminRefused(r) PROVE Own
  BY <1>1, Zenon DEF AdminRefused, Answer
<1>2. ASSUME NEW i \in Issuer, CreateTenant(r, i) PROVE Own
  BY <1>2, Zenon DEF CreateTenant, Goto, Answer
<1>3. ASSUME UpsertCreated(r) PROVE Own
  BY <1>3, Zenon DEF UpsertCreated, Answer
<1>4. ASSUME NEW t \in Tenant, DeactivateRequest(r, t) PROVE Own
  BY <1>4, Zenon DEF DeactivateRequest, GetById, Goto, Answer
<1>5. ASSUME Deactivate(r) PROVE Own
  BY <1>5, Zenon DEF Deactivate, Goto
<1>6. ASSUME Invalidate(r) PROVE Own
  BY <1>6, Zenon DEF Invalidate, Answer
<1>7. ASSUME NEW t \in Tenant, NEW i \in Issuer, RenameRequest(r, t, i) PROVE Own
  BY <1>7, Zenon DEF RenameRequest, GetById, Goto, Answer
<1>8. ASSUME Rename(r) PROVE Own
  BY <1>8, Zenon DEF Rename, Goto, Answer
<1>9. ASSUME RemoveOld(r) PROVE Own
  BY <1>9, Zenon DEF RemoveOld, Goto
<1>10. ASSUME EvictJwks(r) PROVE Own
  BY <1>10, Zenon DEF EvictJwks, Goto
<1>11. ASSUME Reinsert(r) PROVE Own
  BY <1>11, Zenon DEF Reinsert, Answer
<1>12. ASSUME SubmitInvalid(r) PROVE Own
  BY <1>12, Zenon DEF SubmitInvalid, Answer
<1>13. ASSUME NEW i \in Issuer, SubmitRequest(r, i) PROVE Own
  BY <1>13, Zenon DEF SubmitRequest, Goto, Answer
<1>14. ASSUME SubmitCheck(r) PROVE Own
  BY <1>14, Zenon DEF SubmitCheck, Goto, Answer
<1>15. ASSUME Submit(r) PROVE Own
  BY <1>15, Zenon DEF Submit, Answer
<1>16. ASSUME Approve(r) PROVE Own
  BY <1>16, Zenon DEF Approve, Answer
<1>17. ASSUME Reject(r) PROVE Own
  BY <1>17, Zenon DEF Reject, Answer
<1>18. ASSUME NEW g \in Reg, GetRegistration(r, g) PROVE Own
  BY <1>18, Zenon DEF GetRegistration, Answer
<1>19. ASSUME NoToken(r) PROVE Own
  BY <1>19, Zenon DEF NoToken, Refused, Answer
<1>20. ASSUME Malformed(r) PROVE Own
  BY <1>20, Zenon DEF Malformed, Refused, Answer
<1>21. ASSUME NEW i \in Issuer, Resolve(r, i) PROVE Own
  BY <1>21, Zenon DEF Resolve, Refused, Goto, Answer
<1>22. ASSUME ReadJwks(r) PROVE Own
  BY <1>22, Zenon DEF ReadJwks, Verify, Goto, Answer
<1>23. ASSUME FetchJwks(r) PROVE Own
  BY <1>23, Zenon DEF FetchJwks, Verify, Answer
<1>24. ASSUME Abort(r) PROVE Own
  BY <1>24, Zenon DEF Abort, Answer
<1>25. QED
  BY <1>1, <1>2, <1>3, <1>4, <1>5, <1>6, <1>7, <1>8, <1>9, <1>10, <1>11, <1>12, <1>13, <1>14,
     <1>15, <1>16, <1>17, <1>18, <1>19, <1>20, <1>21, <1>22, <1>23, <1>24, Zenon DEF Step,
     ApproveRequest, RejectRequest

\* Who decides about g after the step: who did before, or a request that has just read "pending".
LEMMA DecidingMoves ==
    ASSUME BaseInv, NEW r \in Req, Step(r), NEW q \in Req, NEW g \in Reg, Deciding(q, g)'
    PROVE  \/ Deciding(q, g)
           \/ /\ q = r /\ status[g] = "pending" /\ status' = status
              /\ g \in unclear' \/ \A p \in Req \ {r} : ~Deciding(p, g)
<1>0. TenantsType
  BY Zenon DEF BaseInv
<1>1. CASE q # r
  BY <1>0, <1>1, OthersSame, Zenon DEF Same, Deciding
<1>2. CASE q = r /\ \E h \in Reg, l \in {"provision", "reject"} : DecisionRequest(r, h, l)
  <2>1. PICK h \in Reg, l \in {"provision", "reject"} : DecisionRequest(r, h, l)
    BY <1>2, Zenon
  <2>2. reg'[r] = h /\ status' = status
    BY <1>0, <2>1, Zenon DEF DecisionRequest, TenantsType, tables
  <2>3. h = g
    BY <1>2, <2>2, Zenon DEF Deciding
  <2>4. CASE MayDecide(g)
    <3>1. unclear' = IF \E p \in Req \ {r} : Deciding(p, g) THEN unclear \cup {g} ELSE unclear
      BY <2>1, <2>3, <2>4, Zenon DEF DecisionRequest
    <3>2. g \in unclear' \/ \A p \in Req \ {r} : ~Deciding(p, g)
      BY <3>1, Zenon
    <3>3. QED
      BY <1>2, <2>2, <2>4, <3>2, Zenon DEF MayDecide
  <2>5. CASE ~MayDecide(g)
    <3>1. pc' = [pc EXCEPT ![r] = "done"]
      BY <2>1, <2>3, <2>5, Zenon DEF DecisionRequest, Answer
    <3>2. pc'[q] = "done"
      BY <1>0, <1>2, <3>1, Zenon DEF TenantsType
    <3>3. QED
      BY <3>2, Zenon DEF Deciding
  <2>6. QED
    BY <2>4, <2>5, Zenon
<1>3. CASE q = r /\ Provision(r)
  <2>1. reg' = reg /\ pc[r] = "provision"
    BY <1>3, Zenon DEF Provision
  <2>2. QED
    BY <1>3, <2>1, Zenon DEF Deciding
<1>4. CASE q = r /\ pc'[r] \notin {"provision", "approve", "reject"}
  BY <1>4, Zenon DEF Deciding
<1>5. QED
  BY <1>0, <1>1, <1>2, <1>3, <1>4, DecidingFrom, Zenon

LEMMA DecisionStep ==
    ASSUME BaseInv, BaseInv', DecisionInv, NEW r \in Req, Step(r)
    PROVE  DecisionInv'
<1>0. /\ TenantsType /\ AtLabel(r) /\ r \in Tenant /\ r \in Reg /\ unclear \subseteq unclear'
      /\ ProvisionedIsApproved /\ \A g \in Reg : Decisions(g) /\ Approved(g)
  BY DecisionMoves, NoneIsNot, Zenon DEF BaseInv, DecisionInv
<1>1. \A g \in Reg : g \notin unclear /\ status[g] \in {"approved", "rejected"} =>
                         status'[g] = status[g] /\ provided'[g] = provided[g]
  <2> SUFFICES ASSUME NEW g \in Reg, g \notin unclear, status[g] \in {"approved", "rejected"}
               PROVE  status'[g] = status[g] /\ provided'[g] = provided[g]
    BY Zenon
  <2>1. CASE status' = status /\ provided' = provided
    BY <2>1, Zenon
  <2>2. CASE status' = [status EXCEPT ![r] = "pending"] /\ status[r] = "none" /\ provided' = provided
    BY <1>0, <2>2, Zenon DEF TenantsType
  <2>3. CASE Approve(r) \/ Reject(r)
    <3>1. reg[r] # g
      <4>1. pc[r] \in {"approve", "reject"}
        BY <2>3, Zenon DEF Approve, Reject
      <4>2. Deciding(r, reg[r])
        BY <4>1, Zenon DEF Deciding
      <4>3. QED
        BY <1>0, <4>2, Zenon DEF Decisions
    <3>2. QED
      BY <1>0, <2>3, <3>1, Zenon DEF Approve, Reject, TenantsType
  <2>4. QED
    BY <2>1, <2>2, <2>3, DecisionMoves, Zenon
<1>2. ASSUME NEW g \in Reg, g \notin unclear' PROVE Decisions(g)'
  <2>1. g \notin unclear /\ Decisions(g)
    BY <1>0, <1>2, Zenon
  <2>2. ASSUME NEW p \in Req, NEW q \in Req, Deciding(p, g)', Deciding(q, g)' PROVE p = q
    BY <1>2, <2>1, <2>2, DecidingMoves, ZenonT(30) DEF Decisions
  <2>3. ASSUME NEW q \in Req, Deciding(q, g)' PROVE status'[g] = "pending"
    <3>1. status[g] = "pending"
      BY <2>1, <2>3, DecidingMoves, Zenon DEF Decisions
    <3>2. CASE Approve(r) \/ Reject(r)
      <4>1. pc[r] \in {"approve", "reject"} /\ pc'[r] = "done" /\ reg' = reg
        BY <1>0, <3>2, Zenon DEF Approve, Reject, Answer, TenantsType, locals
      <4>2. q # r
        BY <2>3, <4>1, Zenon DEF Deciding
      <4>3. Deciding(q, g)
        BY <2>3, <4>2, DecidingMoves, Zenon
      <4>4. reg[r] # g
        BY <2>1, <4>1, <4>2, <4>3, Zenon DEF Decisions, Deciding
      <4>5. QED
        BY <1>0, <3>1, <3>2, <4>4, Zenon DEF Approve, Reject, TenantsType
    <3>3. CASE status' = status
      BY <3>1, <3>3, Zenon
    <3>4. CASE status' = [status EXCEPT ![r] = "pending"]
      BY <1>0, <3>1, <3>4, Zenon DEF TenantsType
    <3>5. QED
      BY <3>2, <3>3, <3>4, DecisionMoves, Zenon
  <2>4. QED
    BY <2>2, <2>3, Zenon DEF Decisions
<1>3. ASSUME NEW g \in Reg PROVE Approved(g)'
  <2>0. Approved(g)
    BY <1>0, Zenon
  <2>1. SUFFICES ASSUME status'[g] = "approved"
                 PROVE  provided'[g] \in Req /\ issuer'[provided'[g]] # None
    BY Zenon DEF Approved
  <2>2. CASE status[g] = "approved" /\ provided'[g] = provided[g]
    BY <2>0, <2>2, IssuerKept, NoneIsNot, Zenon DEF Approved
  <2>3. CASE provided'[g] = r /\ tid[r] = r
    <3>1. issuer[r] # None
      BY <1>0, <2>3, Zenon DEF AtLabel
    <3>2. QED
      BY <1>0, <2>3, <3>1, IssuerKept, Zenon
  <2>4. CASE status' = status /\ provided' = provided
    BY <2>1, <2>2, <2>4, Zenon
  <2>5. CASE status' = [status EXCEPT ![r] = "pending"] /\ provided' = provided
    <3>1. g # r
      BY <1>0, <2>1, <2>5, Zenon DEF TenantsType
    <3>2. QED
      BY <1>0, <2>1, <2>2, <2>5, <3>1, Zenon DEF TenantsType
  <2>6. CASE /\ reg[r] \in Reg /\ status' = [status EXCEPT ![reg[r]] = "approved"]
             /\ provided' = [provided EXCEPT ![reg[r]] = r] /\ tid[r] = r
    <3>1. CASE g = reg[r]
      BY <1>0, <2>3, <2>6, <3>1, Zenon DEF TenantsType
    <3>2. CASE g # reg[r]
      <4>1. status'[g] = status[g] /\ provided'[g] = provided[g]
        BY <1>0, <2>6, <3>2, Zenon DEF TenantsType
      <4>2. QED
        BY <2>1, <2>2, <4>1, Zenon
    <3>3. QED
      BY <3>1, <3>2, Zenon
  <2>7. CASE reg[r] \in Reg /\ status' = [status EXCEPT ![reg[r]] = "rejected"] /\ provided' = provided
    <3>1. g # reg[r]
      BY <1>0, <2>1, <2>7, Zenon DEF TenantsType
    <3>2. status'[g] = status[g]
      BY <1>0, <2>7, <3>1, Zenon DEF TenantsType
    <3>3. QED
      BY <2>1, <2>2, <2>7, <3>2, Zenon
  <2>8. QED
    BY <2>4, <2>5, <2>6, <2>7, DecisionMoves, Zenon
<1>4. ASSUME NEW q \in Req PROVE Told(q)'
  <2>0. Told(q) /\ Unanswered
    BY Zenon DEF DecisionInv
  <2>1. SUFFICES ASSUME resp'[q] \in {"approved", "rejected"}, reg'[q] \notin unclear'
                 PROVE  reg'[q] \in Reg /\ status'[reg'[q]] = resp'[q]
    BY Zenon DEF Told
  <2>2. CASE q # r
    <3>1. resp'[q] = resp[q] /\ reg'[q] = reg[q]
      BY <1>0, <2>2, OthersSame, Zenon DEF Same
    <3>2. reg[q] \in Reg /\ status[reg[q]] = resp[q] /\ reg[q] \notin unclear
      BY <1>0, <2>0, <2>1, <3>1, Zenon DEF Told
    <3>3. status'[reg[q]] = status[reg[q]]
      BY <1>1, <2>1, <3>1, <3>2, Zenon
    <3>4. QED
      BY <3>1, <3>2, <3>3, Zenon
  <2>3. CASE q = r
    <3>1. resp[r] = "none"
      BY <2>0, StepControl, Zenon DEF Unanswered
    <3>2. PICK g \in Reg : GetRegistration(r, g)
      BY <1>0, <2>1, <2>3, <3>1, RespMoves, Zenon
    <3>3. reg'[r] = g /\ status' = status
      BY <1>0, <3>2, Zenon DEF GetRegistration, TenantsType, tables
    <3>4. resp'[r] \in {"invalid_token", "not_found", status[g]}
      BY <1>0, <3>2, Zenon DEF GetRegistration, Answer, TenantsType
    <3>5. resp'[r] = status[g]
      BY <2>1, <2>3, <3>4, Zenon
    <3>6. QED
      BY <2>3, <3>3, <3>5, Zenon
  <2>4. QED
    BY <2>2, <2>3, Zenon
<1>5. ProvisionedIsApproved'
  <2> SUFFICES ASSUME NEW q \in Req, tid'[q] = q, reg'[q] # None, reg'[q] \notin unclear'
               PROVE  \/ pc'[q] = "approve" \/ resp'[q] \in {"database", "lost"}
                      \/ status'[reg'[q]] = "approved" /\ provided'[reg'[q]] = q
    BY Zenon DEF ProvisionedIsApproved
  <2>1. CASE q = r /\ pc'[r] = "approve"
    BY <2>1, Zenon
  <2>2. CASE tid[q] = q /\ reg[q] = reg'[q] /\ reg[q] \in Reg
    <3>1. \/ pc[q] = "approve" \/ resp[q] \in {"database", "lost"}
          \/ status[reg[q]] = "approved" /\ provided[reg[q]] = q
      BY <1>0, <2>2, NoneIsNot, Zenon DEF ProvisionedIsApproved
    <3>2. CASE status[reg[q]] = "approved" /\ provided[reg[q]] = q
      BY <1>0, <1>1, <2>2, <3>2, Zenon
    <3>3. CASE pc[q] = "approve" /\ q # r
      BY <1>0, <3>3, OthersSame, Zenon DEF Same
    <3>4. CASE pc[q] = "approve" /\ q = r
      <4>1. CASE Approve(r)
        BY <1>0, <2>2, <3>4, <4>1, Zenon DEF Approve, TenantsType
      <4>2. CASE Abort(r)
        BY <1>0, <3>4, <4>2, Zenon DEF Abort, Answer, TenantsType
      <4>3. QED
        BY <3>4, <4>1, <4>2, Zenon DEF Step, AdminRefused, CreateTenant, UpsertCreated, DeactivateRequest,
           GetById, Deactivate, Invalidate, RenameRequest, Rename, RemoveOld, EvictJwks, Reinsert,
           SubmitInvalid, SubmitRequest, SubmitCheck, Submit, ApproveRequest, RejectRequest,
           DecisionRequest, Provision, Reject, GetRegistration, NoToken, Malformed, Resolve, ReadJwks,
           FetchJwks
    <3>5. CASE resp[q] \in {"database", "lost"}
      <4>1. q # r
        <5>1. Unanswered
          BY Zenon DEF DecisionInv
        <5>2. QED
          BY <3>5, <5>1, StepControl, Zenon DEF Unanswered
      <4>2. QED
        BY <1>0, <3>5, <4>1, OthersSame, Zenon DEF Same
    <3>6. QED
      BY <3>1, <3>2, <3>3, <3>4, <3>5, Zenon
  <2>3. QED
    BY <2>1, <2>2, TenantMoves, Zenon
<1>6. ProvidedIssuer'
  BY ProvidedStep, Zenon DEF DecisionInv
<1>7. Unanswered'
  <2> SUFFICES ASSUME NEW q \in Req, pc'[q] # "done" PROVE resp'[q] = "none"
    BY Zenon DEF Unanswered
  <2>0. Unanswered
    BY Zenon DEF DecisionInv
  <2>1. CASE q # r
    BY <1>0, <2>0, <2>1, OthersSame, Zenon DEF Same, Unanswered
  <2>2. CASE q = r
    <3>1. ~\E a : Answer(r, a)
      BY <1>0, <2>2, Zenon DEF Answer, TenantsType
    <3>2. resp' = resp
      BY <3>1, StepControl, Zenon DEF Goto
    <3>3. QED
      BY <2>0, <2>2, <3>2, StepControl, Zenon DEF Unanswered
  <2>3. QED
    BY <2>1, <2>2, Zenon
<1>8. \A g \in Reg : Decisions(g)'
  BY <1>2, Zenon DEF Decisions
<1>9. QED
  BY <1>3, <1>4, <1>5, <1>6, <1>7, <1>8, Zenon DEF DecisionInv

\* A restart answers none of the approvals it cuts off.
LEMMA RestartDecision ==
    ASSUME BaseInv, BaseInv', DecisionInv, Restart
    PROVE  DecisionInv'
<1>0. TenantsType /\ DecisionInv
  BY Zenon DEF BaseInv
<1>1. /\ UNCHANGED <<issuer, regIssuer, status, provided, tid, reg>> /\ renamed' = renamed
      /\ unclear' = unclear
  BY Zenon DEF Restart, tables, locals
<1>2. \A r \in Req : pc'[r] \in {"idle", "done"} /\ (pc'[r] = "idle" <=> pc[r] = "idle")
  BY RestartBase, Zenon
<1>3. \A r \in Req : /\ resp'[r] \in {resp[r], "lost"}
                     /\ pc[r] = "idle" => resp'[r] = resp[r]
  BY Zenon DEF Restart
<1>4. \A r \in Req : /\ pc[r] = "approve" => resp'[r] = "lost"
                     /\ resp[r] \in {"database", "lost"} => resp'[r] \in {"database", "lost"}
  BY <1>3, Zenon DEF Restart
<1>5. ProvidedIssuer'
  BY <1>0, <1>1, Zenon DEF DecisionInv, ProvidedIssuer
<1>6. Unanswered'
  BY <1>0, <1>2, <1>3, Zenon DEF DecisionInv, Unanswered
<1>7. \A g \in Reg : Decisions(g)' /\ Approved(g)'
  <2>1. \A q \in Req, g \in Reg : ~Deciding(q, g)'
    BY <1>2, Zenon DEF Deciding
  <2>2. QED
    BY <1>0, <1>1, <2>1, Zenon DEF DecisionInv, Decisions, Approved
<1>8. ASSUME NEW r \in Req PROVE Told(r)'
  <2>1. resp'[r] \in {"approved", "rejected"} => resp'[r] = resp[r]
    BY <1>3, Zenon
  <2>2. Told(r)
    BY <1>0, Zenon DEF DecisionInv
  <2>3. QED
    BY <1>1, <2>1, <2>2, Zenon DEF Told
<1>9. ProvisionedIsApproved'
  BY <1>0, <1>1, <1>4, Zenon DEF DecisionInv, ProvisionedIsApproved
<1>10. QED
  BY <1>5, <1>6, <1>7, <1>8, <1>9, Zenon DEF DecisionInv

-----------------------------------------------------------------------------
(***************************************************************************)
(* The registry.                                                           *)
(***************************************************************************)

\* The registry after upsert, and after invalidate.
Written(i, t, on) ==
    /\ registry'[i].id = t /\ (registry'[i].on <=> on)
    /\ \A j \in Issuer \ {i} : registry'[j] = registry[j]

Removed(i) == registry'[i].id = None /\ \A j \in Issuer \ {i} : registry'[j] = registry[j]

\* The steps of an admin request, as far as the table and the registry are concerned, ...
Upserting(r) ==
    /\ pc[r] = "upsert" /\ pc'[r] = "done" /\ UNCHANGED <<issuer, active, torn>>
    /\ arg[r] \in Issuer /\ Written(arg[r], tid[r], TRUE)

Deactivating(r) ==
    /\ pc[r] = "deactivate" /\ pc'[r] = "invalidate" /\ UNCHANGED <<issuer, registry, torn>>
    /\ active' = active \ {tid[r]}

Invalidating(r) ==
    /\ pc[r] = "invalidate" /\ pc'[r] = "done" /\ UNCHANGED <<issuer, active, torn>>
    /\ old[r].oidc_issuer \in Issuer /\ Removed(old[r].oidc_issuer)

Renaming(r) ==
    /\ pc[r] = "rename" /\ pc'[r] = "replace" /\ UNCHANGED <<active, registry, torn>>
    /\ arg[r] \in Issuer /\ ~Taken(tid[r], arg[r]) /\ issuer' = [issuer EXCEPT ![tid[r]] = arg[r]]

Removing(r) ==
    /\ pc[r] = "replace" /\ pc'[r] = "evict" /\ UNCHANGED <<issuer, active, torn>>
    /\ old[r].oidc_issuer \in Issuer /\ Removed(old[r].oidc_issuer)

Evicting(r) ==
    pc[r] = "evict" /\ pc'[r] = "reinsert" /\ UNCHANGED <<issuer, active, registry, torn>>

Reinserting(r) ==
    /\ pc[r] = "reinsert" /\ pc'[r] = "done" /\ UNCHANGED <<issuer, active, torn>>
    /\ arg[r] \in Issuer /\ Written(arg[r], tid[r], old[r].active)

Stopping(r) ==
    /\ pc'[r] = "done" /\ UNCHANGED <<issuer, active, registry>> /\ torn \subseteq torn'
    /\ pc[r] \in {"deactivate", "rename"} \/ tid[r] \in torn'

\* ... and of the others: nobody who is at work on the same tenant or issuers goes unnoticed.
Noticed(r) ==
    \A p \in Req \ {r} :
        Admin(p) /\ (tid[p] = tid'[r] \/ \E j \in Issuer : j \in Names(p) /\ j \in Names(r)') =>
            tid'[r] \in torn' /\ tid[p] \in torn'

Creating(r) ==
    /\ pc[r] = "idle" /\ pc'[r] = "upsert" /\ registry' = registry /\ torn \subseteq torn' /\ Noticed(r)
    /\ arg'[r] \in Issuer /\ ~Taken(r, arg'[r]) /\ issuer' = [issuer EXCEPT ![r] = arg'[r]]
    /\ active' = active \cup {r} /\ tid'[r] = r /\ arg'[r] \in Names(r)' /\ issuer[r] = None

Reading(r) ==
    /\ pc[r] = "idle" /\ pc'[r] \in {"deactivate", "rename"} /\ torn \subseteq torn' /\ Noticed(r)
    /\ UNCHANGED <<issuer, active, registry>>
    /\ tid'[r] \in Tenant /\ issuer[tid'[r]] # None /\ old'[r] # None
    /\ old'[r].oidc_issuer = issuer[tid'[r]] /\ (old'[r].active <=> tid'[r] \in active)
    /\ issuer[tid'[r]] \in Names(r)'

Providing(r) ==
    /\ pc'[r] = "approve" /\ UNCHANGED <<registry, torn>> /\ reg'[r] # None
    /\ \E i \in Issuer : ~Taken(r, i) /\ issuer' = [issuer EXCEPT ![r] = i]
    /\ active' = active \cup {r} /\ tid'[r] = r /\ issuer[r] = None

Elsewhere(r) == ~Admin(r)' /\ UNCHANGED <<issuer, active, registry, torn>>

LEMMA RegistryEffect ==
    ASSUME TenantsType, NEW i \in Issuer
    PROVE  /\ registry' = Without(i) => Removed(i)
           /\ \A t, on : registry' = Upserted(i, t, on) => Written(i, t, on)
<1>1. ASSUME registry' = Without(i) PROVE Removed(i)
  <2>1. registry'[i] = Nowhere /\ \A j \in Issuer \ {i} : registry'[j] = registry[j]
    BY <1>1, Zenon DEF Without, TenantsType
  <2>2. QED
    BY <2>1, NowhereIs, Zenon DEF Removed
<1>2. ASSUME NEW t, NEW on, registry' = Upserted(i, t, on) PROVE Written(i, t, on)
  <2>1. registry'[i] = [id |-> t, on |-> on] /\ \A j \in Issuer \ {i} : registry'[j] = registry[j]
    BY <1>2, Zenon DEF Upserted, TenantsType
  <2>2. [id |-> t, on |-> on].id = t /\ ([id |-> t, on |-> on].on <=> on)
    BY Zenon
  <2>3. QED
    BY <2>1, <2>2, Zenon DEF Written
<1>3. QED
  BY <1>1, <1>2, Zenon

LEMMA AdminStep ==
    ASSUME BaseInv, NEW r \in Req, Step(r), Admin(r)
    PROVE  /\ UNCHANGED <<tid, arg, old, reg>> /\ booted' = booted /\ tid[r] \in Tenant /\ issuer[tid[r]] # None
           /\ \/ Upserting(r) \/ Deactivating(r) \/ Invalidating(r) \/ Renaming(r) \/ Removing(r)
              \/ Evicting(r) \/ Reinserting(r) \/ Stopping(r)
<1> DEFINE Own == /\ UNCHANGED <<tid, arg, old, reg>> /\ booted' = booted
                  /\ \/ Upserting(r) \/ Deactivating(r) \/ Invalidating(r) \/ Renaming(r) \/ Removing(r)
                     \/ Evicting(r) \/ Reinserting(r) \/ Stopping(r)
<1>0. TenantsType /\ AtLabel(r) /\ tid[r] \in Tenant /\ issuer[tid[r]] # None
  BY Zenon DEF BaseInv, AtLabel
<1>1. ASSUME UpsertCreated(r) PROVE Own
  <2>1. /\ UNCHANGED <<tid, arg, old, reg, issuer, active, torn>> /\ booted' = booted /\ pc[r] = "upsert"
        /\ registry' = Upserted(arg[r], r, TRUE) /\ pc'[r] = "done"
    BY <1>0, <1>1, Zenon DEF UpsertCreated, Answer, TenantsType, tables, locals, history
  <2>2. arg[r] \in Issuer /\ tid[r] = r
    BY <1>0, <2>1, Zenon DEF AtLabel, TenantsType
  <2>3. Written(arg[r], tid[r], TRUE)
    BY <1>0, <2>1, <2>2, RegistryEffect, Zenon
  <2>4. QED
    BY <2>1, <2>2, <2>3, Zenon DEF Upserting
<1>2. ASSUME Deactivate(r) PROVE Own
  BY <1>0, <1>2, Zenon DEF Deactivate, Goto, TenantsType, caches, locals, history, Deactivating
<1>3. ASSUME Invalidate(r) PROVE Own
  <2>1. /\ UNCHANGED <<tid, arg, old, reg, issuer, active, torn>> /\ booted' = booted /\ pc[r] = "invalidate"
        /\ registry' = Without(old[r].oidc_issuer) /\ pc'[r] = "done"
    BY <1>0, <1>3, Zenon DEF Invalidate, Answer, TenantsType, tables, locals, history
  <2>2. old[r].oidc_issuer \in Issuer
    BY <1>0, <2>1, Zenon DEF AtLabel, TenantsType, OldRow
  <2>3. Removed(old[r].oidc_issuer)
    BY <1>0, <2>1, <2>2, RegistryEffect, Zenon
  <2>4. QED
    BY <2>1, <2>2, <2>3, Zenon DEF Invalidating
<1>4. ASSUME Rename(r) PROVE Own
  <2>0. UNCHANGED <<tid, arg, old, reg, active, registry, torn>> /\ booted' = booted /\ pc[r] = "rename"
    BY <1>4, Zenon DEF Rename, caches, locals
  <2>1. CASE Taken(tid[r], arg[r])
    <3>1. issuer' = issuer /\ pc'[r] = "done"
      BY <1>0, <1>4, <2>1, Zenon DEF Rename, Answer, TenantsType
    <3>2. QED
      BY <2>0, <3>1, Zenon DEF Stopping
  <2>2. CASE ~Taken(tid[r], arg[r])
    <3>1. issuer' = [issuer EXCEPT ![tid[r]] = arg[r]] /\ pc'[r] = "replace"
      BY <1>0, <1>4, <2>2, Zenon DEF Rename, Goto, TenantsType
    <3>2. arg[r] \in Issuer
      BY <1>0, <2>0, Zenon DEF AtLabel, TenantsType
    <3>3. QED
      BY <2>0, <2>2, <3>1, <3>2, Zenon DEF Renaming
  <2>3. QED
    BY <2>1, <2>2, Zenon
<1>5. ASSUME RemoveOld(r) PROVE Own
  <2>1. /\ UNCHANGED <<tid, arg, old, reg, issuer, active, torn>> /\ booted' = booted /\ pc[r] = "replace"
        /\ registry' = Without(old[r].oidc_issuer) /\ pc'[r] = "evict"
    BY <1>0, <1>5, Zenon DEF RemoveOld, Goto, TenantsType, tables, locals, history
  <2>2. old[r].oidc_issuer \in Issuer
    BY <1>0, <2>1, Zenon DEF AtLabel, TenantsType, OldRow
  <2>3. Removed(old[r].oidc_issuer)
    BY <1>0, <2>1, <2>2, RegistryEffect, Zenon
  <2>4. QED
    BY <2>1, <2>2, <2>3, Zenon DEF Removing
<1>6. ASSUME EvictJwks(r) PROVE Own
  BY <1>0, <1>6, Zenon DEF EvictJwks, Goto, TenantsType, tables, locals, Evicting
<1>7. ASSUME Reinsert(r) PROVE Own
  <2>1. /\ UNCHANGED <<tid, arg, old, reg, issuer, active, torn>> /\ booted' = booted /\ pc[r] = "reinsert"
        /\ registry' = Upserted(arg[r], tid[r], old[r].active) /\ pc'[r] = "done"
    BY <1>0, <1>7, Zenon DEF Reinsert, Answer, TenantsType, tables, locals, history
  <2>2. arg[r] \in Issuer
    BY <1>0, <2>1, Zenon DEF AtLabel, TenantsType
  <2>3. Written(arg[r], tid[r], old[r].active)
    BY <1>0, <2>1, <2>2, RegistryEffect, Zenon
  <2>4. QED
    BY <2>1, <2>2, <2>3, Zenon DEF Reinserting
<1>8. ASSUME Abort(r) PROVE Own
  <2>1. UNCHANGED <<tid, arg, old, reg, issuer, active, registry>> /\ booted' = booted /\ pc'[r] = "done"
    BY <1>0, <1>8, Zenon DEF Abort, Answer, TenantsType, tables, caches, locals
  <2>2. torn \subseteq torn' /\ (pc[r] \in {"upsert", "invalidate", "replace"} => tid[r] \in torn')
    BY <1>8, Zenon DEF Abort
  <2>3. pc[r] \in {"upsert", "invalidate", "replace", "deactivate", "rename"}
    BY <1>8, Zenon DEF Abort, Admin, AdminLabels
  <2>4. QED
    BY <2>1, <2>2, <2>3, Zenon DEF Stopping
<1>9. Own
  BY <1>1, <1>2, <1>3, <1>4, <1>5, <1>6, <1>7, <1>8, Zenon DEF Step, Admin, AdminLabels,
     AdminRefused, CreateTenant, DeactivateRequest, RenameRequest, SubmitInvalid, SubmitRequest,
     SubmitCheck, Submit, ApproveRequest, RejectRequest, Provision, Approve, Reject,
     GetRegistration, NoToken, Malformed, Resolve, ReadJwks, FetchJwks, GetById, DecisionRequest
<1>10. QED
  BY <1>0, <1>9, Zenon

LEMMA TornMet ==
    ASSUME NEW r \in Req, NEW t, NEW S, torn' = TornBy(r, t, S)
    PROVE  /\ torn \subseteq torn'
           /\ \A p \in Req \ {r} : Meets(p, t, S) => t \in torn' /\ tid[p] \in torn'
<1> DEFINE met == {q \in Req \ {r} : Meets(q, t, S)}
<1>1. torn' = IF met = {} THEN torn ELSE torn \cup {t} \cup {tid[q] : q \in met}
  BY Zenon DEF TornBy
<1>2. torn \subseteq torn'
  BY <1>1, Zenon
<1>3. ASSUME NEW p \in Req \ {r}, Meets(p, t, S) PROVE t \in torn' /\ tid[p] \in torn'
  <2>1. p \in met
    BY <1>3, Zenon
  <2>2. torn' = torn \cup {t} \cup {tid[q] : q \in met}
    BY <1>1, <2>1, Zenon
  <2>3. tid[p] \in {tid[q] : q \in met}
    BY <2>1, Zenon
  <2> HIDE DEF met
  <2>4. QED
    BY <2>2, <2>3, Zenon
<1>4. QED
  BY <1>2, <1>3, Zenon

LEMMA CreateEffect ==
    ASSUME BaseInv, NEW r \in Req, NEW i \in Issuer, CreateTenant(r, i)
    PROVE  Creating(r) \/ Elsewhere(r)
<1>0. TenantsType /\ AtLabel(r) /\ r \in Tenant
  BY NoneIsNot, Zenon DEF BaseInv
<1>1. pc[r] = "idle" /\ UNCHANGED <<registry, old>>
  BY Zenon DEF CreateTenant, caches
<1>2. CASE Taken(r, i)
  <2>1. UNCHANGED <<issuer, active, torn>> /\ pc'[r] = "done"
    BY <1>0, <1>2, Zenon DEF CreateTenant, Answer, TenantsType
  <2>2. QED
    BY <1>1, <2>1, Zenon DEF Elsewhere, Admin, AdminLabels
<1>3. CASE ~Taken(r, i)
  <2>1. /\ issuer' = [issuer EXCEPT ![r] = i] /\ active' = active \cup {r}
        /\ tid'[r] = r /\ arg'[r] = i /\ torn' = TornBy(r, r, {i}) /\ pc'[r] = "upsert"
    BY <1>0, <1>3, Zenon DEF CreateTenant, Goto, TenantsType
  <2>2. old'[r] = None /\ tid[r] # r
    BY <1>0, <1>1, NoneIsNot, Zenon DEF AtLabel
  <2>3. issuer[r] = None
    BY <1>0, <2>2, Zenon DEF AtLabel
  <2>4. Names(r)' = {i}
    BY <2>1, <2>2, Zenon DEF Names
  <2>5. torn \subseteq torn' /\ Noticed(r)
    <3>1. ASSUME NEW p \in Req \ {r}, Admin(p), tid[p] = r \/ \E j \in Issuer : j \in Names(p) /\ j \in {i}
          PROVE  Meets(p, r, {i})
      BY <3>1, Zenon DEF Meets, Names, Admin, AdminLabels
    <3>2. QED
      BY <2>1, <2>4, <3>1, TornMet, Zenon DEF Noticed
  <2>6. QED
    BY <1>1, <1>3, <2>1, <2>3, <2>4, <2>5, Zenon DEF Creating
<1>4. QED
  BY <1>2, <1>3, Zenon

LEMMA ReadEffect ==
    ASSUME BaseInv, NEW r \in Req, NEW t \in Tenant, NEW i \in Issuer \cup {None},
           NEW l \in {"deactivate", "rename"}, GetById(r, t, i, l)
    PROVE  Reading(r) \/ Elsewhere(r)
<1>0. TenantsType /\ AtLabel(r) /\ r \in Tenant
  BY NoneIsNot, Zenon DEF BaseInv
<1>1. pc[r] = "idle" /\ UNCHANGED <<issuer, active, registry>>
  BY Zenon DEF GetById, caches, tables
<1>2. CASE issuer[t] = None
  <2>1. torn' = torn /\ pc'[r] = "done"
    BY <1>0, <1>2, Zenon DEF GetById, Answer, TenantsType
  <2>2. QED
    BY <1>1, <2>1, Zenon DEF Elsewhere, Admin, AdminLabels
<1>3. CASE issuer[t] # None
  <2> DEFINE row == [oidc_issuer |-> issuer[t], active |-> t \in active]
             S == {issuer[t], i} \ {None}
  <2>1. tid'[r] = t /\ arg'[r] = i /\ old'[r] = row /\ torn' = TornBy(r, t, S) /\ pc'[r] = l
    BY <1>0, <1>3, Zenon DEF GetById, Goto, TenantsType
  <2>2. row \in OldRow /\ row.oidc_issuer = issuer[t]
    BY <1>0, <1>3 DEF TenantsType, OldRow
  <2>3. row.active <=> t \in active
    BY Zenon
  <2>4. row # None
    BY <2>2, NoneIsNot, Zenon
  <2> HIDE DEF row
  <2>5. Names(r)' = {i, issuer[t]}
    BY <2>1, <2>2, <2>4, Zenon DEF Names
  <2>6. ASSUME NEW p \in Req \ {r}, Admin(p),
               tid[p] = t \/ \E j \in Issuer : j \in Names(p) /\ j \in {i, issuer[t]}
        PROVE  Meets(p, t, S)
    <3>1. \A j \in Issuer : j \in {i, issuer[t]} => j \in S
      BY NoneIsNot, Zenon
    <3> HIDE DEF S
    <3>2. tid[p] = t \/ arg[p] \in S \/ (old[p] # None /\ old[p].oidc_issuer \in S)
      BY <2>6, <3>1, Zenon DEF Names
    <3>3. QED
      BY <2>6, <3>2, Zenon DEF Meets, Admin, AdminLabels
  <2> HIDE DEF S
  <2>7. torn \subseteq torn' /\ Noticed(r)
    BY <2>1, <2>5, <2>6, TornMet, Zenon DEF Noticed
  <2>8. QED
    BY <1>1, <1>3, <2>1, <2>2, <2>3, <2>4, <2>5, <2>7, Zenon DEF Reading
<1>4. QED
  BY <1>2, <1>3, Zenon

LEMMA ProvisionEffect ==
    ASSUME BaseInv, NEW r \in Req, Provision(r)
    PROVE  Providing(r) \/ Elsewhere(r)
<1> DEFINE i == regIssuer[reg[r]]
<1>0. TenantsType /\ AtLabel(r) /\ r \in Tenant
  BY NoneIsNot, Zenon DEF BaseInv
<1>1. pc[r] = "provision" /\ UNCHANGED <<registry, torn, reg>>
  BY Zenon DEF Provision, caches, history
<1>2. CASE Taken(r, i)
  <2>1. UNCHANGED <<issuer, active>> /\ pc'[r] = "done"
    BY <1>0, <1>2, Zenon DEF Provision, Answer, TenantsType
  <2>2. QED
    BY <1>1, <2>1, Zenon DEF Elsewhere, Admin, AdminLabels
<1>3. CASE ~Taken(r, i)
  <2>1. /\ issuer' = [issuer EXCEPT ![r] = i] /\ active' = active \cup {r}
        /\ tid'[r] = r /\ pc'[r] = "approve"
    BY <1>0, <1>3, Zenon DEF Provision, Goto, TenantsType
  <2>2. tid[r] # r /\ reg[r] # None
    BY <1>0, <1>1, NoneIsNot, Zenon DEF AtLabel
  <2>3. issuer[r] = None
    BY <1>0, <2>2, Zenon DEF AtLabel
  <2>4. i \in Issuer
    BY <1>0, <1>1, <2>2, Zenon DEF BaseInv, RegRows, DecidedRows, TenantsType
  <2> HIDE DEF i
  <2>5. QED
    BY <1>1, <1>3, <2>1, <2>2, <2>3, <2>4, Zenon DEF Providing
<1>4. QED
  BY <1>2, <1>3, Zenon

LEMMA OtherStep ==
    ASSUME BaseInv, NEW r \in Req, Step(r), ~Admin(r)
    PROVE  booted' = booted /\ (Creating(r) \/ Reading(r) \/ Providing(r) \/ Elsewhere(r))
<1> DEFINE Own == booted' = booted /\ (Creating(r) \/ Reading(r) \/ Providing(r) \/ Elsewhere(r))
<1>0. TenantsType
  BY Zenon DEF BaseInv
<1>1. ASSUME NEW i \in Issuer, CreateTenant(r, i) PROVE Own
  BY <1>1, CreateEffect, Zenon DEF CreateTenant
<1>2. ASSUME NEW t \in Tenant, DeactivateRequest(r, t) PROVE Own
  <2>1. GetById(r, t, None, "deactivate")
    BY <1>2, Zenon DEF DeactivateRequest
  <2>2. Reading(r) \/ Elsewhere(r)
    BY <2>1, ReadEffect, Zenon
  <2>3. booted' = booted
    BY <2>1, Zenon DEF GetById
  <2>4. QED
    BY <2>2, <2>3, Zenon
<1>3. ASSUME NEW t \in Tenant, NEW i \in Issuer, RenameRequest(r, t, i) PROVE Own
  <2>1. GetById(r, t, i, "rename")
    BY <1>3, Zenon DEF RenameRequest
  <2>2. Reading(r) \/ Elsewhere(r)
    BY <2>1, ReadEffect, Zenon
  <2>3. booted' = booted
    BY <2>1, Zenon DEF GetById
  <2>4. QED
    BY <2>2, <2>3, Zenon
<1>4. ASSUME Provision(r) PROVE Own
  BY <1>4, ProvisionEffect, Zenon DEF Provision, history
<1>5. ASSUME Abort(r) PROVE Own
  <2>1. /\ UNCHANGED <<issuer, active, registry>> /\ booted' = booted /\ pc'[r] = "done"
    BY <1>0, <1>5, Zenon DEF Abort, Answer, TenantsType, tables, caches
  <2>2. torn' = torn
    BY <1>5, Zenon DEF Abort, Admin, AdminLabels
  <2>3. QED
    BY <2>1, <2>2, Zenon DEF Elsewhere, Admin, AdminLabels
<1>6. ASSUME AdminRefused(r) PROVE Own
  <2>1. UNCHANGED <<issuer, active, registry, torn>> /\ booted' = booted
    BY <1>6, Zenon DEF AdminRefused, tables, caches, history
  <2>2. ~Admin(r)'
    BY <1>0, <1>6, Zenon DEF AdminRefused, Answer, TenantsType, Admin, AdminLabels
  <2>3. QED
    BY <2>1, <2>2, Zenon DEF Elsewhere
<1>7. ASSUME SubmitInvalid(r) PROVE Own
  <2>1. UNCHANGED <<issuer, active, registry, torn>> /\ booted' = booted
    BY <1>7, Zenon DEF SubmitInvalid, tables, caches, history
  <2>2. ~Admin(r)'
    BY <1>0, <1>7, Zenon DEF SubmitInvalid, Answer, TenantsType, Admin, AdminLabels
  <2>3. QED
    BY <2>1, <2>2, Zenon DEF Elsewhere
<1>8. ASSUME NEW i \in Issuer, SubmitRequest(r, i) PROVE Own
  <2>1. UNCHANGED <<issuer, active, registry, torn>> /\ booted' = booted
    BY <1>8, Zenon DEF SubmitRequest, tables, caches, history
  <2>2. ~Admin(r)'
    BY <1>0, <1>8, Zenon DEF SubmitRequest, Goto, Answer, TenantsType, Admin, AdminLabels
  <2>3. QED
    BY <2>1, <2>2, Zenon DEF Elsewhere
<1>9. ASSUME SubmitCheck(r) PROVE Own
  <2>1. UNCHANGED <<issuer, active, registry, torn>> /\ booted' = booted
    BY <1>9, Zenon DEF SubmitCheck, tables, caches, history
  <2>2. ~Admin(r)'
    BY <1>0, <1>9, Zenon DEF SubmitCheck, Goto, Answer, TenantsType, Admin, AdminLabels
  <2>3. QED
    BY <2>1, <2>2, Zenon DEF Elsewhere
<1>10. ASSUME Submit(r) PROVE Own
  <2>1. UNCHANGED <<issuer, active, registry, torn>> /\ booted' = booted
    BY <1>10, Zenon DEF Submit, tables, caches, history
  <2>2. ~Admin(r)'
    BY <1>0, <1>10, Zenon DEF Submit, Answer, TenantsType, Admin, AdminLabels
  <2>3. QED
    BY <2>1, <2>2, Zenon DEF Elsewhere
<1>11. ASSUME NEW g \in Reg, ApproveRequest(r, g) PROVE Own
  <2>1. UNCHANGED <<issuer, active, registry, torn>> /\ booted' = booted
    BY <1>11, Zenon DEF ApproveRequest, DecisionRequest, tables, caches, history
  <2>2. ~Admin(r)'
    BY <1>0, <1>11, Zenon DEF ApproveRequest, DecisionRequest, Goto, Answer, TenantsType, Admin,
       AdminLabels
  <2>3. QED
    BY <2>1, <2>2, Zenon DEF Elsewhere
<1>12. ASSUME NEW g \in Reg, RejectRequest(r, g) PROVE Own
  <2>1. UNCHANGED <<issuer, active, registry, torn>> /\ booted' = booted
    BY <1>12, Zenon DEF RejectRequest, DecisionRequest, tables, caches, history
  <2>2. ~Admin(r)'
    BY <1>0, <1>12, Zenon DEF RejectRequest, DecisionRequest, Goto, Answer, TenantsType, Admin,
       AdminLabels
  <2>3. QED
    BY <2>1, <2>2, Zenon DEF Elsewhere
<1>13. ASSUME Approve(r) PROVE Own
  <2>1. UNCHANGED <<issuer, active, registry, torn>> /\ booted' = booted
    BY <1>13, Zenon DEF Approve, tables, caches, history
  <2>2. ~Admin(r)'
    BY <1>0, <1>13, Zenon DEF Approve, Answer, TenantsType, Admin, AdminLabels
  <2>3. QED
    BY <2>1, <2>2, Zenon DEF Elsewhere
<1>14. ASSUME Reject(r) PROVE Own
  <2>1. UNCHANGED <<issuer, active, registry, torn>> /\ booted' = booted
    BY <1>14, Zenon DEF Reject, tables, caches, history
  <2>2. ~Admin(r)'
    BY <1>0, <1>14, Zenon DEF Reject, Answer, TenantsType, Admin, AdminLabels
  <2>3. QED
    BY <2>1, <2>2, Zenon DEF Elsewhere
<1>15. ASSUME NEW g \in Reg, GetRegistration(r, g) PROVE Own
  <2>1. UNCHANGED <<issuer, active, registry, torn>> /\ booted' = booted
    BY <1>15, Zenon DEF GetRegistration, tables, caches, history
  <2>2. ~Admin(r)'
    BY <1>0, <1>15, Zenon DEF GetRegistration, Answer, TenantsType, Admin, AdminLabels
  <2>3. QED
    BY <2>1, <2>2, Zenon DEF Elsewhere
<1>16. ASSUME NoToken(r) PROVE Own
  <2>1. UNCHANGED <<issuer, active, registry, torn>> /\ booted' = booted
    BY <1>16, Zenon DEF NoToken, tables, caches, history
  <2>2. ~Admin(r)'
    BY <1>0, <1>16, Zenon DEF NoToken, Refused, Answer, TenantsType, Admin, AdminLabels
  <2>3. QED
    BY <2>1, <2>2, Zenon DEF Elsewhere
<1>17. ASSUME Malformed(r) PROVE Own
  <2>1. UNCHANGED <<issuer, active, registry, torn>> /\ booted' = booted
    BY <1>17, Zenon DEF Malformed, tables, caches, history
  <2>2. ~Admin(r)'
    BY <1>0, <1>17, Zenon DEF Malformed, Refused, Answer, TenantsType, Admin, AdminLabels
  <2>3. QED
    BY <2>1, <2>2, Zenon DEF Elsewhere
<1>18. ASSUME NEW i \in Issuer, Resolve(r, i) PROVE Own
  <2>1. UNCHANGED <<issuer, active, registry, torn>> /\ booted' = booted
    BY <1>18, Zenon DEF Resolve, tables, caches, history
  <2>2. ~Admin(r)'
    BY <1>0, <1>18, Zenon DEF Resolve, Refused, Goto, Answer, TenantsType, Admin, AdminLabels
  <2>3. QED
    BY <2>1, <2>2, Zenon DEF Elsewhere
<1>19. ASSUME ReadJwks(r) PROVE Own
  <2>1. UNCHANGED <<issuer, active, registry, torn>> /\ booted' = booted
    BY <1>19, Zenon DEF ReadJwks, tables, caches, history
  <2>2. ~Admin(r)'
    BY <1>0, <1>19, Zenon DEF ReadJwks, Verify, Goto, Answer, TenantsType, Admin, AdminLabels
  <2>3. QED
    BY <2>1, <2>2, Zenon DEF Elsewhere
<1>20. ASSUME FetchJwks(r) PROVE Own
  <2>1. UNCHANGED <<issuer, active, registry, torn>> /\ booted' = booted
    BY <1>20, Zenon DEF FetchJwks, tables, caches, history
  <2>2. ~Admin(r)'
    BY <1>0, <1>20, Zenon DEF FetchJwks, Verify, Answer, TenantsType, Admin, AdminLabels
  <2>3. QED
    BY <2>1, <2>2, Zenon DEF Elsewhere
<1>21. ASSUME UpsertCreated(r) \/ Deactivate(r) \/ Invalidate(r) \/ Rename(r) \/ RemoveOld(r) \/ EvictJwks(r)
             \/ Reinsert(r)
      PROVE  Own
  BY <1>21, Zenon DEF UpsertCreated, Deactivate, Invalidate, Rename, RemoveOld, EvictJwks,
     Reinsert, Admin, AdminLabels
<1>22. QED
  BY <1>1, <1>2, <1>3, <1>4, <1>5, <1>6, <1>7, <1>8, <1>9, <1>10, <1>11, <1>12, <1>13, <1>14,
     <1>15, <1>16, <1>17, <1>18, <1>19, <1>20, <1>21, Zenon DEF Step

LEMMA TornGrows ==
    ASSUME BaseInv, NEW r \in Req, Step(r)
    PROVE  torn \subseteq torn'
  BY AdminStep, OtherStep, Zenon DEF Upserting, Deactivating, Invalidating, Renaming, Removing, Evicting,
     Reinserting, Stopping, Creating, Reading, Providing, Elsewhere

LEMMA RegSame ==
    ASSUME BaseInv, NEW r \in Req, Step(r), NEW s \in Req, issuer[s] # None
    PROVE  reg'[s] = reg[s]
<1>0. TenantsType /\ AtLabel(r)
  BY Zenon DEF BaseInv
<1>1. CASE s # r
  BY <1>0, <1>1, OthersSame, Zenon DEF Same
<1>2. CASE s = r
  <2>1. tid[r] = r
    BY <1>0, <1>2, Zenon DEF AtLabel
  <2>2. QED
    BY <2>1, RegMoves, Zenon
<1>3. QED
  BY <1>1, <1>2, Zenon

\* An admin request after the step: it was one before, or it has just arrived.
LEMMA AdminAfter ==
    ASSUME BaseInv, NEW r \in Req, Step(r), NEW q \in Req, Admin(q)'
    PROVE  \/ /\ Admin(q) /\ tid'[q] = tid[q] /\ arg'[q] = arg[q] /\ old'[q] = old[q]
              /\ Names(q)' = Names(q)
           \/ q = r /\ ~Admin(r) /\ (Creating(r) \/ Reading(r))
<1>0. TenantsType
  BY Zenon DEF BaseInv
<1>1. CASE q # r
  BY <1>0, <1>1, OthersSame, Zenon DEF Same, Admin, Names
<1>2. CASE q = r /\ Admin(r)
  <2>1. UNCHANGED <<tid, arg, old>>
    BY <1>2, AdminStep, Zenon
  <2>2. QED
    BY <1>2, <2>1, Zenon DEF Names
<1>3. CASE q = r /\ ~Admin(r)
  <2>1. ~Elsewhere(r)
    BY <1>3, Zenon DEF Elsewhere
  <2>2. ~Providing(r)
    BY <1>3, Zenon DEF Providing, Admin, AdminLabels
  <2>3. QED
    BY <1>3, <2>1, <2>2, OtherStep, Zenon
<1>4. QED
  BY <1>1, <1>2, <1>3, Zenon

\* A step that is not of an admin request about t leaves t alone.
LEMMA Undisturbed ==
    ASSUME BaseInv, NEW r \in Req, Step(r), NEW t \in Tenant, issuer[t] # None,
           ~(Admin(r) /\ tid[r] = t)
    PROVE  /\ issuer'[t] = issuer[t] /\ (t \in active' <=> t \in active)
           /\ \A i \in Issuer : registry'[i].id = t => registry'[i] = registry[i]
<1> DEFINE Own == /\ issuer'[t] = issuer[t] /\ (t \in active' <=> t \in active)
                  /\ \A i \in Issuer : registry'[i].id = t => registry'[i] = registry[i]
<1>0. TenantsType /\ t # None
  BY NoneIsNot, Zenon DEF BaseInv
<1>1. CASE Admin(r)
  <2>0. tid[r] # t /\ tid[r] \in Tenant
    BY <1>1, AdminStep, Zenon
  <2>1. ASSUME UNCHANGED <<issuer, active>>, \E i \in Issuer : Removed(i) PROVE Own
    BY <1>0, <2>1, Zenon DEF Removed
  <2>2. ASSUME UNCHANGED <<issuer, active>>, NEW i \in Issuer, NEW on, Written(i, tid[r], on) PROVE Own
    BY <2>0, <2>2, Zenon DEF Written
  <2>3. ASSUME Deactivating(r) PROVE Own
    BY <2>0, <2>3, Zenon DEF Deactivating
  <2>4. ASSUME Renaming(r) PROVE Own
    BY <1>0, <2>0, <2>4, Zenon DEF Renaming, TenantsType
  <2>5. ASSUME Evicting(r) \/ Stopping(r) PROVE Own
    BY <2>5, Zenon DEF Evicting, Stopping
  <2>6. ASSUME Upserting(r) \/ Reinserting(r) PROVE Own
    BY <2>2, <2>6, Zenon DEF Upserting, Reinserting
  <2>7. ASSUME Invalidating(r) \/ Removing(r) PROVE Own
    BY <2>1, <2>7, Zenon DEF Invalidating, Removing
  <2>8. QED
    BY <1>1, <2>3, <2>4, <2>5, <2>6, <2>7, AdminStep, Zenon
<1>2. CASE ~Admin(r)
  <2>1. ASSUME NEW i \in Issuer, issuer' = [issuer EXCEPT ![r] = i], active' = active \cup {r},
               issuer[r] = None, registry' = registry
        PROVE  Own
    <3>1. t # r
      BY <2>1, Zenon
    <3>2. QED
      BY <1>0, <2>1, <3>1, Zenon DEF TenantsType
  <2>2. ASSUME Creating(r) \/ Providing(r) PROVE Own
    BY <2>1, <2>2, Zenon DEF Creating, Providing
  <2>3. ASSUME Reading(r) \/ Elsewhere(r) PROVE Own
    BY <2>3, Zenon DEF Reading, Elsewhere
  <2>4. QED
    BY <1>2, <2>2, <2>3, OtherStep, Zenon
<1>3. QED
  BY <1>1, <1>2, Zenon

LEMMA ApartStep ==
    ASSUME BaseInv, NEW r \in Req, Step(r), NEW p \in Req, NEW q \in Req, Apart(p, q)
    PROVE  Apart(p, q)'
<1> SUFFICES ASSUME Admin(p)', Admin(q)', p # q,
                    tid'[p] = tid'[q] \/ \E i \in Issuer : i \in Names(p)' /\ i \in Names(q)'
             PROVE  tid'[p] \in torn' /\ tid'[q] \in torn'
  BY Zenon DEF Apart
<1>1. CASE /\ Admin(p) /\ tid'[p] = tid[p] /\ Names(p)' = Names(p)
           /\ Admin(q) /\ tid'[q] = tid[q] /\ Names(q)' = Names(q)
  <2>1. tid[p] = tid[q] \/ \E i \in Issuer : i \in Names(p) /\ i \in Names(q)
    BY <1>1, Zenon
  <2>2. QED
    BY <1>1, <2>1, TornGrows, Zenon DEF Apart
<1>2. ASSUME NEW o \in Req, o # r, Admin(o), tid'[o] = tid[o], Names(o)' = Names(o),
             Creating(r) \/ Reading(r),
             tid'[r] = tid'[o] \/ \E i \in Issuer : i \in Names(o)' /\ i \in Names(r)'
      PROVE  tid'[r] \in torn' /\ tid'[o] \in torn'
  <2>1. tid[o] = tid'[r] \/ \E i \in Issuer : i \in Names(o) /\ i \in Names(r)'
    BY <1>2, Zenon
  <2>2. Noticed(r)
    BY <1>2, Zenon DEF Creating, Reading
  <2>3. QED
    BY <1>2, <2>1, <2>2, Zenon DEF Noticed
<1>3. CASE p = r /\ (Creating(r) \/ Reading(r))
  <2>1. Admin(q) /\ tid'[q] = tid[q] /\ Names(q)' = Names(q) /\ q # r
    BY <1>3, AdminAfter, Zenon
  <2>2. QED
    BY <1>2, <1>3, <2>1, Zenon
<1>4. CASE q = r /\ (Creating(r) \/ Reading(r))
  <2>1. Admin(p) /\ tid'[p] = tid[p] /\ Names(p)' = Names(p) /\ p # r
    BY <1>4, AdminAfter, Zenon
  <2>2. QED
    BY <1>2, <1>4, <2>1, Zenon
<1>5. QED
  BY <1>1, <1>3, <1>4, AdminAfter, Zenon

LEMMA SilentKept ==
    ASSUME BaseInv, NEW r \in Req, Step(r), NEW s \in Tenant, issuer[s] # None, Silent(s),
           ~(Reading(r) /\ ~Admin(r) /\ tid'[r] = s)
    PROVE  Silent(s)'
<1>1. ~(Admin(r) /\ tid[r] = s) /\ s \in Req
  BY Zenon DEF Silent
<1>2. reg'[s] # None
  BY <1>1, RegSame, Zenon DEF Silent
<1>3. ASSUME NEW i \in Issuer PROVE registry'[i].id # s
  <2>1. registry'[i].id = s => registry'[i] = registry[i]
    BY <1>1, Undisturbed, Zenon
  <2>2. registry[i].id # s
    BY Zenon DEF Silent
  <2>3. QED
    BY <2>1, <2>2, Zenon
<1>4. ASSUME NEW q \in Req, Admin(q)' PROVE tid'[q] # s
  <2>1. CASE Admin(q) /\ tid'[q] = tid[q]
    BY <2>1, Zenon DEF Silent
  <2>2. CASE q = r /\ ~Admin(r) /\ Reading(r)
    BY <2>2, Zenon
  <2>3. CASE q = r /\ ~Admin(r) /\ Creating(r)
    BY <2>3, Zenon DEF Creating
  <2>4. QED
    BY <1>4, <2>1, <2>2, <2>3, AdminAfter, Zenon
<1>5. QED
  BY <1>1, <1>2, <1>3, <1>4, Zenon DEF Silent

\* The issuers an admin request writes about, which Alone keeps for it.
Claims(r, i) ==
    \/ pc[r] # "upsert" /\ i = old[r].oidc_issuer
    \/ pc[r] \in {"upsert", "replace", "evict", "reinsert"} /\ i = arg[r]

LEMMA AloneClaims ==
    ASSUME NEW r, Admin(r), Alone(r), NEW s \in Tenant, s \notin torn, s # tid[r], Claims(r, issuer[s])
    PROVE  Silent(s)
  BY Zenon DEF Alone, Claims

LEMMA AloneStep ==
    ASSUME BaseInv, BaseInv', RegistryInv, NEW r \in Req, Step(r), NEW q \in Req
    PROVE  Alone(q)'
<1>0. TenantsType /\ OneIssuer /\ Alone(q) /\ torn \subseteq torn' /\ (\A o \in Req : Apart(o, q) /\ Apart(q, o))
  BY TornGrows, Zenon DEF BaseInv, RegistryInv
<1>1. SUFFICES ASSUME Admin(q)', NEW s \in Tenant, s \notin torn', s # tid'[q], Claims(q, issuer[s])'
               PROVE  Silent(s)'
  BY Zenon DEF Alone, Claims
<1>2. issuer'[s] \in Issuer /\ issuer'[s] \in Names(q)'
  <2>1. TenantsType' /\ AtLabel(q)'
    BY Zenon DEF BaseInv
  <2>2. CASE pc'[q] # "upsert" /\ issuer'[s] = old'[q].oidc_issuer
    <3>1. old'[q] \in OldRow /\ old'[q] # None
      BY <1>1, <2>1, <2>2, Zenon DEF AtLabel, TenantsType
    <3>2. QED
      BY <2>2, <3>1, Zenon DEF Names, OldRow
  <2>3. CASE pc'[q] \in {"upsert", "replace", "evict", "reinsert"} /\ issuer'[s] = arg'[q]
    <3>1. arg'[q] \in Issuer
      BY <2>1, <2>3, Zenon DEF AtLabel, TenantsType
    <3>2. QED
      BY <2>3, <3>1, Zenon DEF Names
  <2>4. QED
    BY <1>1, <2>2, <2>3, Zenon DEF Claims
<1>3. CASE issuer'[s] # issuer[s]
  <2>1. PICK t \in Tenant, i \in Issuer :
               /\ ~Taken(t, i) /\ issuer' = [issuer EXCEPT ![t] = i]
               /\ \/ t = r /\ issuer[r] = None /\ tid'[r] = r /\ pc[r] \in {"idle", "provision"}
                  \/ Rename(r) /\ t = tid[r] /\ i = arg[r] /\ issuer[t] # None
    BY <1>3, IssuerMoves, Zenon
  <2>2. t = s /\ i = issuer'[s]
    BY <1>0, <1>3, <2>1, Zenon DEF TenantsType
  <2>3. CASE Rename(r) /\ t = tid[r] /\ i = arg[r]
    <3>1. Admin(r) /\ i \in Names(r)
      BY <2>3, Zenon DEF Rename, Admin, AdminLabels, Names
    <3>2. tid' = tid
      BY <3>1, AdminStep, Zenon
    <3>3. q # r
      BY <1>1, <2>2, <2>3, <3>2, Zenon
    <3>4. Admin(q) /\ Names(q)' = Names(q)
      BY <1>1, <3>3, AdminAfter, Zenon
    <3>5. tid[r] \in torn
      BY <1>0, <1>2, <2>2, <3>1, <3>3, <3>4, Zenon DEF Apart
    <3>6. QED
      BY <1>0, <1>1, <2>2, <2>3, <3>5, Zenon
  <2>4. CASE t = r /\ issuer[r] = None /\ tid'[r] = r
    <3>1. q # r
      BY <1>1, <2>2, <2>4, Zenon
    <3>2. Admin(q) /\ Names(q)' = Names(q) /\ tid'[q] = tid[q]
      BY <1>1, <3>1, AdminAfter, Zenon
    <3>3. ~Admin(r) /\ issuer' # issuer
      BY <1>3, <2>1, <2>4, AdminStep, Zenon
    <3>4. CASE Creating(r)
      <4>1. arg'[r] = i
        BY <1>0, <2>1, <2>4, <3>4, NoneIsNot, Zenon DEF Creating, TenantsType
      <4>2. tid'[r] \in torn'
        BY <1>2, <2>2, <3>1, <3>2, <3>4, <4>1, Zenon DEF Creating, Noticed
      <4>3. QED
        BY <1>1, <2>2, <2>4, <4>2, Zenon
    <3>5. CASE Providing(r)
      <4>1. s \in Req /\ s = r /\ reg'[s] # None /\ registry' = registry /\ s # None
        BY <2>2, <2>4, <3>5, NoneIsNot, Zenon DEF Providing
      <4>2. \A j \in Issuer : registry'[j].id # s
        BY <2>4, <4>1, Zenon DEF BaseInv, Entries
      <4>3. ASSUME NEW o \in Req, Admin(o)' PROVE tid'[o] # s
        <5>1. ~Admin(r)'
          BY <3>5, Zenon DEF Providing, Admin, AdminLabels
        <5>2. Admin(o) /\ tid'[o] = tid[o]
          BY <4>3, <5>1, AdminAfter, Zenon
        <5>3. issuer[tid[o]] # None
          BY <5>2, Zenon DEF BaseInv, AtLabel
        <5>4. QED
          BY <2>4, <4>1, <5>2, <5>3, Zenon
      <4>4. QED
        BY <4>1, <4>2, <4>3, Zenon DEF Silent
    <3>6. QED
      BY <3>3, <3>4, <3>5, OtherStep, Zenon DEF Reading, Elsewhere
  <2>5. QED
    BY <2>1, <2>3, <2>4, Zenon
<1>4. CASE issuer'[s] = issuer[s]
  <2>0. issuer[s] # None /\ s \notin torn
    BY <1>0, <1>1, <1>2, <1>4, NoneIsNot, Zenon
  <2>1. CASE /\ Admin(q) /\ tid'[q] = tid[q] /\ arg'[q] = arg[q] /\ old'[q] = old[q]
             /\ Names(q)' = Names(q) /\ Claims(q, issuer[s])
    <3>1. Silent(s)
      BY <1>0, <1>1, <2>0, <2>1, AloneClaims, Zenon
    <3>2. ~(Reading(r) /\ ~Admin(r) /\ tid'[r] = s)
      <4> SUFFICES ASSUME Reading(r), ~Admin(r), tid'[r] = s PROVE FALSE
        BY Zenon
      <4>1. q # r
        BY <2>1, Zenon
      <4>2. issuer[s] \in Names(r)' /\ issuer[s] \in Names(q) /\ issuer[s] \in Issuer
        BY <1>2, <1>4, <2>1, Zenon DEF Reading
      <4>3. tid'[r] \in torn'
        BY <2>1, <4>1, <4>2, Zenon DEF Reading, Noticed
      <4>4. QED
        BY <1>1, <4>3, Zenon
    <3>3. QED
      BY <2>0, <3>1, <3>2, SilentKept, Zenon
  <2>2. CASE q = r /\ ~Admin(r) /\ Creating(r)
    <3>1. pc'[r] = "upsert" /\ ~Taken(r, arg'[r]) /\ tid'[r] = r
      BY <2>2, Zenon DEF Creating
    <3>2. issuer'[s] = arg'[r] /\ s # r
      BY <1>1, <2>2, <3>1, Zenon DEF Claims
    <3>3. QED
      BY <1>4, <3>1, <3>2, Zenon DEF Taken
  <2>3. CASE q = r /\ ~Admin(r) /\ Reading(r)
    <3>1. /\ pc'[r] \in {"deactivate", "rename"} /\ old'[r].oidc_issuer = issuer[tid'[r]]
          /\ tid'[r] \in Tenant
      BY <2>3, Zenon DEF Reading
    <3>2. issuer'[s] = issuer[tid'[r]]
      BY <1>1, <2>3, <3>1, Zenon DEF Claims
    <3>3. QED
      BY <1>0, <1>1, <1>4, <2>0, <2>3, <3>1, <3>2, Zenon DEF OneIssuer
  <2>4. CASE /\ Admin(q) /\ tid'[q] = tid[q] /\ arg'[q] = arg[q] /\ old'[q] = old[q]
             /\ ~Claims(q, issuer[s])
    <3>1. q = r
      <4> SUFFICES ASSUME q # r PROVE FALSE
        BY Zenon
      <4>1. pc'[q] = pc[q]
        BY <1>0, OthersSame, Zenon DEF Same
      <4>2. QED
        BY <1>1, <1>4, <2>4, <4>1, Zenon DEF Claims
    <3>2. pc'[r] \in AdminLabels
      BY <1>1, <3>1, Zenon DEF Admin
    <3>3. Renaming(r)
      <4>1. CASE Deactivating(r) \/ Removing(r) \/ Evicting(r)
        BY <1>1, <1>4, <2>4, <3>1, <4>1, Zenon DEF Claims, Deactivating, Removing, Evicting
      <4>2. CASE Upserting(r) \/ Invalidating(r) \/ Reinserting(r) \/ Stopping(r)
        BY <3>2, <4>2, Zenon DEF AdminLabels, Upserting, Invalidating, Reinserting, Stopping
      <4>3. QED
        BY <2>4, <3>1, <4>1, <4>2, AdminStep, Zenon
    <3>4. issuer'[s] = arg[r] /\ s # tid[r]
      BY <1>1, <1>4, <2>4, <3>1, <3>3, Zenon DEF Claims, Renaming
    <3>5. QED
      BY <1>4, <3>3, <3>4, Zenon DEF Renaming, Taken
  <2>5. QED
    BY <1>1, <2>1, <2>2, <2>3, <2>4, AdminAfter, Zenon
<1>5. QED
  BY <1>3, <1>4, Zenon

\* No other admin request is at work on the tenant of one, unless it is torn.
LEMMA OnlyOne ==
    ASSUME RegistryInv, NEW q \in Req, NEW r \in Req, Admin(q), Admin(r), tid[q] = tid[r], tid[q] \notin torn
    PROVE  q = r
  BY Zenon DEF RegistryInv, Apart

LEMMA KnowsStep ==
    ASSUME BaseInv, RegistryInv, NEW r \in Req, Step(r), NEW q \in Req
    PROVE  Knows(q)'
<1>0. TenantsType /\ AtLabel(q) /\ Knows(q) /\ torn \subseteq torn' /\ Entries
  BY TornGrows, Zenon DEF BaseInv, RegistryInv
<1>1. SUFFICES ASSUME Admin(q)', tid'[q] \notin torn' PROVE Knows(q)'
  BY Zenon DEF Knows
<1>2. CASE Admin(q) /\ q # r
  <2>1. Same(q) /\ tid'[q] = tid[q] /\ tid[q] \notin torn
    BY <1>0, <1>1, <1>2, OthersSame, Zenon DEF Same
  <2>2. tid[q] \in Tenant /\ issuer[tid[q]] # None /\ ~(Admin(r) /\ tid[r] = tid[q])
    BY <1>0, <1>2, <2>1, OnlyOne, Zenon DEF AtLabel
  <2>3. /\ issuer'[tid[q]] = issuer[tid[q]] /\ (tid[q] \in active' <=> tid[q] \in active)
        /\ \A i \in Issuer : registry'[i].id = tid[q] => registry[i].id = tid[q]
    <3>1. /\ issuer'[tid[q]] = issuer[tid[q]] /\ (tid[q] \in active' <=> tid[q] \in active)
          /\ \A i \in Issuer : registry'[i].id = tid[q] => registry'[i] = registry[i]
      BY <2>2, Undisturbed, Zenon
    <3>2. QED
      BY <3>1, Zenon
  <2>4. pc'[q] = pc[q] /\ arg'[q] = arg[q] /\ old'[q] = old[q]
    BY <2>1, Zenon DEF Same
  <2>5. QED
    BY <1>0, <1>2, <2>1, <2>3, <2>4, Zenon DEF Knows, NoEntry
<1>3. CASE Admin(q) /\ q = r
  <2>0. /\ UNCHANGED <<tid, arg, old>> /\ tid[r] \in Tenant /\ tid[r] \notin torn /\ pc'[r] # "done"
        /\ tid[r] # None
    <3>1. UNCHANGED <<tid, arg, old>> /\ tid[r] \in Tenant
      BY <1>3, AdminStep, Zenon
    <3>2. pc'[r] # "done"
      BY <1>1, <1>3, Zenon DEF Admin, AdminLabels
    <3>3. QED
      BY <1>0, <1>1, <1>3, <3>1, <3>2, NoneIsNot, Zenon
  <2>1. CASE Deactivating(r)
    <3>1. /\ pc[r] = "deactivate" /\ pc'[r] = "invalidate" /\ issuer' = issuer
          /\ active' = active \ {tid[r]}
      BY <2>1, Zenon DEF Deactivating
    <3>2. issuer[tid[r]] = old[r].oidc_issuer
      BY <1>0, <1>3, <2>0, <3>1, Zenon DEF Knows
    <3>3. issuer'[tid'[r]] = old'[r].oidc_issuer /\ tid'[r] \notin active'
      BY <2>0, <3>1, <3>2, Zenon
    <3>4. QED
      BY <1>3, <3>1, <3>3, Zenon DEF Knows
  <2>2. CASE Renaming(r)
    <3>1. /\ pc[r] = "rename" /\ pc'[r] = "replace" /\ active' = active /\ registry' = registry
          /\ issuer'[tid[r]] = arg[r]
      BY <1>0, <2>0, <2>2, Zenon DEF Renaming, TenantsType
    <3>2. issuer[tid[r]] = old[r].oidc_issuer /\ (old[r].active <=> tid[r] \in active)
      BY <1>0, <1>3, <2>0, <3>1, Zenon DEF Knows
    <3>3. ASSUME NEW i \in Issuer, registry[i].id = tid[r] PROVE i = old[r].oidc_issuer
      <4>1. ~ \E p \in Req : tid[p] = tid[r] /\ pc[p] = "replace" /\ old[p].oidc_issuer = i
        <5> SUFFICES ASSUME NEW p \in Req, tid[p] = tid[r], pc[p] = "replace" PROVE FALSE
          BY Zenon
        <5>1. Admin(p)
          BY Zenon DEF Admin, AdminLabels
        <5>2. p = r
          BY <1>3, <2>0, <5>1, OnlyOne, Zenon
        <5>3. QED
          BY <3>1, <5>2, Zenon
      <4>2. EntryRight(tid[r])
        BY <2>0, Zenon DEF RegistryInv
      <4>3. QED
        BY <3>2, <3>3, <4>1, <4>2, Zenon DEF EntryRight
    <3>4. /\ issuer'[tid'[r]] = arg'[r] /\ (old'[r].active <=> tid'[r] \in active')
          /\ \A i \in Issuer : registry'[i].id = tid'[r] => i = old'[r].oidc_issuer
      BY <2>0, <3>1, <3>2, <3>3, Zenon
    <3>5. QED
      BY <1>3, <3>1, <3>4, Zenon DEF Knows
  <2>3. CASE Removing(r)
    <3>1. /\ pc[r] = "replace" /\ pc'[r] = "evict" /\ issuer' = issuer /\ active' = active
          /\ Removed(old[r].oidc_issuer)
      BY <2>3, Zenon DEF Removing
    <3>2. /\ issuer[tid[r]] = arg[r] /\ (old[r].active <=> tid[r] \in active)
          /\ \A i \in Issuer : registry[i].id = tid[r] => i = old[r].oidc_issuer
      BY <1>0, <1>3, <2>0, <3>1, Zenon DEF Knows
    <3>3. \A i \in Issuer : registry'[i].id # tid[r]
      BY <2>0, <3>1, <3>2, Zenon DEF Removed
    <3>4. /\ issuer'[tid'[r]] = arg'[r] /\ (old'[r].active <=> tid'[r] \in active')
          /\ \A i \in Issuer : registry'[i].id # tid'[r]
      BY <2>0, <3>1, <3>2, <3>3, Zenon
    <3>5. QED
      BY <1>3, <3>1, <3>4, Zenon DEF Knows, NoEntry
  <2>4. CASE Evicting(r)
    <3>1. /\ pc[r] = "evict" /\ pc'[r] = "reinsert" /\ issuer' = issuer /\ active' = active
          /\ registry' = registry
      BY <2>4, Zenon DEF Evicting
    <3>2. issuer[tid[r]] = arg[r] /\ (old[r].active <=> tid[r] \in active) /\ NoEntry(tid[r])
      BY <1>0, <1>3, <2>0, <3>1, Zenon DEF Knows
    <3>3. /\ issuer'[tid'[r]] = arg'[r] /\ (old'[r].active <=> tid'[r] \in active')
          /\ \A i \in Issuer : registry'[i].id # tid'[r]
      BY <2>0, <3>1, <3>2, Zenon DEF NoEntry
    <3>4. QED
      BY <1>3, <3>1, <3>3, Zenon DEF Knows, NoEntry
  <2>5. QED
    BY <1>3, <2>0, <2>1, <2>2, <2>3, <2>4, AdminStep, Zenon DEF Upserting, Invalidating, Reinserting,
       Stopping
<1>4. CASE q = r /\ Creating(r)
  <2>1. /\ pc'[r] = "upsert" /\ tid'[r] = r /\ issuer'[r] = arg'[r] /\ r \in active'
        /\ registry' = registry /\ issuer[r] = None
    BY <1>0, <1>4, NoneIsNot, Zenon DEF Creating, TenantsType
  <2>2. \A i \in Issuer : registry'[i].id # r
    BY <1>0, <2>1, NoneIsNot, Zenon DEF Entries
  <2>3. QED
    BY <1>4, <2>1, <2>2, Zenon DEF Knows, NoEntry
<1>5. CASE q = r /\ Reading(r)
  <2>1. /\ pc'[r] \in {"deactivate", "rename"} /\ issuer'[tid'[r]] = old'[r].oidc_issuer
        /\ old'[r].active <=> tid'[r] \in active'
    BY <1>5, Zenon DEF Reading
  <2>2. QED
    BY <1>5, <2>1, Zenon DEF Knows
<1>6. QED
  BY <1>1, <1>2, <1>3, <1>4, <1>5, AdminAfter, Zenon

\* Only admin requests about t make entries of t.
LEMMA EntryKept ==
    ASSUME BaseInv, NEW r \in Req, Step(r), NEW t \in Tenant, ~(Admin(r) /\ tid[r] = t),
           NEW i \in Issuer, registry'[i].id = t
    PROVE  registry'[i] = registry[i]
<1>0. t # None
  BY NoneIsNot, Zenon
<1>1. CASE Admin(r)
  <2>1. tid[r] # t
    BY <1>1, Zenon
  <2>2. CASE Upserting(r) \/ Reinserting(r)
    BY <2>1, <2>2, Zenon DEF Upserting, Reinserting, Written
  <2>3. CASE Invalidating(r) \/ Removing(r)
    BY <1>0, <2>3, Zenon DEF Invalidating, Removing, Removed
  <2>4. CASE Deactivating(r) \/ Renaming(r) \/ Evicting(r) \/ Stopping(r)
    BY <2>4, Zenon DEF Deactivating, Renaming, Evicting, Stopping
  <2>5. QED
    BY <1>1, <2>2, <2>3, <2>4, AdminStep, Zenon
<1>2. CASE ~Admin(r)
  BY <1>2, OtherStep, Zenon DEF Creating, Reading, Providing, Elsewhere
<1>3. QED
  BY <1>1, <1>2, Zenon

\* What an entry says of the tenant an admin request is at work on.
LEMMA EntrySays ==
    ASSUME RegistryInv, NEW r \in Req, Admin(r), tid[r] \in Tenant \ torn, pc[r] # "replace",
           NEW i \in Issuer, registry[i].id = tid[r]
    PROVE  issuer[tid[r]] = i /\ (pc[r] # "invalidate" => (registry[i].on <=> tid[r] \in active))
<1>1. ASSUME NEW p \in Req, tid[p] = tid[r], pc[p] \in {"invalidate", "replace"} PROVE p = r
  <2>1. Admin(p)
    BY <1>1, Zenon DEF Admin, AdminLabels
  <2>2. QED
    BY <1>1, <2>1, OnlyOne, Zenon
<1>2. ~ \E p \in Req : tid[p] = tid[r] /\ pc[p] = "replace" /\ old[p].oidc_issuer = i
  BY <1>1, Zenon
<1>3. At(tid[r], {"invalidate"}) => pc[r] = "invalidate"
  BY <1>1, Zenon DEF At
<1>4. EntryRight(tid[r])
  BY Zenon DEF RegistryInv
<1>5. QED
  BY <1>2, <1>3, <1>4, Zenon DEF EntryRight

LEMMA EntryRightStep ==
    ASSUME BaseInv, RegistryInv, NEW r \in Req, Step(r), NEW t \in Tenant, t \notin torn'
    PROVE  EntryRight(t)'
<1>0. TenantsType /\ Knows(r) /\ torn \subseteq torn' /\ Entries /\ t \notin torn /\ EntryRight(t) /\ t # None
  BY TornGrows, NoneIsNot, Zenon DEF BaseInv, RegistryInv
<1>1. SUFFICES ASSUME NEW i \in Issuer, registry'[i].id = t
               PROVE  \/ issuer'[t] = i /\ ((registry'[i].on <=> t \in active') \/ At(t, {"invalidate"})')
                      \/ \E p \in Req : tid'[p] = t /\ pc'[p] = "replace" /\ old'[p].oidc_issuer = i
  BY Zenon DEF EntryRight
<1>2. CASE ~(Admin(r) /\ tid[r] = t)
  <2>1. registry'[i] = registry[i] /\ registry[i].id = t
    BY <1>1, <1>2, EntryKept, Zenon
  <2>2. issuer[t] # None
    BY <1>0, <2>1, Zenon DEF Entries
  <2>3. issuer'[t] = issuer[t] /\ (t \in active' <=> t \in active)
    BY <1>2, <2>2, Undisturbed, Zenon
  <2>4. ASSUME NEW p \in Req, tid[p] = t, pc[p] \in {"invalidate", "replace"}
        PROVE  tid'[p] = t /\ pc'[p] = pc[p] /\ old'[p] = old[p]
    <3>1. Admin(p)
      BY <2>4, Zenon DEF Admin, AdminLabels
    <3>2. p # r
      BY <1>2, <2>4, <3>1, Zenon
    <3>3. QED
      BY <1>0, <2>4, <3>2, OthersSame, Zenon DEF Same
  <2>5. At(t, {"invalidate"}) => At(t, {"invalidate"})'
    BY <2>4, Zenon DEF At
  <2>6. CASE issuer[t] = i /\ ((registry[i].on <=> t \in active) \/ At(t, {"invalidate"}))
    BY <2>1, <2>3, <2>5, <2>6, Zenon
  <2>7. CASE \E p \in Req : tid[p] = t /\ pc[p] = "replace" /\ old[p].oidc_issuer = i
    BY <2>4, <2>7, Zenon
  <2>8. QED
    BY <1>0, <2>1, <2>6, <2>7, Zenon DEF EntryRight
<1>3. CASE Admin(r) /\ tid[r] = t
  <2>0. UNCHANGED <<tid, old>> /\ Admin(r) /\ tid[r] = t /\ tid[r] \in Tenant \ torn
    BY <1>0, <1>3, AdminStep, Zenon
  <2>a. ASSUME registry[i].id = tid[r], pc[r] # "replace"
        PROVE  issuer[t] = i /\ (pc[r] # "invalidate" => (registry[i].on <=> t \in active))
    <3>1. issuer[tid[r]] = i /\ (pc[r] # "invalidate" => (registry[i].on <=> tid[r] \in active))
      BY <2>0, <2>a, EntrySays, Zenon
    <3>2. QED
      BY <2>0, <3>1, Zenon
  <2>1. CASE Upserting(r)
    <3>1. NoEntry(t) /\ issuer[t] = arg[r] /\ t \in active
      BY <1>0, <1>3, <2>1, Zenon DEF Knows, Upserting
    <3>2. i = arg[r] /\ registry'[i].on /\ issuer' = issuer /\ active' = active
      BY <1>1, <2>1, <3>1, Zenon DEF Upserting, Written, NoEntry
    <3>3. QED
      BY <3>1, <3>2, Zenon
  <2>2. CASE Deactivating(r)
    <3>1. issuer' = issuer /\ registry' = registry /\ pc[r] # "replace" /\ pc'[r] = "invalidate"
      BY <2>2, Zenon DEF Deactivating
    <3>2. issuer[t] = i
      BY <1>1, <2>0, <2>a, <3>1, Zenon
    <3>3. At(t, {"invalidate"})'
      BY <1>3, <2>0, <3>1, Zenon DEF At
    <3>4. QED
      BY <3>1, <3>2, <3>3, Zenon
  <2>3. CASE Invalidating(r)
    <3>1. i # old[r].oidc_issuer /\ registry[i].id = t /\ pc[r] = "invalidate"
      BY <1>0, <1>1, <2>3, Zenon DEF Invalidating, Removed
    <3>2. pc[r] # "replace"
      BY <3>1, Zenon
    <3>3. issuer[t] = i
      BY <1>1, <2>0, <2>a, <3>1, <3>2, Zenon
    <3>4. issuer[t] = old[r].oidc_issuer
      BY <1>0, <1>3, <3>1, Zenon DEF Knows
    <3>5. QED
      BY <3>1, <3>3, <3>4, Zenon
  <2>4. CASE Renaming(r)
    <3>1. registry' = registry /\ pc[r] = "rename" /\ pc'[r] = "replace"
      BY <2>4, Zenon DEF Renaming
    <3>2. pc[r] # "replace"
      BY <3>1, Zenon
    <3>3. issuer[t] = i
      BY <1>1, <2>0, <2>a, <3>1, <3>2, Zenon
    <3>4. issuer[t] = old[r].oidc_issuer
      BY <1>0, <1>3, <3>1, Zenon DEF Knows
    <3>5. QED
      BY <1>3, <2>0, <3>1, <3>3, <3>4, Zenon
  <2>5. CASE Removing(r)
    <3>1. i # old[r].oidc_issuer /\ registry[i].id = t /\ pc[r] = "replace"
      BY <1>0, <1>1, <2>5, Zenon DEF Removing, Removed
    <3>2. QED
      BY <1>0, <1>3, <3>1, Zenon DEF Knows
  <2>6. CASE Evicting(r)
    <3>1. registry' = registry /\ pc[r] = "evict"
      BY <2>6, Zenon DEF Evicting
    <3>2. QED
      BY <1>0, <1>1, <1>3, <3>1, Zenon DEF Knows, NoEntry
  <2>7. CASE Reinserting(r)
    <3>1. NoEntry(t) /\ issuer[t] = arg[r] /\ (old[r].active <=> t \in active)
      BY <1>0, <1>3, <2>7, Zenon DEF Knows, Reinserting
    <3>2. i = arg[r] /\ (registry'[i].on <=> old[r].active) /\ issuer' = issuer /\ active' = active
      BY <1>1, <2>7, <3>1, Zenon DEF Reinserting, Written, NoEntry
    <3>3. QED
      BY <3>1, <3>2, Zenon
  <2>8. CASE Stopping(r)
    <3>1. issuer' = issuer /\ active' = active /\ registry' = registry /\ pc[r] \in {"deactivate", "rename"}
      BY <1>3, <2>8, Zenon DEF Stopping
    <3>2. pc[r] # "replace" /\ pc[r] # "invalidate"
      BY <3>1, Zenon
    <3>3. issuer[t] = i /\ (registry[i].on <=> t \in active)
      BY <1>1, <2>0, <2>a, <3>1, <3>2, Zenon
    <3>4. QED
      BY <3>1, <3>3, Zenon
  <2>9. QED
    BY <1>3, <2>1, <2>2, <2>3, <2>4, <2>5, <2>6, <2>7, <2>8, AdminStep, Zenon
<1>4. QED
  BY <1>2, <1>3, Zenon

\* Nobody else touches the entry of an active tenant.
LEMMA EntryStays ==
    ASSUME BaseInv, RegistryInv, NEW r \in Req, Step(r), NEW t \in Tenant, t \notin torn, issuer[t] # None,
           ~(Admin(r) /\ tid[r] = t), ~Silent(t)
    PROVE  registry'[issuer[t]] = registry[issuer[t]]
<1>0. issuer[t] \in Issuer /\ Alone(r)
  BY Zenon DEF BaseInv, TenantsType, RegistryInv
<1>1. CASE Admin(r)
  <2>0. ~Claims(r, issuer[t])
    BY <1>0, <1>1, AloneClaims, Zenon
  <2>1. CASE Upserting(r) \/ Reinserting(r)
    <3>1. pc[r] \in {"upsert", "reinsert"} /\ \A j \in Issuer \ {arg[r]} : registry'[j] = registry[j]
      BY <2>1, Zenon DEF Upserting, Reinserting, Written
    <3>2. issuer[t] # arg[r]
      BY <2>0, <3>1, Zenon DEF Claims
    <3>3. QED
      BY <1>0, <3>1, <3>2, Zenon
  <2>2. CASE Invalidating(r) \/ Removing(r)
    <3>1. /\ pc[r] \in {"invalidate", "replace"}
          /\ \A j \in Issuer \ {old[r].oidc_issuer} : registry'[j] = registry[j]
      BY <2>2, Zenon DEF Invalidating, Removing, Removed
    <3>2. issuer[t] # old[r].oidc_issuer
      BY <2>0, <3>1, Zenon DEF Claims
    <3>3. QED
      BY <1>0, <3>1, <3>2, Zenon
  <2>3. CASE Deactivating(r) \/ Renaming(r) \/ Evicting(r) \/ Stopping(r)
    BY <2>3, Zenon DEF Deactivating, Renaming, Evicting, Stopping
  <2>4. QED
    BY <1>1, <2>1, <2>2, <2>3, AdminStep, Zenon
<1>2. CASE ~Admin(r)
  BY <1>2, OtherStep, Zenon DEF Creating, Reading, Providing, Elsewhere
<1>3. QED
  BY <1>1, <1>2, Zenon

LEMMA ActiveRowsStep ==
    ASSUME BaseInv, ActiveRows, NEW r \in Req, Step(r)
    PROVE  ActiveRows'
<1>0. TenantsType /\ \A t \in Tenant : issuer[t] # None => issuer'[t] # None
  BY IssuerKept, Zenon DEF BaseInv
<1>1. CASE active' \subseteq active
  BY <1>0, <1>1, Zenon DEF ActiveRows, TenantsType
<1>2. CASE Creating(r) \/ Providing(r)
  <2>1. PICK i \in Issuer : issuer' = [issuer EXCEPT ![r] = i] /\ active' = active \cup {r}
    BY <1>2, Zenon DEF Creating, Providing
  <2>2. issuer'[r] # None
    BY <1>0, <2>1, NoneIsNot, Zenon DEF TenantsType
  <2>3. QED
    BY <1>0, <2>1, <2>2, Zenon DEF ActiveRows, TenantsType
<1>3. CASE Admin(r)
  <2>1. active' \subseteq active
    BY <1>3, AdminStep, Zenon DEF Upserting, Deactivating, Invalidating, Renaming, Removing, Evicting,
       Reinserting, Stopping
  <2>2. QED
    BY <1>1, <2>1, Zenon
<1>4. CASE Reading(r) \/ Elsewhere(r)
  <2>1. active' \subseteq active
    BY <1>4, Zenon DEF Reading, Elsewhere
  <2>2. QED
    BY <1>1, <2>1, Zenon
<1>5. QED
  BY <1>2, <1>3, <1>4, OtherStep, Zenon

LEMMA HasEntryStep ==
    ASSUME BaseInv, RegistryInv, NEW r \in Req, Step(r), NEW t \in Tenant, t \notin torn'
    PROVE  HasEntry(t)'
<1> DEFINE Coming == {"upsert", "replace", "evict", "reinsert"}
<1>0. TenantsType /\ Knows(r) /\ torn \subseteq torn' /\ t \notin torn /\ HasEntry(t) /\ ActiveRows
  BY TornGrows, Zenon DEF BaseInv, RegistryInv
<1>1. SUFFICES ASSUME t \in active', booted', t \in Req => reg'[t] = None
               PROVE  \/ registry'[issuer'[t]].id = t /\ registry'[issuer'[t]].on
                      \/ \E p \in Req : tid'[p] = t /\ pc'[p] \in Coming
  BY Zenon DEF HasEntry, At
<1>2. booted
  BY <1>1, AdminStep, OtherStep, Zenon
<1>3. CASE issuer[t] = None
  <2>1. t \notin active
    BY <1>0, <1>3, Zenon DEF ActiveRows
  <2>2. ~Admin(r)
    <3> SUFFICES ASSUME Admin(r) PROVE FALSE
      BY Zenon
    <3>1. active' \subseteq active
      BY AdminStep, Zenon DEF Upserting, Deactivating, Invalidating, Renaming, Removing, Evicting,
         Reinserting, Stopping
    <3>2. QED
      BY <1>1, <2>1, <3>1, Zenon
  <2>3. CASE Creating(r)
    <3>1. t = r /\ tid'[r] = r /\ pc'[r] = "upsert"
      BY <1>1, <2>1, <2>3, Zenon DEF Creating
    <3>2. QED
      BY <3>1, Zenon
  <2>4. CASE Providing(r)
    BY <1>1, <2>1, <2>4, Zenon DEF Providing
  <2>5. QED
    BY <1>1, <2>1, <2>2, <2>3, <2>4, OtherStep, Zenon DEF Reading, Elsewhere
<1>4. CASE issuer[t] # None /\ ~(Admin(r) /\ tid[r] = t)
  <2>1. issuer'[t] = issuer[t] /\ t \in active
    BY <1>1, <1>4, Undisturbed, Zenon
  <2>2. t \in Req => reg[t] = None
    BY <1>1, <1>4, RegSame, Zenon
  <2>3. CASE registry[issuer[t]].id = t /\ registry[issuer[t]].on
    <3>1. ~Silent(t)
      BY <2>2, Zenon DEF Silent
    <3>2. registry'[issuer[t]] = registry[issuer[t]]
      BY <1>0, <1>4, <3>1, EntryStays, Zenon
    <3>3. QED
      BY <2>1, <2>3, <3>2, Zenon
  <2>4. CASE At(t, Coming)
    <3>1. PICK p \in Req : tid[p] = t /\ pc[p] \in Coming
      BY <2>4, Zenon DEF At
    <3>2. Admin(p)
      BY <3>1, Zenon DEF Admin, AdminLabels
    <3>3. tid'[p] = tid[p] /\ pc'[p] = pc[p]
      BY <1>0, <1>4, <3>1, <3>2, OthersSame, ZenonT(30) DEF Same
    <3>4. QED
      BY <3>1, <3>3, Zenon
  <2>5. QED
    BY <1>0, <1>2, <2>1, <2>2, <2>3, <2>4, Zenon DEF HasEntry
<1>5. CASE issuer[t] # None /\ Admin(r) /\ tid[r] = t
  <2>0. tid' = tid /\ tid'[r] = t /\ Admin(r) /\ tid[r] \notin torn
    BY <1>0, <1>5, AdminStep, Zenon
  <2>1. CASE Upserting(r)
    <3>1. pc[r] = "upsert" /\ issuer' = issuer /\ registry'[arg[r]].id = t /\ registry'[arg[r]].on
      BY <1>5, <2>1, Zenon DEF Upserting, Written
    <3>2. issuer[t] = arg[r]
      BY <1>0, <1>5, <3>1, Zenon DEF Knows
    <3>3. QED
      BY <3>1, <3>2, Zenon
  <2>2. CASE Deactivating(r)
    BY <1>1, <1>5, <2>2, Zenon DEF Deactivating
  <2>3. CASE Invalidating(r)
    <3>1. pc[r] = "invalidate" /\ t \in active
      BY <1>1, <2>3, Zenon DEF Invalidating
    <3>2. QED
      BY <1>0, <1>5, <3>1, Zenon DEF Knows
  <2>4. CASE Renaming(r) \/ Removing(r) \/ Evicting(r)
    <3>1. pc'[r] \in Coming
      BY <2>4, Zenon DEF Renaming, Removing, Evicting
    <3>2. QED
      BY <2>0, <3>1, Zenon
  <2>5. CASE Reinserting(r)
    <3>1. /\ pc[r] = "reinsert" /\ issuer' = issuer /\ registry'[arg[r]].id = t /\ t \in active
          /\ registry'[arg[r]].on <=> old[r].active
      BY <1>1, <1>5, <2>5, Zenon DEF Reinserting, Written
    <3>2. issuer[t] = arg[r] /\ (old[r].active <=> t \in active)
      BY <1>0, <1>5, <3>1, Zenon DEF Knows
    <3>3. QED
      BY <3>1, <3>2, Zenon
  <2>6. CASE Stopping(r)
    <3>1. issuer' = issuer /\ active' = active /\ registry' = registry /\ pc[r] \in {"deactivate", "rename"}
      BY <1>5, <2>6, Zenon DEF Stopping
    <3>2. ~At(t, Coming)
      <4> SUFFICES ASSUME NEW p \in Req, tid[p] = t, pc[p] \in Coming PROVE FALSE
        BY Zenon DEF At
      <4>1. Admin(p)
        BY Zenon DEF Admin, AdminLabels
      <4>2. p = r
        BY <1>5, <2>0, <4>1, OnlyOne, Zenon
      <4>3. QED
        BY <3>1, <4>2, Zenon
    <3>3. t \in Req => reg[t] = None
      BY <1>1, <1>5, RegSame, Zenon
    <3>4. registry[issuer[t]].id = t /\ registry[issuer[t]].on
      BY <1>0, <1>1, <1>2, <3>1, <3>2, <3>3, Zenon DEF HasEntry
    <3>5. QED
      BY <3>1, <3>4, Zenon
  <2>7. QED
    BY <1>5, <2>1, <2>2, <2>3, <2>4, <2>5, <2>6, AdminStep, Zenon
<1>6. QED
  BY <1>3, <1>4, <1>5, Zenon

LEMMA RegistryStep ==
    ASSUME BaseInv, BaseInv', RegistryInv, NEW r \in Req, Step(r)
    PROVE  RegistryInv'
<1>1. ActiveRows'
  BY ActiveRowsStep, Zenon DEF RegistryInv
<1>2. ASSUME NEW p \in Req, NEW q \in Req PROVE Apart(p, q)'
  BY ApartStep, Zenon DEF RegistryInv
<1>3. ASSUME NEW q \in Req PROVE Alone(q)' /\ Knows(q)'
  BY AloneStep, KnowsStep, Zenon
<1>4. ASSUME NEW t \in Tenant \ torn' PROVE EntryRight(t)' /\ HasEntry(t)'
  BY EntryRightStep, HasEntryStep, Zenon
<1>5. QED
  BY <1>1, <1>2, <1>3, <1>4, Zenon DEF RegistryInv

\* A restart ends every request and reads the table, or finds no registry.
LEMMA RestartRegistry ==
    ASSUME BaseInv, RegistryInv, Restart
    PROVE  RegistryInv'
<1>0. TenantsType /\ OneIssuer /\ ActiveRows
  BY Zenon DEF BaseInv, RegistryInv
<1>1. UNCHANGED <<issuer, active>>
  BY Zenon DEF Restart, tables
<1>2. \A q \in Req : ~Admin(q)'
  <2>1. \A q \in Req : pc'[q] \in {"idle", "done"}
    BY RestartBase, Zenon
  <2>2. QED
    BY <2>1, Zenon DEF Admin, AdminLabels
<1>3. ASSUME NEW t \in Tenant PROVE EntryRight(t)' /\ HasEntry(t)'
  <2>0. t # None /\ (issuer[t] # None => issuer[t] \in Issuer)
    BY <1>0, NoneIsNot, Zenon DEF TenantsType
  <2>1. CASE registry' = Loaded
    <3>1. ASSUME NEW i \in Issuer, registry'[i].id = t
          PROVE  issuer[t] = i /\ (registry'[i].on <=> t \in active)
      <4>1. Loaded[i].id = t
        BY <2>1, <3>1, Zenon
      <4>2. issuer[t] = i /\ (Loaded[i].on <=> t \in active)
        BY <1>0, <2>0, <4>1, LoadedRight, Zenon DEF TenantsType
      <4>3. QED
        BY <2>1, <4>2, Zenon
    <3>2. issuer[t] # None => registry'[issuer[t]].id = t
      <4>1. issuer[t] # None => Loaded[issuer[t]].id = t
        BY <1>0, LoadedRight, Zenon DEF TenantsType
      <4>2. QED
        BY <2>1, <4>1, Zenon
    <3>3. EntryRight(t)'
      BY <1>1, <3>1, Zenon DEF EntryRight
    <3>4. t \in active' => registry'[issuer'[t]].id = t /\ registry'[issuer'[t]].on
      BY <1>0, <1>1, <2>0, <3>1, <3>2, Zenon DEF ActiveRows
    <3>5. QED
      BY <3>3, <3>4, Zenon DEF HasEntry
  <2>2. CASE booted' = FALSE /\ \A i \in Issuer : registry'[i].id = None
    BY <2>0, <2>2, Zenon DEF EntryRight, HasEntry
  <2>3. QED
    BY <2>1, <2>2, RestartBase, Zenon
<1>4. ActiveRows'
  BY <1>0, <1>1, Zenon DEF ActiveRows
<1>5. QED
  BY <1>2, <1>3, <1>4, Zenon DEF RegistryInv, Apart, Alone, Knows

-----------------------------------------------------------------------------
(***************************************************************************)
(* The cached keys.                                                        *)
(***************************************************************************)

\* Only get_or_fetch and the eviction change the cache.
LEMMA JwksMoves ==
    ASSUME NEW r \in Req, Step(r)
    PROVE  EvictJwks(r) \/ FetchJwks(r) \/ (jwks' = jwks /\ late' = late)
<1>1. CASE \/ AdminRefused(r)
           \/ \E i \in Issuer : CreateTenant(r, i)
           \/ UpsertCreated(r)
           \/ \E t \in Tenant : DeactivateRequest(r, t)
           \/ Deactivate(r) \/ Invalidate(r)
           \/ \E t \in Tenant, i \in Issuer : RenameRequest(r, t, i)
           \/ Rename(r) \/ RemoveOld(r) \/ Reinsert(r) \/ SubmitInvalid(r)
           \/ \E i \in Issuer : SubmitRequest(r, i)
           \/ SubmitCheck(r) \/ Submit(r)
           \/ \E g \in Reg : ApproveRequest(r, g)
           \/ \E g \in Reg : RejectRequest(r, g)
           \/ Provision(r) \/ Approve(r) \/ Reject(r)
           \/ \E g \in Reg : GetRegistration(r, g)
           \/ NoToken(r) \/ Malformed(r)
           \/ \E i \in Issuer : Resolve(r, i)
           \/ ReadJwks(r) \/ Abort(r)
  BY <1>1, Zenon DEF AdminRefused, CreateTenant, UpsertCreated, DeactivateRequest, Deactivate,
     Invalidate, RenameRequest, Rename, RemoveOld, Reinsert, SubmitInvalid, SubmitRequest,
     SubmitCheck, Submit, ApproveRequest, RejectRequest, Provision, Approve, Reject,
     GetRegistration, NoToken, Malformed, Resolve, ReadJwks, Abort, GetById, DecisionRequest,
     caches, history
<1>2. QED
  BY <1>1, Zenon DEF Step

\* A lookup begins when the issuer of a token is resolved.
LEMMA LookupMoves ==
    ASSUME TenantsType, NEW r \in Req, Step(r), pc'[r] \in {"cached", "fetch"}
    PROVE  ReadJwks(r) \/ \E i \in Issuer : Resolve(r, i)
<1> DEFINE Labels == {"upsert", "deactivate", "invalidate", "rename", "replace", "evict", "reinsert",
                      "submit_check", "submit", "provision", "approve", "reject", "done"}
<1>1. ASSUME \E l \in Labels : pc' = [pc EXCEPT ![r] = l] PROVE FALSE
  <2>1. PICK l \in Labels : pc'[r] = l
    BY <1>1, Zenon DEF TenantsType
  <2>2. QED
    BY <2>1, Zenon
<1>2. CASE \/ AdminRefused(r)
           \/ \E i \in Issuer : CreateTenant(r, i)
           \/ UpsertCreated(r)
           \/ \E t \in Tenant : DeactivateRequest(r, t)
           \/ Deactivate(r) \/ Invalidate(r)
           \/ \E t \in Tenant, i \in Issuer : RenameRequest(r, t, i)
           \/ Rename(r) \/ RemoveOld(r) \/ EvictJwks(r) \/ Reinsert(r) \/ SubmitInvalid(r)
           \/ \E i \in Issuer : SubmitRequest(r, i)
           \/ SubmitCheck(r) \/ Submit(r)
           \/ \E g \in Reg : ApproveRequest(r, g)
           \/ \E g \in Reg : RejectRequest(r, g)
           \/ Provision(r) \/ Approve(r) \/ Reject(r)
           \/ \E g \in Reg : GetRegistration(r, g)
           \/ NoToken(r) \/ Malformed(r) \/ FetchJwks(r) \/ Abort(r)
  <2>1. \E l \in Labels : pc' = [pc EXCEPT ![r] = l]
    BY <1>2, Zenon DEF AdminRefused, CreateTenant, UpsertCreated, DeactivateRequest, Deactivate,
       Invalidate, RenameRequest, Rename, RemoveOld, EvictJwks, Reinsert, SubmitInvalid,
       SubmitRequest, SubmitCheck, Submit, ApproveRequest, RejectRequest, Provision, Approve,
       Reject, GetRegistration, NoToken, Malformed, FetchJwks, Abort, GetById, DecisionRequest,
       Refused, Verify, Answer, Goto
  <2>2. QED
    BY <1>1, <2>1, Zenon
<1>3. QED
  BY <1>2, Zenon DEF Step

\* A request that looks up the keys of i for t after the step did so before, or has
\* just resolved i to t.
LEMMA LookupAfter ==
    ASSUME BaseInv, NEW r \in Req, Step(r), NEW q \in Req, pc'[q] \in {"cached", "fetch"}
    PROVE  \/ pc[q] \in {"cached", "fetch"} /\ tid'[q] = tid[q] /\ arg'[q] = arg[q]
           \/ arg'[q] \in Issuer /\ registry[arg'[q]].id = tid'[q] /\ pc[r] = "idle"
<1>0. TenantsType
  BY Zenon DEF BaseInv
<1>1. CASE q # r
  BY <1>0, <1>1, OthersSame, Zenon DEF Same
<1>2. CASE q = r /\ ReadJwks(r)
  BY <1>2, Zenon DEF ReadJwks, locals
<1>3. CASE q = r /\ \E i \in Issuer : Resolve(r, i)
  <2>1. PICK i \in Issuer : Resolve(r, i)
    BY <1>3, Zenon
  <2>2. ~ \E a \in {"unknown_tenant", "tenant_inactive"} : Refused(r, a)
    <3>1. pc'[r] # "done"
      BY <1>3, Zenon
    <3>2. QED
      BY <1>0, <3>1, Zenon DEF Refused, Answer, TenantsType
  <2>3. tid' = [tid EXCEPT ![r] = registry[i].id] /\ arg' = [arg EXCEPT ![r] = i]
    BY <2>1, <2>2, ResolveEffect, Zenon
  <2>4. tid'[r] = registry[i].id /\ arg'[r] = i
    BY <1>0, <2>3, Zenon DEF TenantsType
  <2>5. QED
    BY <1>3, <2>1, <2>4, Zenon DEF Resolve
<1>4. QED
  BY <1>0, <1>1, <1>2, <1>3, LookupMoves, Zenon

\* A tenant keeps its issuer until the keys of it are evicted.
LEMMA HeldStep ==
    ASSUME BaseInv, RegistryInv, NEW r \in Req, Step(r), NEW t \in Tenant, t \notin torn',
           NEW i \in Issuer, Held(t, i)
    PROVE  Held(t, i)' \/ (pc[r] = "evict" /\ tid[r] = t /\ old[r].oidc_issuer = i)
<1>0. TenantsType /\ Knows(r) /\ t \notin torn /\ i # None
  BY TornGrows, NoneIsNot, Zenon DEF BaseInv, RegistryInv
<1>1. CASE issuer[t] = i /\ ~(Admin(r) /\ tid[r] = t)
  <2>1. issuer'[t] = issuer[t]
    BY <1>0, <1>1, Undisturbed, Zenon
  <2>2. QED
    BY <1>1, <2>1, Zenon DEF Held
<1>2. CASE issuer[t] = i /\ Admin(r) /\ tid[r] = t
  <2>1. CASE Renaming(r)
    <3>1. pc[r] = "rename" /\ pc'[r] = "replace" /\ UNCHANGED <<tid, old>>
      BY <1>2, <2>1, AdminStep, Zenon DEF Renaming
    <3>2. issuer[t] = old[r].oidc_issuer
      BY <1>0, <1>2, <3>1, Zenon DEF Knows
    <3>3. QED
      BY <1>2, <3>1, <3>2, Zenon DEF Held, Leaving
  <2>2. CASE issuer' = issuer
    BY <1>2, <2>2, Zenon DEF Held
  <2>3. QED
    BY <1>2, <2>1, <2>2, AdminStep, Zenon DEF Upserting, Deactivating, Invalidating, Removing, Evicting,
       Reinserting, Stopping
<1>3. CASE Leaving(t, i)
  <2>1. PICK p \in Req : tid[p] = t /\ pc[p] \in {"replace", "evict"} /\ old[p].oidc_issuer = i
    BY <1>3, Zenon DEF Leaving
  <2>2. CASE p # r
    <3>1. tid'[p] = tid[p] /\ pc'[p] = pc[p] /\ old'[p] = old[p]
      BY <1>0, <2>2, OthersSame, Zenon DEF Same
    <3>2. QED
      BY <2>1, <3>1, Zenon DEF Held, Leaving
  <2>3. CASE p = r /\ pc[r] = "replace"
    <3>1. Admin(r)
      BY <2>3, Zenon DEF Admin, AdminLabels
    <3>2. UNCHANGED <<tid, old>>
      BY <3>1, AdminStep, Zenon
    <3>3. Removing(r)
      <4>1. ~Stopping(r)
        BY <2>1, <2>3, Zenon DEF Stopping
      <4>2. ~(Upserting(r) \/ Deactivating(r) \/ Invalidating(r) \/ Renaming(r) \/ Evicting(r) \/ Reinserting(r))
        BY <2>3, Zenon DEF Upserting, Deactivating, Invalidating, Renaming, Evicting, Reinserting
      <4>3. QED
        BY <3>1, <4>1, <4>2, AdminStep, Zenon
    <3>4. pc'[r] = "evict"
      BY <3>3, Zenon DEF Removing
    <3>5. QED
      BY <2>1, <2>3, <3>2, <3>4, Zenon DEF Held, Leaving
  <2>4. QED
    BY <2>1, <2>2, <2>3, Zenon
<1>4. QED
  BY <1>1, <1>2, <1>3, Zenon DEF Held

LEMMA EvictLabel ==
    ASSUME NEW r \in Req, Step(r), pc[r] = "evict"
    PROVE  EvictJwks(r)
  BY Zenon DEF Step, AdminRefused, CreateTenant, UpsertCreated, DeactivateRequest, Deactivate,
     Invalidate, RenameRequest, Rename, RemoveOld, Reinsert, SubmitInvalid, SubmitRequest,
     SubmitCheck, Submit, ApproveRequest, RejectRequest, Provision, Approve, Reject,
     GetRegistration, NoToken, Malformed, Resolve, ReadJwks, FetchJwks, Abort, GetById,
     DecisionRequest

LEMMA KeysStep ==
    ASSUME BaseInv, RegistryInv, KeysInv, NEW r \in Req, Step(r)
    PROVE  KeysInv'
<1> SUFFICES ASSUME NEW t \in Tenant, t \notin torn', NEW i \in Issuer, Plain(i), <<t, i>> \notin late'
             PROVE  /\ \A q \in Req : pc'[q] \in {"cached", "fetch"} /\ tid'[q] = t /\ arg'[q] = i
                                          => Held(t, i)'
                    /\ <<t, i>> \in jwks' => Held(t, i)'
  BY Zenon DEF KeysInv, Plain
<1>0. /\ TenantsType /\ AtLabel(r) /\ t \notin torn /\ EntryRight(t)
      /\ \A j \in Issuer : Trim[j] = i <=> j = i
  BY TornGrows, Zenon DEF BaseInv, RegistryInv, Plain
<1>1. \A j \in Issuer : <<t, j>> \in late => <<t, j>> \in late'
  BY JwksMoves, Zenon DEF EvictJwks, FetchJwks, history
<1>2. <<t, i>> \notin late
  BY <1>1, Zenon
<1>3. ASSUME pc[r] = "evict", tid[r] = t, old[r].oidc_issuer = i
      PROVE  /\ <<t, i>> \notin jwks'
             /\ \A q \in Req : pc[q] \in {"cached", "fetch"} /\ tid[q] = t => arg[q] # i
  <2>1. EvictJwks(r)
    BY <1>3, EvictLabel, Zenon
  <2>2. <<t, i>> \notin jwks'
    BY <1>3, <2>1, Zenon DEF EvictJwks, Evicted
  <2>3. ASSUME NEW q \in Req, pc[q] \in {"cached", "fetch"}, tid[q] = t, arg[q] = i PROVE FALSE
    <3>1. <<tid[q], Trim[arg[q]]>> \in late'
      BY <2>1, <2>3, Zenon DEF EvictJwks
    <3>2. Trim[arg[q]] = i
      BY <1>0, <2>3, Zenon
    <3>3. QED
      BY <2>3, <3>1, <3>2, Zenon
  <2>4. QED
    BY <2>2, <2>3, Zenon
<1>4. ASSUME NEW q \in Req, pc'[q] \in {"cached", "fetch"}, tid'[q] = t, arg'[q] = i
      PROVE  Held(t, i)'
  <2>1. CASE pc[q] \in {"cached", "fetch"} /\ tid'[q] = tid[q] /\ arg'[q] = arg[q]
    <3>1. tid[q] = t /\ arg[q] = i
      BY <1>4, <2>1, Zenon
    <3>2. Held(t, i)
      BY <1>0, <1>2, <2>1, <3>1, Zenon DEF KeysInv
    <3>3. QED
      BY <1>3, <2>1, <3>1, <3>2, HeldStep, ZenonT(30)
  <2>2. CASE arg'[q] \in Issuer /\ registry[arg'[q]].id = tid'[q] /\ pc[r] = "idle"
    <3>1. registry[i].id = t
      BY <1>4, <2>2, Zenon
    <3>2. Held(t, i)
      BY <1>0, <3>1, Zenon DEF EntryRight, Held, Leaving
    <3>3. pc[r] # "evict"
      BY <2>2, Zenon
    <3>4. QED
      BY <3>2, <3>3, HeldStep, Zenon
  <2>3. QED
    BY <1>4, <2>1, <2>2, LookupAfter, Zenon
<1>5. ASSUME <<t, i>> \in jwks' PROVE Held(t, i)'
  <2>1. CASE <<t, i>> \in jwks
    <3>1. Held(t, i)
      BY <1>0, <1>2, <2>1, Zenon DEF KeysInv
    <3>2. QED
      BY <1>3, <1>5, <3>1, HeldStep, Zenon
  <2>2. CASE <<t, i>> \notin jwks
    <3>1. FetchJwks(r)
      BY <1>5, <2>2, JwksMoves, Zenon DEF EvictJwks
    <3>2. pc[r] = "fetch" /\ <<t, i>> = <<tid[r], Trim[arg[r]]>>
      BY <1>5, <2>2, <3>1, Zenon DEF FetchJwks
    <3>3. tid[r] = t /\ Trim[arg[r]] = i
      BY <3>2, Zenon
    <3>4. arg[r] \in Issuer
      BY <1>0, <3>2, Zenon DEF AtLabel, TenantsType
    <3>5. arg[r] = i
      BY <1>0, <3>3, <3>4, Zenon
    <3>6. Held(t, i)
      BY <1>0, <1>2, <3>2, <3>3, <3>5, Zenon DEF KeysInv
    <3>7. pc[r] # "evict"
      BY <3>2, Zenon
    <3>8. QED
      BY <3>6, <3>7, HeldStep, Zenon
  <2>3. QED
    BY <2>1, <2>2, Zenon
<1>6. QED
  BY <1>4, <1>5, Zenon

LEMMA RestartKeys ==
    ASSUME BaseInv, Restart
    PROVE  KeysInv'
<1>1. jwks' = {}
  BY Zenon DEF Restart
<1>2. \A q \in Req : pc'[q] \notin {"cached", "fetch"}
  <2>1. \A q \in Req : pc'[q] \in {"idle", "done"}
    BY RestartBase, Zenon
  <2>2. QED
    BY <2>1, Zenon
<1>3. QED
  BY <1>1, <1>2, Zenon DEF KeysInv

-----------------------------------------------------------------------------

LEMMA TenantsStep ==
    TenantsInv /\ [Next]_vars => TenantsInv'
<1> SUFFICES ASSUME TenantsInv, [Next]_vars PROVE TenantsInv'
  BY Zenon
<1>0. BaseInv /\ DecisionInv /\ RegistryInv /\ KeysInv
  BY Zenon DEF TenantsInv
<1>1. ASSUME NEW r \in Req, Step(r) PROVE TenantsInv'
  <2>1. BaseInv'
    BY <1>0, <1>1, BaseStep, Zenon
  <2>2. DecisionInv'
    BY <1>0, <1>1, <2>1, DecisionStep, Zenon
  <2>3. RegistryInv'
    BY <1>0, <1>1, <2>1, RegistryStep, Zenon
  <2>4. KeysInv'
    BY <1>0, <1>1, KeysStep, Zenon
  <2>5. QED
    BY <2>1, <2>2, <2>3, <2>4, Zenon DEF TenantsInv
<1>2. ASSUME Restart PROVE TenantsInv'
  BY <1>0, <1>2, RestartBase, RestartDecision, RestartRegistry, RestartKeys, Zenon DEF TenantsInv
<1>3. ASSUME UNCHANGED <<tables, registry, pc, locals, resp, history>>, jwks' \subseteq jwks
      PROVE  TenantsInv'
  <2>1. /\ UNCHANGED <<issuer, active, regIssuer, status, provided, registry, pc, tid, reg, arg, old, resp>>
        /\ torn' = torn /\ late' = late /\ unclear' = unclear
        /\ renamed' = renamed /\ booted' = booted
    BY <1>3, Zenon DEF tables, locals, history
  <2>2. BaseInv'
    BY <1>0, <2>1, ZenonT(30) DEF BaseInv, TenantsType, AtLabel, Admin, OneIssuer, RegRows, DecidedRows, Entries
  <2>3. DecisionInv'
    <3>1. ProvidedIssuer'
      BY <1>0, <2>1, Zenon DEF DecisionInv, ProvidedIssuer
    <3>2. Unanswered' /\ (\A r \in Req : Told(r)') /\ ProvisionedIsApproved'
      BY <1>0, <2>1, SMT DEF DecisionInv, Unanswered, Told, ProvisionedIsApproved
    <3>3. \A g \in Reg : Decisions(g)' /\ Approved(g)'
      BY <1>0, <2>1, SMT DEF DecisionInv, Decisions, Deciding, Approved
    <3>4. QED
      BY <3>1, <3>2, <3>3, Zenon DEF DecisionInv
  <2>4. ActiveRows' /\ \A q, r \in Req : Apart(q, r)'
    BY <1>0, <2>1, SMT DEF RegistryInv, ActiveRows, Apart, Admin, Names
  <2>5. \A r \in Req : Alone(r)' /\ Knows(r)'
    <3>1. \A r \in Req : Alone(r) /\ Knows(r)
      BY <1>0, Zenon DEF RegistryInv
    <3>2. \A s \in Tenant : Silent(s)' <=> Silent(s)
      BY <2>1, SMT DEF Silent, Admin
    <3>3. \A r \in Req : Alone(r)'
      BY <2>1, <3>1, <3>2, SMT DEF Alone, Admin
    <3>4. \A r \in Req : Knows(r)'
      BY <2>1, <3>1, SMT DEF Knows, Admin, NoEntry
    <3>5. QED
      BY <3>3, <3>4, Zenon
  <2>6. \A t \in Tenant \ torn' : EntryRight(t)' /\ HasEntry(t)'
    <3>1. \A t \in Tenant \ torn' : EntryRight(t)'
      BY <1>0, <2>1, SMT DEF RegistryInv, EntryRight, At
    <3>2. \A t \in Tenant \ torn' : HasEntry(t)'
      BY <1>0, <2>1, Zenon DEF RegistryInv, HasEntry, At
    <3>3. QED
      BY <3>1, <3>2, Zenon
  <2>7. RegistryInv'
    BY <2>4, <2>5, <2>6, Zenon DEF RegistryInv
  <2>8. KeysInv'
    BY <1>0, <1>3, <2>1, SMT DEF KeysInv, Plain, Held, Leaving
  <2>9. QED
    BY <2>2, <2>3, <2>7, <2>8, Zenon DEF TenantsInv
<1>4. CASE ExpireJwks
  <2>1. jwks' \subseteq jwks /\ UNCHANGED <<tables, registry, pc, locals, resp, history>>
    BY <1>4, Zenon DEF ExpireJwks
  <2>2. QED
    BY <1>3, <2>1, Zenon
<1>5. CASE UNCHANGED vars
  <2>1. jwks' \subseteq jwks /\ UNCHANGED <<tables, registry, pc, locals, resp, history>>
    BY <1>5, Zenon DEF vars, caches
  <2>2. QED
    BY <1>3, <2>1, Zenon
<1>6. Next => (\E r \in Req : Step(r)) \/ ExpireJwks \/ Restart
  BY Zenon DEF Next, Step
<1>7. QED
  BY <1>1, <1>2, <1>4, <1>5, <1>6, Zenon

\* The inductive invariant, from which the properties follow.
LEMMA TenantsInvariant == Spec => []TenantsInv
<1>1. Init => TenantsInv
  BY TenantsInit, Zenon
<1>2. TenantsInv /\ [Next]_vars => TenantsInv'
  BY TenantsStep, Zenon
<1>3. QED
  BY <1>1, <1>2, PTL DEF Spec

LEMMA SameFlag ==
    ASSUME NEW b \in BOOLEAN, NEW t, NEW S, b <=> t \in S
    PROVE  b = (t \in S)
  BY Zenon

LEMMA EntryIs ==
    ASSUME NEW e \in Entry, NEW t, e.id = t, e.on = TRUE
    PROVE  e = [id |-> t, on |-> TRUE]
  BY Zenon DEF Entry

\* The registry is the table for every tenant whose admin requests did not overlap
\* and lost no answer: the upsert and invalidate of create_tenant,
\* deactivate_tenant and update_oidc_issuer put it right by the time they answer.
THEOREM RegistryCorrect == Spec => []RegistryIsTable
<1>1. TenantsInv => RegistryIsTable
  <2> SUFFICES ASSUME TenantsInv, NEW t \in Tenant \ torn, ~InFlight(t)
               PROVE  /\ \A i \in Issuer : registry[i].id = t =>
                             issuer[t] = i /\ registry[i].on = (t \in active)
                      /\ (t \in active /\ booted /\ (t \in Req => reg[t] = None)) =>
                             registry[issuer[t]] = [id |-> t, on |-> TRUE]
    BY Zenon DEF RegistryIsTable
  <2>0. TenantsType /\ EntryRight(t) /\ HasEntry(t) /\ ActiveRows
    BY Zenon DEF TenantsInv, BaseInv, RegistryInv
  <2>1. ASSUME NEW r \in Req, tid[r] = t,
               pc[r] \in {"upsert", "invalidate", "replace", "evict", "reinsert"}
        PROVE  FALSE
    <3>1. pc[r] \notin {"idle", "done", "cached", "fetch"}
      BY <2>1, Zenon
    <3>2. QED
      BY <2>1, <3>1, Zenon DEF InFlight
  <2>2. ASSUME NEW i \in Issuer, registry[i].id = t
        PROVE  issuer[t] = i /\ registry[i].on = (t \in active)
    <3>1. issuer[t] = i /\ (registry[i].on <=> t \in active)
      BY <2>0, <2>1, <2>2, Zenon DEF EntryRight, At
    <3>2. registry[i].on \in BOOLEAN
      BY <2>0, Zenon DEF TenantsType, Entry
    <3>3. registry[i].on = (t \in active)
      BY <3>1, <3>2, SameFlag, Zenon
    <3>4. QED
      BY <3>1, <3>3, Zenon
  <2>3. ASSUME t \in active, booted, t \in Req => reg[t] = None
        PROVE  registry[issuer[t]] = [id |-> t, on |-> TRUE]
    <3>1. registry[issuer[t]].id = t /\ registry[issuer[t]].on
      BY <2>0, <2>1, <2>3, Zenon DEF HasEntry, At
    <3>2. issuer[t] \in Issuer
      BY <2>0, <2>3, Zenon DEF ActiveRows, TenantsType
    <3>3. registry[issuer[t]] \in Entry
      BY <2>0, <3>2, Zenon DEF TenantsType
    <3>4. registry[issuer[t]].on = TRUE
      BY <3>1, <3>3, Zenon DEF Entry
    <3>5. QED
      BY <3>1, <3>3, <3>4, EntryIs, Zenon
  <2>4. QED
    BY <2>2, <2>3, Zenon
<1>2. QED
  BY <1>1, TenantsInvariant, PTL

\* No keys of the issuer a tenant had are left once update_oidc_issuer has
\* answered, with three exceptions: those a lookup that began before the eviction
\* put back, those of an issuer that shares its URL with one that ends with a
\* slash, and those of a tenant that admin requests overlapped or failed on.
THEOREM KeysCorrect == Spec => []OldKeysAreGone
<1>1. TenantsInv => OldKeysAreGone
  <2> SUFFICES ASSUME TenantsInv, NEW t \in Tenant \ torn, ~InFlight(t), NEW i \in Issuer,
                      <<t, i>> \in jwks \ late, Plain(i)
               PROVE  issuer[t] = i
    BY Zenon DEF OldKeysAreGone
  <2>1. Held(t, i)
    BY Zenon DEF TenantsInv, KeysInv
  <2>2. ~Leaving(t, i)
    <3> SUFFICES ASSUME NEW r \in Req, tid[r] = t, pc[r] \in {"replace", "evict"} PROVE FALSE
      BY Zenon DEF Leaving
    <3>1. pc[r] \notin {"idle", "done", "cached", "fetch"}
      BY Zenon
    <3>2. QED
      BY <3>1, Zenon DEF InFlight
  <2>3. QED
    BY <2>1, <2>2, Zenon DEF Held
<1>2. QED
  BY <1>1, TenantsInvariant, PTL

\* A tenant that approve_registration inserted is the one its registration names,
\* unless this approval was cut off before its second statement or the registration
\* had overlapping decisions.
THEOREM ProvisionCorrect == Spec => []ProvisionedIsApproved
<1>1. TenantsInv => ProvisionedIsApproved
  BY Zenon DEF TenantsInv, DecisionInv
<1>2. QED
  BY <1>1, TenantsInvariant, PTL

\* However many approvals overlap, the UNIQUE constraint lets one of them insert a
\* tenant for the registration, until some issuer is changed.
THEOREM ApprovalCorrect == Spec => []OneTenantPerRegistration
<1>1. TenantsInv => OneTenantPerRegistration
  <2> SUFFICES ASSUME TenantsInv, ~renamed, NEW q \in Req, NEW r \in Req, tid[q] = q, tid[r] = r,
                      reg[q] # None, reg[q] = reg[r]
               PROVE  q = r
    BY Zenon DEF OneTenantPerRegistration
  <2>1. issuer[q] = regIssuer[reg[q]] /\ issuer[r] = regIssuer[reg[r]]
    BY Zenon DEF TenantsInv, DecisionInv, ProvidedIssuer
  <2>2. issuer[q] # None /\ q \in Tenant /\ r \in Tenant
    BY NoneIsNot, Zenon DEF TenantsInv, BaseInv, AtLabel
  <2>3. issuer[q] = issuer[r]
    BY <2>1, Zenon
  <2>4. QED
    BY <2>2, <2>3, Zenon DEF TenantsInv, BaseInv, OneIssuer
<1>2. QED
  BY <1>1, TenantsInvariant, PTL

\* A decision that get_registration has told of is the one the table has, and an
\* approved registration has its tenant, unless two decisions about it overlapped.
THEOREM DecisionCorrect == Spec => []DecisionsStand
<1>1. TenantsInv => DecisionsStand
  <2> SUFFICES ASSUME TenantsInv, NEW r \in Req, resp[r] \in {"approved", "rejected"}, reg[r] \notin unclear
               PROVE  /\ status[reg[r]] = resp[r]
                      /\ resp[r] = "approved" => issuer[provided[reg[r]]] # None
    BY Zenon DEF DecisionsStand
  <2>1. reg[r] \in Reg /\ status[reg[r]] = resp[r]
    BY Zenon DEF TenantsInv, DecisionInv, Told
  <2>2. QED
    BY <2>1, Zenon DEF TenantsInv, DecisionInv, Approved
<1>2. QED
  BY <1>1, TenantsInvariant, PTL
=============================================================================

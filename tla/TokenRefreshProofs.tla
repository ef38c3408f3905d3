------------------------ MODULE TokenRefreshProofs -------------------------
(***************************************************************************)
(* Refresh tokens, for any number of sessions and of requests.             *)
(***************************************************************************)
EXTENDS TokenRefresh, TLAPS

RefreshType ==
    /\ rows \subseteq Token /\ revoked \subseteq rows /\ given \subseteq rows
    /\ pc \in [Req -> {"idle", "revoke", "store", "done"}]
    /\ tok \in [Req -> Token \cup {None}]
    /\ of \in [Token -> Session \cup {None}]
    /\ resp \in [Req -> {"none", "ok", "unauthorized", "internal"}]

\* A row belongs to a session, and the row of a request comes with its last step.
RowsOwned ==
    /\ \A t \in rows : of[t] \in Session
    /\ \A r \in Req : pc[r] # "done" => r \notin rows

\* A request that has started is about a row, and in the session of that row; one
\* that has not has no answer.
Presented ==
    \A r \in Req : IF pc[r] = "idle" THEN resp[r] = "none"
                   ELSE tok[r] \in rows /\ of[r] = of[tok[r]]

\* The client's side of a session: a refusal changes nothing of it.
Held(s) == Current(s) \cap given

ClientsHold == \A s \in Session \ broken : Held(s) \cup Replacing(s) # {}

RefreshInv ==
    /\ RefreshType
    /\ RowsOwned
    /\ Presented
    /\ RefusedForAReason
    /\ ClientsHold
    /\ OneCurrent

LEMMA RefreshInit == Init => RefreshInv
<1> SUFFICES ASSUME Init PROVE RefreshInv
  OBVIOUS
<1>1. RefreshType /\ RowsOwned /\ Presented /\ RefusedForAReason
  BY RefreshAssumption DEF Init, Token, RefreshType, RowsOwned, Presented, RefusedForAReason
<1>2. \A s \in Session : Current(s) = {s} /\ Replacing(s) = {}
  BY RefreshAssumption DEF Init, Token, Current, Replacing
<1>3. \A s \in Session : s \in given
  BY DEF Init
<1>4. \A s \in Session : s \in Held(s)
  BY <1>2, <1>3, Zenon DEF Held
<1>5. ClientsHold
  BY <1>4, Zenon DEF ClientsHold
<1>6. OneCurrent
  BY <1>2 DEF OneCurrent
<1>7. QED
  BY <1>1, <1>5, <1>6, Zenon DEF RefreshInv

\* What the invariant needs of a step that leaves the tokens of every session alone.
LEMMA SessionsStay ==
    ASSUME RefreshInv, UNCHANGED <<reused, given>>, broken \subseteq broken',
           \A s \in Session \ broken' :
               Current(s)' = Current(s) /\ Replacing(s)' = Replacing(s),
           \A s \in Session :
               Current(s)' \subseteq Current(s) /\ Replacing(s)' \subseteq Replacing(s)
    PROVE  ClientsHold' /\ OneCurrent'
  BY DEF RefreshInv, ClientsHold, Held, OneCurrent

LEMMA CheckKeeps ==
    ASSUME RefreshInv, NEW r \in Req, NEW t \in given, CheckToken(r, t)
    PROVE  RefreshInv'
<1> USE DEF RefreshInv
<1>1. /\ t \in rows /\ t # r /\ r \notin rows /\ pc[r] = "idle"
      /\ pc'[r] \in {"revoke", "done"} /\ tok'[r] = t /\ of'[r] = of[t] /\ of[t] \in Session
      /\ \A q \in Req \ {r} : pc'[q] = pc[q] /\ tok'[q] = tok[q] /\ resp'[q] = resp[q]
      /\ \A x \in Token \ {r} : of'[x] = of[x]
      /\ UNCHANGED <<rows, revoked, expired, given, reused, broken>>
  BY DEF RefreshType, RowsOwned, CheckToken, Goto, Answer, Token
<1>2. RefreshType'
  BY <1>1 DEF RefreshType, CheckToken, Goto, Answer, Token
<1>3. RowsOwned'
  BY <1>1 DEF RefreshType, RowsOwned
<1>4. Presented'
  BY <1>1 DEF RefreshType, Presented, Token
<1>5. RefusedForAReason'
  <2>1. resp'[r] = "unauthorized" => IsRevoked(t)
    BY <1>1 DEF CheckToken, Goto, Presented
  <2>2. QED
    BY <1>1, <2>1 DEF RefusedForAReason, IsRevoked
<1>6. \A s \in Session : Current(s)' = Current(s) /\ Replacing(s)' = Replacing(s)
  BY <1>1 DEF Current, Replacing, RefreshType, Token
<1>7. QED
  BY <1>1, <1>2, <1>3, <1>4, <1>5, <1>6, SessionsStay

LEMMA RevokeKeeps ==
    ASSUME RefreshInv, NEW r \in Req, RevokeToken(r)
    PROVE  RefreshInv'
<1> USE DEF RefreshInv
<1> DEFINE t == tok[r]
           u == of[r]
<1>1. t \in rows /\ u = of[t] /\ u \in Session /\ pc[r] = "revoke" /\ r \notin rows
  BY DEF RevokeToken, Presented, RowsOwned
<1>2. /\ pc'[r] = "store" /\ \A q \in Req \ {r} : pc'[q] = pc[q]
      /\ revoked' = revoked \cup {t}
      /\ reused' = IF t \in revoked THEN reused \cup {u} ELSE reused
      /\ UNCHANGED <<rows, expired, given, tok, of, resp, broken>>
  BY <1>1 DEF RevokeToken, Revoked, Goto, RefreshType
<1>3. RefreshType'
  BY <1>1, <1>2 DEF RefreshType, RevokeToken, Goto
<1>4. RowsOwned' /\ Presented' /\ RefusedForAReason'
  BY <1>1, <1>2 DEF RowsOwned, Presented, RefusedForAReason
<1>5. \A s \in Session : /\ Current(s)' = Current(s) \ {t}
                         /\ Replacing(s)' = Replacing(s) \cup (IF s = u THEN {r} ELSE {})
  BY <1>1, <1>2 DEF Current, Replacing
<1>6. t \in Current(u) \/ t \in revoked
  BY <1>1 DEF Current
<1>7. \A s \in Session \ {u} : Current(s)' = Current(s) /\ Replacing(s)' = Replacing(s)
  <2>1. \A s \in Session \ {u} : t \notin Current(s)
    BY <1>1 DEF Current
  <2>2. QED
    BY <1>5, <2>1
<1>8. ClientsHold'
  BY <1>2, <1>5, <1>7 DEF ClientsHold, Held
<1>9. OneCurrent'
  <2> SUFFICES ASSUME NEW s \in Session \ reused'
               PROVE  \A x, y \in Current(s)' \cup Replacing(s)' : x = y
    BY DEF OneCurrent
  <2>1. s \notin reused
    BY <1>2
  <2>2. CASE s # u
    BY <1>7, <2>1, <2>2 DEF OneCurrent
  <2>3. CASE s = u
    <3>1. t \in Current(s)
      BY <1>2, <1>6, <2>3
    <3>2. Current(s) \cup Replacing(s) = {t}
      BY <2>1, <3>1 DEF OneCurrent
    <3>3. t \notin Replacing(s)
      BY <1>1 DEF Replacing, RowsOwned
    <3>4. Current(s)' \cup Replacing(s)' = {r}
      BY <1>5, <2>3, <3>2, <3>3
    <3>5. QED
      BY <3>4
  <2>4. QED
    BY <2>2, <2>3
<1>10. QED
  BY <1>3, <1>4, <1>8, <1>9

LEMMA StoreKeeps ==
    ASSUME RefreshInv, NEW r \in Req, StoreToken(r)
    PROVE  RefreshInv'
<1> USE DEF RefreshInv
<1>1. /\ pc[r] = "store" /\ tok[r] \in rows /\ of[r] = of[tok[r]] /\ of[r] \in Session
      /\ r \notin rows /\ r \in Token
  BY DEF StoreToken, Presented, RowsOwned, Token
<1>2. /\ pc'[r] = "done" /\ \A q \in Req \ {r} : pc'[q] = pc[q] /\ resp'[q] = resp[q]
      /\ resp'[r] = "ok"
      /\ rows' = rows \cup {r} /\ given \subseteq given' /\ given' \subseteq given \cup {r}
      /\ broken \subseteq broken' /\ (r \in given' \/ of[r] \in broken')
      /\ UNCHANGED <<revoked, expired, tok, of, reused>>
  BY DEF StoreToken, Stored, Answer, RefreshType
<1>3. RefreshType'
  <2>1. pc' \in [Req -> {"idle", "revoke", "store", "done"}]
        /\ resp' \in [Req -> {"none", "ok", "unauthorized", "internal"}]
    BY DEF StoreToken, Answer, RefreshType
  <2>2. QED
    BY <1>1, <1>2, <2>1 DEF RefreshType
<1>4. RowsOwned' /\ Presented' /\ RefusedForAReason'
  BY <1>1, <1>2 DEF RowsOwned, Presented, RefusedForAReason
<1>5. \A s \in Session : Current(s)' \cup Replacing(s)' = Current(s) \cup Replacing(s)
  BY <1>1, <1>2 DEF Current, Replacing, RefreshType
<1>6. OneCurrent'
  BY <1>2, <1>5 DEF OneCurrent
<1>7. ClientsHold'
  <2> SUFFICES ASSUME NEW s \in Session \ broken'
               PROVE  Held(s)' \cup Replacing(s)' # {}
    BY DEF ClientsHold
  <2>1. Held(s) \subseteq Held(s)'
    BY <1>2 DEF Held, Current
  <2>2. Replacing(s) \ {r} \subseteq Replacing(s)'
    BY <1>2 DEF Replacing
  <2>3. r \in Replacing(s) => r \in Held(s)'
    BY <1>1, <1>2 DEF Held, Current, Replacing, RefreshType
  <2>4. QED
    BY <1>2, <2>1, <2>2, <2>3 DEF ClientsHold
<1>8. QED
  BY <1>3, <1>4, <1>6, <1>7

LEMMA AbortKeeps ==
    ASSUME RefreshInv, NEW r \in Req, Abort(r)
    PROVE  RefreshInv'
<1> USE DEF RefreshInv
<1>1. /\ pc[r] \in {"revoke", "store"}
      /\ pc'[r] = "done" /\ \A q \in Req \ {r} : pc'[q] = pc[q] /\ resp'[q] = resp[q]
      /\ resp'[r] = "internal"
      /\ broken' = IF pc[r] = "store" THEN broken \cup {of[r]} ELSE broken
      /\ UNCHANGED <<rows, revoked, expired, given, tok, of, reused>>
  BY DEF Abort, Answer, RefreshType
<1>2. RefreshType'
  BY <1>1 DEF RefreshType, Abort, Answer
<1>3. RowsOwned' /\ Presented' /\ RefusedForAReason'
  BY <1>1 DEF RowsOwned, Presented, RefusedForAReason
<1>4. \A s \in Session : Current(s)' = Current(s) /\ Replacing(s)' \subseteq Replacing(s)
  BY <1>1 DEF Current, Replacing
<1>5. \A s \in Session \ broken' : Replacing(s)' = Replacing(s)
  BY <1>1 DEF Replacing
<1>6. QED
  BY <1>1, <1>2, <1>3, <1>4, <1>5, SessionsStay

LEMMA ExpireKeeps ==
    ASSUME RefreshInv, NEW t \in Token, Expire(t)
    PROVE  RefreshInv'
  BY DEF RefreshInv, Expire, RefreshType, RowsOwned, Presented, RefusedForAReason,
     ClientsHold, Held, OneCurrent, Current, Replacing

LEMMA RefreshInvariant == Spec => []RefreshInv
<1>1. RefreshInv /\ [Next]_vars => RefreshInv'
  <2> SUFFICES ASSUME RefreshInv, [Next]_vars PROVE RefreshInv'
    OBVIOUS
  <2>1. CASE Next
    BY <2>1, CheckKeeps, RevokeKeeps, StoreKeeps, AbortKeeps, ExpireKeeps DEF Next
  <2>2. CASE UNCHANGED vars
    BY <2>2 DEF vars, RefreshInv, RefreshType, RowsOwned, Presented, RefusedForAReason,
       ClientsHold, Held, OneCurrent, Current, Replacing
  <2>3. QED
    BY <2>1, <2>2
<1>2. QED
  BY <1>1, RefreshInit, PTL DEF Spec

\* handle_refresh: unless two requests consume one token at once, a session has one
\* token that can be exchanged or one request that is about to store one.
THEOREM RotationKeepsOne == Spec => []OneCurrent
  BY RefreshInvariant, PTL DEF RefreshInv

\* revoke comes before store_refresh_token, so a client that was not refused is left
\* without a token only by an error between the two or by a lost answer.
THEOREM SessionsSurvive == Spec => []SessionSurvives
<1>1. RefreshInv => SessionSurvives
  BY DEF RefreshInv, ClientsHold, Held, SessionSurvives
<1>2. QED
  BY <1>1, RefreshInvariant, PTL

\* is_revoked refuses no token a client was given unless it was consumed or is old,
\* and the UPDATE of revoke always finds its row.
THEOREM RefusalsHaveReasons == Spec => []RefusedForAReason
  BY RefreshInvariant, PTL DEF RefreshInv
=============================================================================

---------------------------- MODULE TokenRefresh ----------------------------
(***************************************************************************)
(* Refresh tokens: PgTokenStore (crates/auth/src/token_store.rs) and       *)
(* POST /auth/refresh (crates/auth/src/refresh.rs).                        *)
(*                                                                         *)
(* A session is a refresh token that issue_token_pair stored, and what it  *)
(* is exchanged for.  Each element of Req is one HTTP request, served      *)
(* once; it also names the token it issues, since every jti is new.  The   *)
(* handler awaits three statements, each committed by itself.              *)
(***************************************************************************)
EXTENDS TLC

CONSTANTS
    Req,        \* HTTP requests
    Session,    \* refresh tokens issued before the behaviour starts
    None

Token == Session \cup Req

ASSUME RefreshAssumption == Session \cap Req = {} /\ None \notin Token

VARIABLES
    rows,       \* table refresh_tokens: the jtis it has
    revoked,    \* those with revoked = TRUE
    expired,    \* those with expires_at < NOW()
    given,      \* the tokens clients have

    pc,         \* where the request is in handle_refresh
    tok,        \* the token it presents
    of,         \* the session a token belongs to
    resp,       \* the answer

    reused,     \* sessions in which a token was revoked twice
    broken      \* sessions in which an error or a lost answer followed the revocation

vars == <<rows, revoked, expired, given, pc, tok, of, resp, reused, broken>>

Init ==
    /\ rows = Session
    /\ revoked = {}
    /\ expired = {}
    /\ given = Session
    /\ pc = [r \in Req |-> "idle"]
    /\ tok = [r \in Req |-> None]
    /\ of = [t \in Token |-> IF t \in Session THEN t ELSE None]
    /\ resp = [r \in Req |-> "none"]
    /\ reused = {}
    /\ broken = {}

Goto(r, l) == pc' = [pc EXCEPT ![r] = l] /\ UNCHANGED resp

Answer(r, a) == pc' = [pc EXCEPT ![r] = "done"] /\ resp' = [resp EXCEPT ![r] = a]

\* Mutant: an expired row is taken for a valid one, a valid one for expired.
IsRevokedSwapped(t) == t \notin rows \/ t \in revoked \/ t \notin expired

\* is_revoked: not found, revoked or expired.
IsRevoked(t) == t \notin rows \/ t \in revoked \/ t \in expired

\* decode and is_revoked
CheckToken(r, t) ==
    /\ pc[r] = "idle"
    /\ tok' = [tok EXCEPT ![r] = t]
    /\ of' = [of EXCEPT ![r] = of[t]]
    /\ IF IsRevoked(t) THEN Answer(r, "unauthorized") ELSE Goto(r, "revoke")
    /\ UNCHANGED <<rows, revoked, expired, given, reused, broken>>

\* Mutant: the consumed token stays valid.
RevokedNone(t) == revoked

\* UPDATE ... SET revoked = TRUE WHERE jti = t
Revoked(t) == revoked \cup {t}

\* revoke: the UPDATE finds its row whether or not it was revoked before.
RevokeToken(r) ==
    /\ pc[r] = "revoke"
    /\ IF tok[r] \in rows
       THEN /\ revoked' = Revoked(tok[r])
            /\ reused' = IF tok[r] \in revoked THEN reused \cup {of[r]} ELSE reused
            /\ Goto(r, "store")
       ELSE /\ Answer(r, "unauthorized")
            /\ UNCHANGED <<revoked, reused>>
    /\ UNCHANGED <<rows, expired, given, tok, of, broken>>

\* Mutant: the new token is stored under the jti of the old one.
StoredUnderOld(r) == rows \cup {tok[r]}

Stored(r) == rows \cup {r}

\* store_refresh_token and the answer, which may not reach the client.
StoreToken(r) ==
    /\ pc[r] = "store"
    /\ rows' = Stored(r)
    /\ Answer(r, "ok")
    /\ \/ given' = given \cup {r} /\ UNCHANGED broken
       \/ broken' = broken \cup {of[r]} /\ UNCHANGED given
    /\ UNCHANGED <<revoked, expired, tok, of, reused>>

\* A statement fails, and with it the request.
Abort(r) ==
    /\ pc[r] \in {"revoke", "store"}
    /\ Answer(r, "internal")
    /\ broken' = IF pc[r] = "store" THEN broken \cup {of[r]} ELSE broken
    /\ UNCHANGED <<rows, revoked, expired, given, tok, of, reused>>

\* Thirty days pass.
Expire(t) ==
    /\ t \in rows \ expired
    /\ expired' = expired \cup {t}
    /\ UNCHANGED <<rows, revoked, given, pc, tok, of, resp, reused, broken>>

Next ==
    \/ \E r \in Req :
          \/ \E t \in given : CheckToken(r, t)
          \/ RevokeToken(r)
          \/ StoreToken(r)
          \/ Abort(r)
    \/ \E t \in Token : Expire(t)

Spec == Init /\ [][Next]_vars

(***************************************************************************)
(* Properties.                                                             *)
(***************************************************************************)

\* The tokens of s that can still be exchanged, but for their age.
Current(s) == {t \in rows \ revoked : of[t] = s}

Replacing(s) == {r \in Req : pc[r] = "store" /\ of[r] = s}

\* Rotation: as long as no token of a session is consumed by two requests at
\* once, the session has at most one token that can be exchanged, or one request
\* that is about to store one.
OneCurrent ==
    \A s \in Session \ reused : \A x, y \in Current(s) \cup Replacing(s) : x = y

\* Some request that presented a token of s was answered 401.
Refused(s) == \E r \in Req : resp[r] = "unauthorized" /\ of[r] = s

\* handle_refresh revokes before it stores: the client is without a token that can
\* be exchanged only while a request replaces it, after an error between the two
\* statements or an answer that was lost, or once it has been refused.
SessionSurvives ==
    \A s \in Session \ broken :
        ~Refused(s) => (Current(s) \cap given) \cup Replacing(s) # {}

\* A token that clients have is refused only when it was consumed or has expired.
RefusedForAReason ==
    \A r \in Req : resp[r] = "unauthorized" => tok[r] \in revoked \cup expired
=============================================================================

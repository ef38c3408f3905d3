----------------------------- MODULE KdsProofs -----------------------------
(***************************************************************************)
(* The key distribution server, for any number of requests, devices and    *)
(* keys: type correctness, and what a request knows at each step; each     *)
(* one-time prekey is given out once, exactly the ones given out are       *)
(* consumed, and no row is ever revived or replaced; whatever signed       *)
(* prekey is stored or handed out verifies; and what the server says about *)
(* a pool of one-time prekeys is true, the warning "depleted" and the      *)
(* event low_otpk.                                                         *)
(***************************************************************************)
EXTENDS Kds, FiniteSetTheorems, TLAPS

Registering == RegisterTx \cup {"reg_begin"}

\* Requests that work on a device row they have seen committed.
OnDevice == FetchTx \cup ReplenishTx \cup {"fetch_notify", "rot_write"}

\* What a request has read or been given, by how far it has come.
ShapeAt(r) ==
    /\ pc[r] \in Registering => /\ usr[r] \in User
                                /\ ident[r] \in Identity
                                /\ spk[r] \in Spk
    /\ pc[r] \in OnDevice => dev[r] \in Device /\ devUser[dev[r]] # None
    /\ pc[r] = "reg_commit" => dev[r] \in Device
    /\ pc[r] = "rot_write" => spk[r] \in Spk
    /\ pc[r] \in {"fetch_mark", "fetch_commit"} => key[r] \in KeyId

Shape == \A r \in Req : ShapeAt(r)

TypeInv == TypeOK /\ Shape

LEMMA TypeInit == Init => TypeInv
<1> SUFFICES ASSUME NEW n \in SeedCounts, Seeded(n) PROVE TypeInv
  BY Zenon DEF Init
<1>1. TypeOK
  BY KdsAssumption DEF Seeded, TypeOK, RowsWhole, NoKeys, Labels, Responses
<1>2. Shape
  BY Zenon DEF Seeded, Shape, ShapeAt, Registering, OnDevice, RegisterTx, FetchTx, ReplenishTx
<1>3. QED
  BY <1>1, <1>2, Zenon DEF TypeInv

\* The parts of the assumption on the constants that steps need.
LEMMA NoneFacts == None \notin User /\ None \notin Device /\ None \notin KeyId
                   /\ None \notin Identity /\ None \notin Spk
                   /\ None \notin Device \X KeyId
  BY KdsAssumption, Zenon

LEMMA UploadsAreLists == Uploads \subseteq Seq(KeyId)
  BY KdsAssumption, Zenon

\* A set of key ids has a number of elements.
LEMMA KeysCount == \A S \in SUBSET KeyId : Cardinality(S) \in Nat
  BY KdsAssumption, FS_Subset, FS_CardinalityType, Zenon

\* What the handlers' checks let through, and what they answer otherwise.
LEMMA Refusals ==
    /\ \A u \in User, own \in BOOLEAN, ks \in Uploads, i \in Identity, s \in Spk :
          LET a == RegisterRefusal(u, own, ks, i, s) IN
          /\ a \in Responses \ {"bundle", "depleted"}
          /\ a = "none" => Verifies(i, s)
    /\ \A d \in Device, own \in BOOLEAN, ks \in Uploads :
          LET a == ReplenishRefusal(d, own, ks) IN
          /\ a \in Responses \ {"bundle", "depleted"}
          /\ a = "none" => devUser[d] # None
    /\ \A d \in Device, own \in BOOLEAN, s \in Spk :
          LET a == RotateRefusal(d, own, s) IN
          /\ a \in Responses \ {"bundle", "depleted"}
          /\ a = "none" => devUser[d] # None /\ Verifies(devIdent[d], s)
<1>1. ASSUME NEW u \in User, NEW own \in BOOLEAN, NEW ks \in Uploads,
             NEW i \in Identity, NEW s \in Spk
      PROVE  /\ RegisterRefusal(u, own, ks, i, s) \in Responses \ {"bundle", "depleted"}
             /\ RegisterRefusal(u, own, ks, i, s) = "none" => Verifies(i, s)
  BY Zenon DEF RegisterRefusal, Responses
<1>2. ASSUME NEW d \in Device, NEW own \in BOOLEAN, NEW ks \in Uploads
      PROVE  /\ ReplenishRefusal(d, own, ks) \in Responses \ {"bundle", "depleted"}
             /\ ReplenishRefusal(d, own, ks) = "none" => devUser[d] # None
  BY Zenon DEF ReplenishRefusal, Responses
<1>3. ASSUME NEW d \in Device, NEW own \in BOOLEAN, NEW s \in Spk
      PROVE  /\ RotateRefusal(d, own, s) \in Responses \ {"bundle", "depleted"}
             /\ RotateRefusal(d, own, s) = "none" =>
                   devUser[d] # None /\ Verifies(devIdent[d], s)
  BY Zenon DEF RotateRefusal, Responses
<1>4. QED
  BY <1>1, <1>2, <1>3, Zenon

\* Where control goes has its type.
LEMMA GotoType ==
    ASSUME pc \in [Req -> Labels], resp \in [Req -> Responses],
           NEW r \in Req, NEW l \in Labels, Goto(r, l)
    PROVE  pc' \in [Req -> Labels] /\ resp' \in [Req -> Responses]
  BY Zenon DEF Goto

LEMMA AnswerType ==
    ASSUME pc \in [Req -> Labels], resp \in [Req -> Responses],
           NEW r \in Req, NEW a \in Responses, Answer(r, a)
    PROVE  pc' \in [Req -> Labels] /\ resp' \in [Req -> Responses]
  BY Zenon DEF Answer, Labels

LEMMA Names ==
    /\ {"reg_begin", "reg_user", "reg_count", "reg_insert", "reg_commit"} \subseteq Labels
    /\ {"fetch_otpk", "fetch_mark", "fetch_commit", "fetch_notify"} \subseteq Labels
    /\ {"repl_insert", "repl_sync", "repl_commit", "rot_write", "done"} \subseteq Labels
    /\ {"limit", "not_found", "storage", "created"} \subseteq Responses
    /\ {"bundle", "depleted", "replenished", "rotated"} \subseteq Responses
  BY Zenon DEF Labels, Responses, RegisterTx, FetchTx, ReplenishTx

(* The facts of TypeInv, one by one: a leaf below cites the ones it needs.  *)
LEMMA UsersType == TypeInv => users \subseteq User
  BY Zenon DEF TypeInv, TypeOK
LEMMA DevUserType == TypeInv => devUser \in [Device -> User \cup {None}]
  BY Zenon DEF TypeInv, TypeOK
LEMMA DevAtType == TypeInv => devAt \in [Device -> Nat]
  BY Zenon DEF TypeInv, TypeOK
LEMMA DevIdentType == TypeInv => devIdent \in [Device -> Identity \cup {None}]
  BY Zenon DEF TypeInv, TypeOK
LEMMA DevSpkType == TypeInv => devSpk \in [Device -> Spk \cup {None}]
  BY Zenon DEF TypeInv, TypeOK
LEMMA DevCountType == TypeInv => devCount \in [Device -> Nat]
  BY Zenon DEF TypeInv, TypeOK
LEMMA OtpkType == TypeInv => otpk \in [Device -> [KeyId -> {"absent", "free", "consumed"}]]
  BY Zenon DEF TypeInv, TypeOK
LEMMA OtpkIdType == TypeInv => otpkId \in [Device -> [KeyId -> Nat]]
  BY Zenon DEF TypeInv, TypeOK
LEMMA NextIdType == TypeInv => nextId \in Nat
  BY Zenon DEF TypeInv, TypeOK
LEMMA ClockType == TypeInv => clock \in Nat
  BY Zenon DEF TypeInv, TypeOK
LEMMA PcType == TypeInv => pc \in [Req -> Labels]
  BY Zenon DEF TypeInv, TypeOK
LEMMA RespType == TypeInv => resp \in [Req -> Responses]
  BY Zenon DEF TypeInv, TypeOK
LEMMA UsrType == TypeInv => usr \in [Req -> User \cup {None}]
  BY Zenon DEF TypeInv, TypeOK
LEMMA DevType == TypeInv => dev \in [Req -> Device \cup {None}]
  BY Zenon DEF TypeInv, TypeOK
LEMMA TodoType == TypeInv => todo \in [Req -> Seq(KeyId)]
  BY Zenon DEF TypeInv, TypeOK
LEMMA MineType == TypeInv => mine \in [Req -> [KeyId -> Nat]]
  BY Zenon DEF TypeInv, TypeOK
LEMMA NewUserType == TypeInv => newUser \in [Req -> BOOLEAN]
  BY Zenon DEF TypeInv, TypeOK
LEMMA KeyType == TypeInv => key \in [Req -> KeyId \cup {None}]
  BY Zenon DEF TypeInv, TypeOK
LEMMA IdentType == TypeInv => ident \in [Req -> Identity \cup {None}]
  BY Zenon DEF TypeInv, TypeOK
LEMMA SpkType == TypeInv => spk \in [Req -> Spk \cup {None}]
  BY Zenon DEF TypeInv, TypeOK
LEMMA NumType == TypeInv => num \in [Req -> Nat]
  BY Zenon DEF TypeInv, TypeOK
LEMMA TakenType == TypeInv => taken \in [Req -> (Device \X KeyId) \cup {None}]
  BY Zenon DEF TypeInv, TypeOK
LEMMA NotifiedType == TypeInv => notified \subseteq Device
  BY Zenon DEF TypeInv, TypeOK
LEMMA RowsAreWhole == TypeInv => RowsWhole
  BY Zenon DEF TypeInv, TypeOK
LEMMA ShapeHolds == TypeInv => Shape
  BY Zenon DEF TypeInv

(* What a step does to the requests that do not take it.                    *)
Elsewhere(r) ==
    /\ \A q \in Req \ {r} : /\ pc'[q] = pc[q] /\ usr'[q] = usr[q] /\ dev'[q] = dev[q]
                            /\ key'[q] = key[q] /\ ident'[q] = ident[q] /\ spk'[q] = spk[q]
    /\ \A d \in Device : devUser[d] # None => devUser'[d] # None

LEMMA ShapeLocal ==
    ASSUME Shape, NEW r \in Req, Elsewhere(r), ShapeAt(r)'
    PROVE  Shape'
<1>1. ASSUME NEW q \in Req \ {r} PROVE ShapeAt(q)'
  BY <1>1 DEF Shape, ShapeAt, Elsewhere, OnDevice
<1>2. QED
  BY <1>1, Zenon DEF Shape

LEMMA TypeRegisterRequest ==
    ASSUME TypeInv, NEW r \in Req, NEW u \in User, NEW own \in BOOLEAN,
       NEW ks \in Uploads, NEW i \in Identity, NEW s \in Spk, RegisterRequest(r, u, own,
       ks, i, s)
    PROVE  TypeInv'
<1>1. /\ RegisterRefusal(u, own, ks, i, s) \in Responses
      /\ RegisterRefusal(u, own, ks, i, s) = "none" => Verifies(i, s)
  BY Refusals, Zenon
<1>2. ks \in Seq(KeyId)
  BY UploadsAreLists, Zenon
<1>3. pc' \in [Req -> Labels] /\ resp' \in [Req -> Responses]
  BY PcType, RespType, <1>1, GotoType, AnswerType, Names, Zenon DEF RegisterRequest
<1>4. usr' \in [Req -> User \cup {None}]
  BY UsrType, <1>1, Zenon DEF RegisterRequest
<1>5. todo' \in [Req -> Seq(KeyId)]
  BY TodoType, <1>1, <1>2, Zenon DEF RegisterRequest
<1>6. ident' \in [Req -> Identity \cup {None}]
  BY IdentType, <1>1, Zenon DEF RegisterRequest
<1>7. spk' \in [Req -> Spk \cup {None}]
  BY SpkType, <1>1, Zenon DEF RegisterRequest
<1>8. UNCHANGED <<users, devUser, devAt, devIdent, devSpk, devCount, otpk, otpkId,
                nextId, clock, dev, mine, newUser, key, num, taken, notified>>
  BY Zenon DEF RegisterRequest, db, locals
<1>9. RowsWhole'
  BY RowsAreWhole, <1>8, Zenon DEF RowsWhole
<1>10. TypeOK'
  BY <1>3, <1>4, <1>5, <1>6, <1>7, <1>8, <1>9, Zenon DEF TypeInv, TypeOK
<1>11. \A q \in Req \ {r} : pc'[q] = pc[q]
  BY PcType, Zenon DEF RegisterRequest, Goto, Answer
<1>12. \A q \in Req \ {r} : usr'[q] = usr[q]
  BY UsrType, Zenon DEF RegisterRequest
<1>13. \A q \in Req \ {r} : ident'[q] = ident[q]
  BY IdentType, Zenon DEF RegisterRequest
<1>14. \A q \in Req \ {r} : spk'[q] = spk[q]
  BY SpkType, Zenon DEF RegisterRequest
<1>15. Elsewhere(r)
  BY <1>11, <1>12, <1>13, <1>14, <1>8, Zenon DEF Elsewhere
<1>16. \/ pc'[r] = "done"
       \/ pc'[r] = "reg_begin" /\ usr'[r] = u /\ ident'[r] = i /\ spk'[r] = s
  <2>1. CASE RegisterRefusal(u, own, ks, i, s) # "none"
    BY <2>1, PcType, Zenon DEF RegisterRequest, Goto, Answer
  <2>2. CASE RegisterRefusal(u, own, ks, i, s) = "none"
    BY <2>2, <1>1, PcType, UsrType, IdentType, SpkType, Zenon DEF RegisterRequest, Goto, Answer
  <2>3. QED
    BY <2>1, <2>2, Zenon
<1>17. ShapeAt(r)'
  BY ShapeHolds, <1>8, <1>16, Zenon DEF Shape, ShapeAt, Registering, OnDevice, RegisterTx,
     FetchTx, ReplenishTx
<1>18. Shape'
  BY ShapeHolds, <1>15, <1>17, ShapeLocal, Zenon
<1>19. QED
  BY <1>10, <1>18, Zenon DEF TypeInv

LEMMA TypeRegisterBegin ==
    ASSUME TypeInv, NEW r \in Req, RegisterBegin(r)
    PROVE  TypeInv'
<1>1. pc' \in [Req -> Labels] /\ resp' \in [Req -> Responses]
  BY PcType, RespType, GotoType, AnswerType, Names, Zenon DEF RegisterBegin
<1>2. clock' \in Nat
  BY ClockType DEF RegisterBegin
<1>3. num' \in [Req -> Nat]
  BY NumType, ClockType DEF RegisterBegin
<1>4. UNCHANGED <<users, devUser, devAt, devIdent, devSpk, devCount, otpk, otpkId,
                nextId, usr, dev, todo, mine, newUser, key, ident, spk, taken, notified>>
  BY Zenon DEF RegisterBegin, db, locals
<1>5. RowsWhole'
  BY RowsAreWhole, <1>4, Zenon DEF RowsWhole
<1>6. TypeOK'
  BY <1>1, <1>2, <1>3, <1>4, <1>5, Zenon DEF TypeInv, TypeOK
<1>7. \A q \in Req \ {r} : pc'[q] = pc[q]
  BY PcType, Zenon DEF RegisterBegin, Goto, Answer
<1>8. Elsewhere(r)
  BY <1>7, <1>4, Zenon DEF Elsewhere
<1>9. pc[r] = "reg_begin" /\ pc'[r] = "reg_user"
  BY PcType, Zenon DEF RegisterBegin, Goto, Answer
<1>10. ShapeAt(r)'
  BY ShapeHolds, <1>4, <1>9, Zenon DEF Shape, ShapeAt, Registering, OnDevice, RegisterTx,
     FetchTx, ReplenishTx
<1>11. Shape'
  BY ShapeHolds, <1>8, <1>10, ShapeLocal, Zenon
<1>12. QED
  BY <1>6, <1>11, Zenon DEF TypeInv

LEMMA TypeRegisterUpsertUser ==
    ASSUME TypeInv, NEW r \in Req, RegisterUpsertUser(r)
    PROVE  TypeInv'
<1>1. pc' \in [Req -> Labels] /\ resp' \in [Req -> Responses]
  BY PcType, RespType, GotoType, AnswerType, Names, Zenon DEF RegisterUpsertUser
<1>2. newUser' \in [Req -> BOOLEAN]
  BY NewUserType, Zenon DEF RegisterUpsertUser
<1>3. UNCHANGED <<users, devUser, devAt, devIdent, devSpk, devCount, otpk, otpkId,
                nextId, clock, usr, dev, todo, mine, key, ident, spk, num, taken,
                notified>>
  BY Zenon DEF RegisterUpsertUser, db, locals
<1>4. RowsWhole'
  BY RowsAreWhole, <1>3, Zenon DEF RowsWhole
<1>5. TypeOK'
  BY <1>1, <1>2, <1>3, <1>4, Zenon DEF TypeInv, TypeOK
<1>6. \A q \in Req \ {r} : pc'[q] = pc[q]
  BY PcType, Zenon DEF RegisterUpsertUser, Goto, Answer
<1>7. Elsewhere(r)
  BY <1>6, <1>3, Zenon DEF Elsewhere
<1>8. pc[r] = "reg_user" /\ pc'[r] = "reg_count"
  BY PcType, Zenon DEF RegisterUpsertUser, Goto, Answer
<1>9. ShapeAt(r)'
  BY ShapeHolds, <1>3, <1>8, Zenon DEF Shape, ShapeAt, Registering, OnDevice, RegisterTx,
     FetchTx, ReplenishTx
<1>10. Shape'
  BY ShapeHolds, <1>7, <1>9, ShapeLocal
<1>11. QED
  BY <1>5, <1>10 DEF TypeInv

LEMMA TypeRegisterCount ==
    ASSUME TypeInv, NEW r \in Req, RegisterCount(r)
    PROVE  TypeInv'
<1>1. pc' \in [Req -> Labels] /\ resp' \in [Req -> Responses]
  BY PcType, RespType, GotoType, AnswerType, Names, Zenon DEF RegisterCount
<1>2. UNCHANGED <<users, devUser, devAt, devIdent, devSpk, devCount, otpk, otpkId,
                nextId, clock, usr, dev, todo, mine, newUser, key, ident, spk, num,
                taken, notified>>
  BY Zenon DEF RegisterCount, db, locals
<1>3. RowsWhole'
  BY RowsAreWhole, <1>2, Zenon DEF RowsWhole
<1>4. TypeOK'
  BY <1>1, <1>2, <1>3, Zenon DEF TypeInv, TypeOK
<1>5. \A q \in Req \ {r} : pc'[q] = pc[q]
  BY PcType, Zenon DEF RegisterCount, Goto, Answer
<1>6. Elsewhere(r)
  BY <1>5, <1>2, Zenon DEF Elsewhere
<1>7. pc[r] = "reg_count" /\ pc'[r] \in {"done", "reg_insert"}
  BY PcType, Zenon DEF RegisterCount, Goto, Answer
<1>8. ShapeAt(r)'
  BY ShapeHolds, <1>2, <1>7, Zenon DEF Shape, ShapeAt, Registering, OnDevice, RegisterTx,
     FetchTx, ReplenishTx
<1>9. Shape'
  BY ShapeHolds, <1>6, <1>8, ShapeLocal, ZenonT(30)
<1>10. QED
  BY <1>4, <1>9, ZenonT(30) DEF TypeInv

LEMMA TypeRegisterInsert ==
    ASSUME TypeInv, NEW r \in Req, NEW d \in Device, RegisterInsert(r, d)
    PROVE  TypeInv'
<1>1. pc' \in [Req -> Labels] /\ resp' \in [Req -> Responses]
  BY PcType, RespType, GotoType, AnswerType, Names, Zenon DEF RegisterInsert
<1>2. dev' \in [Req -> Device \cup {None}]
  BY DevType, Zenon DEF RegisterInsert
<1>3. mine' \in [Req -> [KeyId -> Nat]]
  <2>1. ASSUME NEW k \in KeyId, NEW j \in DOMAIN todo[r], todo[r][j] = k
        PROVE  nextId + (CHOOSE i \in DOMAIN todo[r] : todo[r][i] = k) - 1 \in Nat
    <3>1. (CHOOSE i \in DOMAIN todo[r] : todo[r][i] = k) \in 1 .. Len(todo[r])
      BY TodoType, <2>1
    <3>2. QED
      BY NextIdType, TodoType, <3>1
  <2>2. [k \in KeyId |-> IF \E i \in DOMAIN todo[r] : todo[r][i] = k
                        THEN nextId + (CHOOSE i \in DOMAIN todo[r] : todo[r][i] = k) - 1
                        ELSE 0] \in [KeyId -> Nat]
    BY <2>1, Zenon
  <2>3. QED
    BY MineType, <2>2, Zenon DEF RegisterInsert
<1>4. nextId' \in Nat
  BY NextIdType, TodoType DEF RegisterInsert
<1>5. UNCHANGED <<users, devUser, devAt, devIdent, devSpk, devCount, otpk, otpkId,
                clock, usr, todo, newUser, key, ident, spk, num, taken, notified>>
  BY Zenon DEF RegisterInsert, db, locals
<1>6. RowsWhole'
  BY RowsAreWhole, <1>5, Zenon DEF RowsWhole
<1>7. TypeOK'
  BY <1>1, <1>2, <1>3, <1>4, <1>5, <1>6, Zenon DEF TypeInv, TypeOK
<1>8. \A q \in Req \ {r} : pc'[q] = pc[q]
  BY PcType, Zenon DEF RegisterInsert, Goto, Answer
<1>9. \A q \in Req \ {r} : dev'[q] = dev[q]
  BY DevType, Zenon DEF RegisterInsert
<1>10. Elsewhere(r)
  BY <1>8, <1>9, <1>5, Zenon DEF Elsewhere
<1>11. pc[r] = "reg_insert" /\ pc'[r] \in {"done", "reg_commit"} /\ dev'[r] = d
  BY PcType, DevType, Zenon DEF RegisterInsert, Goto, Answer
<1>12. ShapeAt(r)'
  BY ShapeHolds, <1>5, <1>11, Zenon DEF Shape, ShapeAt, Registering, OnDevice, RegisterTx,
     FetchTx, ReplenishTx
<1>13. Shape'
  BY ShapeHolds, <1>10, <1>12, ShapeLocal, Zenon
<1>14. QED
  BY <1>7, <1>13, Zenon DEF TypeInv

LEMMA TypeRegisterCommit ==
    ASSUME TypeInv, NEW r \in Req, RegisterCommit(r)
    PROVE  TypeInv'
<1>1. dev[r] \in Device /\ usr[r] \in User /\ ident[r] \in Identity /\ spk[r] \in Spk
  BY ShapeHolds, Zenon DEF RegisterCommit, Shape, ShapeAt, Registering, OnDevice, RegisterTx,
     FetchTx, ReplenishTx
<1>2. pc' \in [Req -> Labels] /\ resp' \in [Req -> Responses]
  BY PcType, RespType, GotoType, AnswerType, Names, Zenon DEF RegisterCommit
<1>3. users' \subseteq User
  BY UsersType, <1>1, Zenon DEF RegisterCommit
<1>4. devUser' \in [Device -> User \cup {None}]
  BY DevUserType, <1>1, Zenon DEF RegisterCommit
<1>5. devAt' \in [Device -> Nat]
  BY DevAtType, <1>1, NumType, Zenon DEF RegisterCommit
<1>6. devIdent' \in [Device -> Identity \cup {None}]
  BY DevIdentType, <1>1, Zenon DEF RegisterCommit
<1>7. devSpk' \in [Device -> Spk \cup {None}]
  BY DevSpkType, <1>1, Zenon DEF RegisterCommit
<1>8. devCount' \in [Device -> Nat]
  BY DevCountType, <1>1, TodoType DEF RegisterCommit
<1>9. otpk' \in [Device -> [KeyId -> {"absent", "free", "consumed"}]]
  BY OtpkType, <1>1, Zenon DEF RegisterCommit, PublishKeys
<1>10. otpkId' \in [Device -> [KeyId -> Nat]]
  BY OtpkIdType, <1>1, MineType DEF RegisterCommit, PublishKeys
<1>11. UNCHANGED <<nextId, clock, usr, dev, todo, mine, newUser, key, ident, spk,
                num, taken, notified>>
  BY Zenon DEF RegisterCommit, db, locals
<1>12. RowsWhole'
  BY RowsAreWhole, DevUserType, DevIdentType, DevSpkType, <1>1, NoneFacts, Zenon DEF
     RegisterCommit, RowsWhole
<1>13. TypeOK'
  BY <1>2, <1>3, <1>4, <1>5, <1>6, <1>7, <1>8, <1>9, <1>10, <1>11, <1>12, Zenon DEF
     TypeInv, TypeOK
<1>14. \A q \in Req \ {r} : pc'[q] = pc[q]
  BY PcType, Zenon DEF RegisterCommit, Goto, Answer
<1>15. \A d \in Device : devUser[d] # None => devUser'[d] # None
  BY DevUserType, <1>1, NoneFacts, Zenon DEF RegisterCommit
<1>16. Elsewhere(r)
  BY <1>14, <1>15, <1>11, Zenon DEF Elsewhere
<1>17. pc'[r] = "done"
  BY PcType, Zenon DEF RegisterCommit, Goto, Answer
<1>18. ShapeAt(r)'
  BY ShapeHolds, <1>11, <1>17, <1>15, Zenon DEF Shape, ShapeAt, Registering, OnDevice,
     RegisterTx, FetchTx, ReplenishTx
<1>19. Shape'
  BY ShapeHolds, <1>16, <1>18, ShapeLocal, ZenonT(30)
<1>20. QED
  BY <1>13, <1>19, ZenonT(30) DEF TypeInv

LEMMA TypeFetchSelectDevice ==
    ASSUME TypeInv, NEW r \in Req, NEW u \in User, FetchSelectDevice(r, u)
    PROVE  TypeInv'
<1>1. \A d \in Oldest(u) : d \in Device /\ devUser[d] # None
  BY NoneFacts, Zenon DEF Oldest, DevicesOf
<1>2. pc' \in [Req -> Labels] /\ resp' \in [Req -> Responses]
  BY PcType, RespType, GotoType, AnswerType, Names, Zenon DEF FetchSelectDevice
<1>3. usr' \in [Req -> User \cup {None}]
  BY UsrType, <1>1, Zenon DEF FetchSelectDevice
<1>4. dev' \in [Req -> Device \cup {None}]
  BY DevType, <1>1, Zenon DEF FetchSelectDevice
<1>5. ident' \in [Req -> Identity \cup {None}]
  BY IdentType, <1>1, DevIdentType, Zenon DEF FetchSelectDevice
<1>6. spk' \in [Req -> Spk \cup {None}]
  BY SpkType, <1>1, DevSpkType, Zenon DEF FetchSelectDevice
<1>7. UNCHANGED <<users, devUser, devAt, devIdent, devSpk, devCount, otpk, otpkId,
                nextId, clock, todo, mine, newUser, key, num, taken, notified>>
  BY Zenon DEF FetchSelectDevice, db, locals
<1>8. RowsWhole'
  BY RowsAreWhole, <1>7, Zenon DEF RowsWhole
<1>9. TypeOK'
  BY <1>2, <1>3, <1>4, <1>5, <1>6, <1>7, <1>8, Zenon DEF TypeInv, TypeOK
<1>10. \A q \in Req \ {r} : pc'[q] = pc[q]
  BY PcType, Zenon DEF FetchSelectDevice, Goto, Answer
<1>11. \A q \in Req \ {r} : usr'[q] = usr[q]
  BY UsrType, Zenon DEF FetchSelectDevice
<1>12. \A q \in Req \ {r} : dev'[q] = dev[q]
  BY DevType, Zenon DEF FetchSelectDevice
<1>13. \A q \in Req \ {r} : ident'[q] = ident[q]
  BY IdentType, Zenon DEF FetchSelectDevice
<1>14. \A q \in Req \ {r} : spk'[q] = spk[q]
  BY SpkType, Zenon DEF FetchSelectDevice
<1>15. Elsewhere(r)
  BY <1>10, <1>11, <1>12, <1>13, <1>14, <1>7, Zenon DEF Elsewhere
<1>16. \/ pc'[r] = "done"
       \/ pc'[r] = "fetch_otpk" /\ dev'[r] \in Device /\ devUser[dev'[r]] # None
  <2>1. CASE DevicesOf(u) = {} /\ Answer(r, "not_found")
    BY <2>1, PcType, Zenon DEF Answer
  <2>2. ASSUME NEW d \in Oldest(u), dev' = [dev EXCEPT ![r] = d], Goto(r, "fetch_otpk")
        PROVE  pc'[r] = "fetch_otpk" /\ dev'[r] \in Device /\ devUser[dev'[r]] # None
    BY <2>2, <1>1, PcType, DevType, Zenon DEF Goto
  <2>3. QED
    BY <2>1, <2>2, Zenon DEF FetchSelectDevice
<1>17. ShapeAt(r)'
  BY ShapeHolds, <1>7, <1>16, Zenon DEF Shape, ShapeAt, Registering, OnDevice, RegisterTx,
     FetchTx, ReplenishTx
<1>18. Shape'
  BY ShapeHolds, <1>15, <1>17, ShapeLocal
<1>19. QED
  BY <1>9, <1>18 DEF TypeInv

LEMMA TypeFetchLockOtpk ==
    ASSUME TypeInv, NEW r \in Req, FetchLockOtpk(r)
    PROVE  TypeInv'
<1>1. First(dev[r], Lockable(dev[r])) \subseteq KeyId
  BY Zenon DEF First, Lockable, Available
<1>2. pc' \in [Req -> Labels] /\ resp' \in [Req -> Responses]
  BY PcType, RespType, GotoType, AnswerType, Names, Zenon DEF FetchLockOtpk
<1>3. key' \in [Req -> KeyId \cup {None}]
  BY KeyType, <1>1, Zenon DEF FetchLockOtpk
<1>4. UNCHANGED <<users, devUser, devAt, devIdent, devSpk, devCount, otpk, otpkId,
                nextId, clock, usr, dev, todo, mine, newUser, ident, spk, num, taken,
                notified>>
  BY Zenon DEF FetchLockOtpk, db, locals
<1>5. RowsWhole'
  BY RowsAreWhole, <1>4 DEF RowsWhole
<1>6. TypeOK'
  BY <1>2, <1>3, <1>4, <1>5, Zenon DEF TypeInv, TypeOK
<1>7. \A q \in Req \ {r} : pc'[q] = pc[q]
  BY PcType, Zenon DEF FetchLockOtpk, Goto, Answer
<1>8. \A q \in Req \ {r} : key'[q] = key[q]
  BY KeyType, Zenon DEF FetchLockOtpk
<1>9. Elsewhere(r)
  BY <1>7, <1>8, <1>4, Zenon DEF Elsewhere
<1>10. /\ pc[r] = "fetch_otpk"
       /\ pc'[r] = "fetch_notify" \/ (pc'[r] = "fetch_mark" /\ key'[r] \in KeyId)
  BY PcType, KeyType, <1>1, Zenon DEF FetchLockOtpk, Goto, Answer
<1>11. ShapeAt(r)'
  BY ShapeHolds, <1>4, <1>10, Zenon DEF Shape, ShapeAt, Registering, OnDevice, RegisterTx,
     FetchTx, ReplenishTx
<1>12. Shape'
  BY ShapeHolds, <1>9, <1>11, ShapeLocal, ZenonT(30)
<1>13. QED
  BY <1>6, <1>12, ZenonT(30) DEF TypeInv

LEMMA TypeFetchMark ==
    ASSUME TypeInv, NEW r \in Req, FetchMark(r)
    PROVE  TypeInv'
<1>1. pc' \in [Req -> Labels] /\ resp' \in [Req -> Responses]
  BY PcType, RespType, GotoType, AnswerType, Names, Zenon DEF FetchMark
<1>2. UNCHANGED <<users, devUser, devAt, devIdent, devSpk, devCount, otpk, otpkId,
                nextId, clock, usr, dev, todo, mine, newUser, key, ident, spk, num,
                taken, notified>>
  BY Zenon DEF FetchMark, db, locals
<1>3. RowsWhole'
  BY RowsAreWhole, <1>2 DEF RowsWhole
<1>4. TypeOK'
  BY <1>1, <1>2, <1>3, Zenon DEF TypeInv, TypeOK
<1>5. \A q \in Req \ {r} : pc'[q] = pc[q]
  BY PcType, Zenon DEF FetchMark, Goto, Answer
<1>6. Elsewhere(r)
  BY <1>5, <1>2 DEF Elsewhere
<1>7. pc[r] = "fetch_mark" /\ pc'[r] = "fetch_commit"
  BY PcType, Zenon DEF FetchMark, Goto, Answer
<1>8. ShapeAt(r)'
  BY ShapeHolds, <1>2, <1>7, Zenon DEF Shape, ShapeAt, Registering, OnDevice, RegisterTx,
     FetchTx, ReplenishTx
<1>9. Shape'
  BY ShapeHolds, <1>6, <1>8, ShapeLocal, ZenonT(30)
<1>10. QED
  BY <1>4, <1>9, ZenonT(30) DEF TypeInv

LEMMA TypeFetchCommit ==
    ASSUME TypeInv, NEW r \in Req, FetchCommit(r)
    PROVE  TypeInv'
<1>1. dev[r] \in Device /\ key[r] \in KeyId
  BY ShapeHolds, Zenon DEF FetchCommit, Shape, ShapeAt, Registering, OnDevice, RegisterTx,
     FetchTx, ReplenishTx
<1>2. pc' \in [Req -> Labels] /\ resp' \in [Req -> Responses]
  BY PcType, RespType, GotoType, AnswerType, Names, Zenon DEF FetchCommit
<1>3. otpk' \in [Device -> [KeyId -> {"absent", "free", "consumed"}]]
  BY OtpkType, <1>1, Zenon DEF FetchCommit
<1>4. devCount' \in [Device -> Nat]
  BY DevCountType, <1>1 DEF FetchCommit
<1>5. taken' \in [Req -> (Device \X KeyId) \cup {None}]
  BY TakenType, <1>1, Zenon DEF FetchCommit
<1>6. UNCHANGED <<users, devUser, devAt, devIdent, devSpk, otpkId, nextId, clock,
                usr, dev, todo, mine, newUser, key, ident, spk, num, notified>>
  BY Zenon DEF FetchCommit, db, locals
<1>7. RowsWhole'
  BY RowsAreWhole, <1>6, Zenon DEF RowsWhole
<1>8. TypeOK'
  BY <1>2, <1>3, <1>4, <1>5, <1>6, <1>7, Zenon DEF TypeInv, TypeOK
<1>9. \A q \in Req \ {r} : pc'[q] = pc[q]
  BY PcType, Zenon DEF FetchCommit, Goto, Answer
<1>10. Elsewhere(r)
  BY <1>9, <1>6, Zenon DEF Elsewhere
<1>11. pc[r] = "fetch_commit" /\ pc'[r] \in {"fetch_notify", "done"}
  BY PcType, Zenon DEF FetchCommit, Goto, Answer
<1>12. ShapeAt(r)'
  BY ShapeHolds, <1>6, <1>11, Zenon DEF Shape, ShapeAt, Registering, OnDevice, RegisterTx,
     FetchTx, ReplenishTx
<1>13. Shape'
  BY ShapeHolds, <1>10, <1>12, ShapeLocal, ZenonT(30)
<1>14. QED
  BY <1>8, <1>13, ZenonT(30) DEF TypeInv

LEMMA TypeFetchNotify ==
    ASSUME TypeInv, NEW r \in Req, FetchNotify(r)
    PROVE  TypeInv'
<1>1. dev[r] \in Device
  BY ShapeHolds, Zenon DEF FetchNotify, Shape, ShapeAt, Registering, OnDevice, RegisterTx,
     FetchTx, ReplenishTx
<1>2. pc' \in [Req -> Labels] /\ resp' \in [Req -> Responses]
  BY PcType, RespType, GotoType, AnswerType, Names, Zenon DEF FetchNotify
<1>3. notified' \subseteq Device
  BY NotifiedType, <1>1, Zenon DEF FetchNotify
<1>4. UNCHANGED <<users, devUser, devAt, devIdent, devSpk, devCount, otpk, otpkId,
                nextId, clock, usr, dev, todo, mine, newUser, key, ident, spk, num,
                taken>>
  BY Zenon DEF FetchNotify, db, locals
<1>5. RowsWhole'
  BY RowsAreWhole, <1>4, ZenonT(30) DEF RowsWhole
<1>6. TypeOK'
  BY <1>2, <1>3, <1>4, <1>5, Zenon DEF TypeInv, TypeOK
<1>7. \A q \in Req \ {r} : pc'[q] = pc[q]
  BY PcType, Zenon DEF FetchNotify, Goto, Answer
<1>8. Elsewhere(r)
  BY <1>7, <1>4, Zenon DEF Elsewhere
<1>9. pc'[r] = "done"
  BY PcType, Zenon DEF FetchNotify, Goto, Answer
<1>10. ShapeAt(r)'
  BY ShapeHolds, <1>4, <1>9, Zenon DEF Shape, ShapeAt, Registering, OnDevice, RegisterTx,
     FetchTx, ReplenishTx
<1>11. Shape'
  BY ShapeHolds, <1>8, <1>10, ShapeLocal, ZenonT(30)
<1>12. QED
  BY <1>6, <1>11, ZenonT(30) DEF TypeInv

LEMMA TypeReplenishRequest ==
    ASSUME TypeInv, NEW r \in Req, NEW d \in Device, NEW own \in BOOLEAN,
       NEW ks \in Uploads, ReplenishRequest(r, d, own, ks)
    PROVE  TypeInv'
<1>1. /\ ReplenishRefusal(d, own, ks) \in Responses
      /\ ReplenishRefusal(d, own, ks) = "none" => devUser[d] # None
  BY Refusals, Zenon
<1>2. ks \in Seq(KeyId)
  BY UploadsAreLists, Zenon
<1>3. pc' \in [Req -> Labels] /\ resp' \in [Req -> Responses]
  BY PcType, RespType, <1>1, GotoType, AnswerType, Names, Zenon DEF ReplenishRequest
<1>4. dev' \in [Req -> Device \cup {None}]
  BY DevType, <1>1, Zenon DEF ReplenishRequest
<1>5. todo' \in [Req -> Seq(KeyId)]
  BY TodoType, <1>1, <1>2, Zenon DEF ReplenishRequest
<1>6. UNCHANGED <<users, devUser, devAt, devIdent, devSpk, devCount, otpk, otpkId,
                nextId, clock, usr, mine, newUser, key, ident, spk, num, taken,
                notified>>
  BY Zenon DEF ReplenishRequest, db, locals
<1>7. RowsWhole'
  BY RowsAreWhole, <1>6, Zenon DEF RowsWhole
<1>8. TypeOK'
  BY <1>3, <1>4, <1>5, <1>6, <1>7, Zenon DEF TypeInv, TypeOK
<1>9. \A q \in Req \ {r} : pc'[q] = pc[q]
  BY PcType, Zenon DEF ReplenishRequest, Goto, Answer
<1>10. \A q \in Req \ {r} : dev'[q] = dev[q]
  BY DevType, Zenon DEF ReplenishRequest
<1>11. Elsewhere(r)
  BY <1>9, <1>10, <1>6, Zenon DEF Elsewhere
<1>12. \/ pc'[r] = "done"
       \/ pc'[r] = "repl_insert" /\ dev'[r] = d /\ devUser[d] # None
  <2>1. CASE ReplenishRefusal(d, own, ks) # "none"
    BY <2>1, PcType, Zenon DEF ReplenishRequest, Goto, Answer
  <2>2. CASE ReplenishRefusal(d, own, ks) = "none"
    BY <2>2, <1>1, PcType, DevType, Zenon DEF ReplenishRequest, Goto, Answer
  <2>3. QED
    BY <2>1, <2>2, Zenon
<1>13. ShapeAt(r)'
  BY ShapeHolds, <1>6, <1>12, Zenon DEF Shape, ShapeAt, Registering, OnDevice, RegisterTx,
     FetchTx, ReplenishTx
<1>14. Shape'
  BY ShapeHolds, <1>11, <1>13, ShapeLocal, Zenon
<1>15. QED
  BY <1>8, <1>14, Zenon DEF TypeInv

LEMMA TypeReplenishInsert ==
    ASSUME TypeInv, NEW r \in Req, ReplenishInsert(r)
    PROVE  TypeInv'
<1>1. todo[r] \in Seq(KeyId) /\ Head(todo[r]) \in KeyId
  BY TodoType DEF ReplenishInsert
<1>2. mine' \in [Req -> [KeyId -> Nat]]
  <2>1. mine' = mine \/ mine' = [mine EXCEPT ![r][Head(todo[r])] = nextId]
    BY Zenon DEF ReplenishInsert
  <2>2. [mine[r] EXCEPT ![Head(todo[r])] = nextId] \in [KeyId -> Nat]
    BY MineType, NextIdType, <1>1, Zenon
  <2>3. QED
    BY MineType, <2>1, <2>2, Zenon
<1>3. nextId' \in Nat
  BY NextIdType, <1>1 DEF ReplenishInsert
<1>4. todo' \in [Req -> Seq(KeyId)]
  BY TodoType, <1>1 DEF ReplenishInsert
<1>5. UNCHANGED <<users, devUser, devAt, devIdent, devSpk, devCount, otpk, otpkId,
                clock, pc, resp, usr, dev, newUser, key, ident, spk, num, taken,
                notified>>
  BY Zenon DEF ReplenishInsert, db, locals
<1>6. RowsWhole'
  BY RowsAreWhole, <1>5, ZenonT(30) DEF RowsWhole
<1>7. TypeOK'
  BY <1>2, <1>3, <1>4, <1>5, <1>6, Zenon DEF TypeInv, TypeOK
<1>8. Shape'
  BY ShapeHolds, <1>5, Zenon DEF Shape, ShapeAt
<1>9. QED
  BY <1>7, <1>8, ZenonT(30) DEF TypeInv

LEMMA TypeReplenishCount ==
    ASSUME TypeInv, NEW r \in Req, ReplenishCount(r)
    PROVE  TypeInv'
<1>1. dev[r] \in Device
  BY ShapeHolds, Zenon DEF ReplenishCount, Shape, ShapeAt, Registering, OnDevice, RegisterTx,
     FetchTx, ReplenishTx
<1>2. pc' \in [Req -> Labels] /\ resp' \in [Req -> Responses]
  BY PcType, RespType, GotoType, AnswerType, Names, Zenon DEF ReplenishCount
<1>3. num' \in [Req -> Nat]
  <2>1. Available(dev[r]) \cup {k \in KeyId : mine[r][k] # 0} \in SUBSET KeyId
    BY Zenon DEF Available
  <2>2. QED
    BY NumType, <2>1, KeysCount, Zenon DEF ReplenishCount
<1>4. UNCHANGED <<users, devUser, devAt, devIdent, devSpk, devCount, otpk, otpkId,
                nextId, clock, usr, dev, todo, mine, newUser, key, ident, spk, taken,
                notified>>
  BY Zenon DEF ReplenishCount, db, locals
<1>5. RowsWhole'
  BY RowsAreWhole, <1>4, ZenonT(30) DEF RowsWhole
<1>6. TypeOK'
  BY <1>2, <1>3, <1>4, <1>5, Zenon DEF TypeInv, TypeOK
<1>7. \A q \in Req \ {r} : pc'[q] = pc[q]
  BY PcType, Zenon DEF ReplenishCount, Goto, Answer
<1>8. Elsewhere(r)
  BY <1>7, <1>4 DEF Elsewhere
<1>9. pc[r] = "repl_insert" /\ pc'[r] = "repl_sync"
  BY PcType, Zenon DEF ReplenishCount, Goto, Answer
<1>10. ShapeAt(r)'
  BY ShapeHolds, <1>4, <1>9, Zenon DEF Shape, ShapeAt, Registering, OnDevice, RegisterTx,
     FetchTx, ReplenishTx
<1>11. Shape'
  BY ShapeHolds, <1>8, <1>10, ShapeLocal, ZenonT(30)
<1>12. QED
  BY <1>6, <1>11, ZenonT(30) DEF TypeInv

LEMMA TypeReplenishSync ==
    ASSUME TypeInv, NEW r \in Req, ReplenishSync(r)
    PROVE  TypeInv'
<1>1. pc' \in [Req -> Labels] /\ resp' \in [Req -> Responses]
  BY PcType, RespType, GotoType, AnswerType, Names, Zenon DEF ReplenishSync
<1>2. UNCHANGED <<users, devUser, devAt, devIdent, devSpk, devCount, otpk, otpkId,
                nextId, clock, usr, dev, todo, mine, newUser, key, ident, spk, num,
                taken, notified>>
  BY Zenon DEF ReplenishSync, db, locals
<1>3. RowsWhole'
  BY RowsAreWhole, <1>2, ZenonT(30) DEF RowsWhole
<1>4. TypeOK'
  BY <1>1, <1>2, <1>3, Zenon DEF TypeInv, TypeOK
<1>5. \A q \in Req \ {r} : pc'[q] = pc[q]
  BY PcType, Zenon DEF ReplenishSync, Goto, Answer
<1>6. Elsewhere(r)
  BY <1>5, <1>2, ZenonT(30) DEF Elsewhere
<1>7. pc[r] = "repl_sync" /\ pc'[r] = "repl_commit"
  BY PcType, Zenon DEF ReplenishSync, Goto, Answer
<1>8. ShapeAt(r)'
  BY ShapeHolds, <1>2, <1>7, Zenon DEF Shape, ShapeAt, Registering, OnDevice, RegisterTx,
     FetchTx, ReplenishTx
<1>9. Shape'
  BY ShapeHolds, <1>6, <1>8, ShapeLocal, ZenonT(30)
<1>10. QED
  BY <1>4, <1>9, ZenonT(30) DEF TypeInv

LEMMA TypeReplenishCommit ==
    ASSUME TypeInv, NEW r \in Req, ReplenishCommit(r)
    PROVE  TypeInv'
<1>1. dev[r] \in Device
  BY ShapeHolds, Zenon DEF ReplenishCommit, Shape, ShapeAt, Registering, OnDevice, RegisterTx,
     FetchTx, ReplenishTx
<1>2. pc' \in [Req -> Labels] /\ resp' \in [Req -> Responses]
  BY PcType, RespType, GotoType, AnswerType, Names, Zenon DEF ReplenishCommit
<1>3. devCount' \in [Device -> Nat]
  BY DevCountType, <1>1, NumType, Zenon DEF ReplenishCommit
<1>4. otpk' \in [Device -> [KeyId -> {"absent", "free", "consumed"}]]
  BY OtpkType, <1>1, Zenon DEF ReplenishCommit, PublishKeys
<1>5. otpkId' \in [Device -> [KeyId -> Nat]]
  BY OtpkIdType, <1>1, MineType DEF ReplenishCommit, PublishKeys
<1>6. UNCHANGED <<users, devUser, devAt, devIdent, devSpk, nextId, clock, usr,
                dev, todo, mine, newUser, key, ident, spk, num, taken, notified>>
  BY Zenon DEF ReplenishCommit, db, locals
<1>7. RowsWhole'
  BY RowsAreWhole, <1>6 DEF RowsWhole
<1>8. TypeOK'
  BY <1>2, <1>3, <1>4, <1>5, <1>6, <1>7, Zenon DEF TypeInv, TypeOK
<1>9. \A q \in Req \ {r} : pc'[q] = pc[q]
  BY PcType, Zenon DEF ReplenishCommit, Goto, Answer
<1>10. Elsewhere(r)
  BY <1>9, <1>6, Zenon DEF Elsewhere
<1>11. pc'[r] = "done"
  BY PcType, Zenon DEF ReplenishCommit, Goto, Answer
<1>12. ShapeAt(r)'
  BY ShapeHolds, <1>6, <1>11, Zenon DEF Shape, ShapeAt, Registering, OnDevice, RegisterTx,
     FetchTx, ReplenishTx
<1>13. Shape'
  BY ShapeHolds, <1>10, <1>12, ShapeLocal, ZenonT(30)
<1>14. QED
  BY <1>8, <1>13, ZenonT(30) DEF TypeInv

LEMMA TypeRotateRequest ==
    ASSUME TypeInv, NEW r \in Req, NEW d \in Device, NEW own \in BOOLEAN, NEW s \in Spk,
       RotateRequest(r, d, own, s)
    PROVE  TypeInv'
<1>1. /\ RotateRefusal(d, own, s) \in Responses
      /\ RotateRefusal(d, own, s) = "none" => devUser[d] # None /\ Verifies(devIdent[d], s)
  BY Refusals, Zenon
<1>2. pc' \in [Req -> Labels] /\ resp' \in [Req -> Responses]
  BY PcType, RespType, <1>1, GotoType, AnswerType, Names, Zenon DEF RotateRequest
<1>3. dev' \in [Req -> Device \cup {None}]
  BY DevType, <1>1, Zenon DEF RotateRequest
<1>4. spk' \in [Req -> Spk \cup {None}]
  BY SpkType, <1>1, Zenon DEF RotateRequest
<1>5. UNCHANGED <<users, devUser, devAt, devIdent, devSpk, devCount, otpk, otpkId,
                nextId, clock, usr, todo, mine, newUser, key, ident, num, taken,
                notified>>
  BY Zenon DEF RotateRequest, db, locals
<1>6. RowsWhole'
  BY RowsAreWhole, <1>5 DEF RowsWhole
<1>7. TypeOK'
  BY <1>2, <1>3, <1>4, <1>5, <1>6, Zenon DEF TypeInv, TypeOK
<1>8. \A q \in Req \ {r} : pc'[q] = pc[q]
  BY PcType, Zenon DEF RotateRequest, Goto, Answer
<1>9. \A q \in Req \ {r} : dev'[q] = dev[q]
  BY DevType, Zenon DEF RotateRequest
<1>10. \A q \in Req \ {r} : spk'[q] = spk[q]
  BY SpkType, Zenon DEF RotateRequest
<1>11. Elsewhere(r)
  BY <1>8, <1>9, <1>10, <1>5, Zenon DEF Elsewhere
<1>12. \/ pc'[r] = "done"
       \/ pc'[r] = "rot_write" /\ dev'[r] = d /\ spk'[r] = s /\ devUser[d] # None
  <2>1. CASE RotateRefusal(d, own, s) # "none"
    BY <2>1, PcType, Zenon DEF RotateRequest, Goto, Answer
  <2>2. CASE RotateRefusal(d, own, s) = "none"
    BY <2>2, <1>1, PcType, DevType, SpkType, Zenon DEF RotateRequest, Goto, Answer
  <2>3. QED
    BY <2>1, <2>2, Zenon
<1>13. ShapeAt(r)'
  BY ShapeHolds, <1>5, <1>12, Zenon DEF Shape, ShapeAt, Registering, OnDevice, RegisterTx,
     FetchTx, ReplenishTx
<1>14. Shape'
  BY ShapeHolds, <1>11, <1>13, ShapeLocal
<1>15. QED
  BY <1>7, <1>14 DEF TypeInv

LEMMA TypeRotateWrite ==
    ASSUME TypeInv, NEW r \in Req, RotateWrite(r)
    PROVE  TypeInv'
<1>1. dev[r] \in Device /\ spk[r] \in Spk /\ devUser[dev[r]] # None
  BY ShapeHolds, Zenon DEF RotateWrite, Shape, ShapeAt, Registering, OnDevice, RegisterTx,
     FetchTx, ReplenishTx
<1>2. pc' \in [Req -> Labels] /\ resp' \in [Req -> Responses]
  BY PcType, RespType, GotoType, AnswerType, Names, Zenon DEF RotateWrite
<1>3. devSpk' \in [Device -> Spk \cup {None}]
  BY DevSpkType, <1>1, Zenon DEF RotateWrite
<1>4. UNCHANGED <<users, devUser, devAt, devIdent, devCount, otpk, otpkId, nextId,
                clock, usr, dev, todo, mine, newUser, key, ident, spk, num, taken,
                notified>>
  BY Zenon DEF RotateWrite, db, locals
<1>5. RowsWhole'
  BY RowsAreWhole, DevSpkType, <1>1, <1>4, NoneFacts, Zenon DEF RotateWrite, RowsWhole
<1>6. TypeOK'
  BY <1>2, <1>3, <1>4, <1>5, Zenon DEF TypeInv, TypeOK
<1>7. \A q \in Req \ {r} : pc'[q] = pc[q]
  BY PcType, Zenon DEF RotateWrite, Goto, Answer
<1>8. Elsewhere(r)
  BY <1>7, <1>4, Zenon DEF Elsewhere
<1>9. pc'[r] = "done"
  BY PcType, Zenon DEF RotateWrite, Goto, Answer
<1>10. ShapeAt(r)'
  BY ShapeHolds, <1>4, <1>9, Zenon DEF Shape, ShapeAt, Registering, OnDevice, RegisterTx,
     FetchTx, ReplenishTx
<1>11. Shape'
  BY ShapeHolds, <1>8, <1>10, ShapeLocal, ZenonT(30)
<1>12. QED
  BY <1>6, <1>11, ZenonT(30) DEF TypeInv

LEMMA TypeAbort ==
    ASSUME TypeInv, NEW r \in Req, Abort(r)
    PROVE  TypeInv'
<1>1. pc' \in [Req -> Labels] /\ resp' \in [Req -> Responses]
  BY PcType, RespType, GotoType, AnswerType, Names, Zenon DEF Abort
<1>2. UNCHANGED <<users, devUser, devAt, devIdent, devSpk, devCount, otpk, otpkId,
                nextId, clock, usr, dev, todo, mine, newUser, key, ident, spk, num,
                taken, notified>>
  BY Zenon DEF Abort, db, locals
<1>3. RowsWhole'
  BY RowsAreWhole, <1>2, ZenonT(30) DEF RowsWhole
<1>4. TypeOK'
  BY <1>1, <1>2, <1>3, Zenon DEF TypeInv, TypeOK
<1>5. \A q \in Req \ {r} : pc'[q] = pc[q]
  BY PcType, Zenon DEF Abort, Goto, Answer
<1>6. Elsewhere(r)
  BY <1>5, <1>2, ZenonT(30) DEF Elsewhere
<1>7. pc'[r] = "done"
  BY PcType, Zenon DEF Abort, Goto, Answer
<1>8. ShapeAt(r)'
  BY ShapeHolds, <1>2, <1>7, Zenon DEF Shape, ShapeAt, Registering, OnDevice, RegisterTx,
     FetchTx, ReplenishTx
<1>9. Shape'
  BY ShapeHolds, <1>6, <1>8, ShapeLocal, ZenonT(30)
<1>10. QED
  BY <1>4, <1>9, ZenonT(30) DEF TypeInv

LEMMA TypeNext == TypeInv /\ [Next]_vars => TypeInv'
<1> SUFFICES ASSUME TypeInv, [Next]_vars PROVE TypeInv'
  BY Zenon
<1>1. CASE UNCHANGED vars
  BY <1>1, Zenon DEF TypeInv, vars, db, locals, TypeOK, RowsWhole, Shape, ShapeAt
<1>2. QED
  BY <1>1, TypeRegisterRequest, TypeRegisterBegin, TypeRegisterUpsertUser,
     TypeRegisterCount, TypeRegisterInsert, TypeRegisterCommit, TypeFetchSelectDevice,
     TypeFetchLockOtpk, TypeFetchMark, TypeFetchCommit, TypeFetchNotify,
     TypeReplenishRequest, TypeReplenishInsert, TypeReplenishCount, TypeReplenishSync,
     TypeReplenishCommit, TypeRotateRequest, TypeRotateWrite, TypeAbort, Zenon DEF Next,
     Arrive, Step

(***************************************************************************)
(* The theorems.                                                           *)
(***************************************************************************)

\* Type correctness of the whole server, with the columns of every device row
\* set together.
THEOREM TypeCorrect == Spec => []TypeOK
<1>1. Spec => []TypeInv
  BY TypeInit, TypeNext, PTL DEF Spec
<1>2. QED
  BY <1>1, PTL DEF TypeInv

-----------------------------------------------------------------------------
(***************************************************************************)
(* Keys.                                                                   *)
(***************************************************************************)


Locking   == {"fetch_mark", "fetch_commit"}
Inserting == ReplenishTx \cup {"reg_commit"}

\* A fetch holds a row that is still free, ...
LockFree == \A r \in Req : pc[r] \in Locking => otpk[dev[r]][key[r]] = "free"

\* ... and holds it alone.
LockOnce ==
    \A r, q \in Req :
        /\ pc[r] \in Locking /\ pc[q] \in Locking
        /\ dev[r] = dev[q] /\ key[r] = key[q]
        => r = q

\* Consumption is recorded by its commit.
TakenLate == \A r \in Req : taken[r] # None => pc[r] \in {"fetch_notify", "done"}

\* Only the transactions that insert have rows of their own, ...
NoneInserted ==
    \A r \in Req, k \in KeyId : pc[r] \notin Inserting \cup {"done"} => mine[r][k] = 0

\* ... rows that are not in the table yet, ...
InsertsAbsent ==
    \A r \in Req, k \in KeyId :
        pc[r] \in Inserting /\ mine[r][k] # 0 => otpk[dev[r]][k] = "absent"

\* ... no two transactions the same one.
InsertsOnce ==
    \A r, q \in Req, k \in KeyId :
        /\ pc[r] \in Inserting /\ pc[q] \in Inserting /\ dev[r] = dev[q]
        /\ mine[r][k] # 0 /\ mine[q][k] # 0
        => r = q

\* A device that is being registered is known to its request only.
FreshDevice ==
    \A r \in Req : pc[r] = "reg_commit" =>
        devUser[dev[r]] = None /\ \A q \in Req : dev[q] = dev[r] => q = r

\* No key row without its device row.
NoOrphans == \A d \in Device, k \in KeyId : devUser[d] = None => otpk[d][k] = "absent"

KeyInv == /\ LockFree /\ LockOnce
          /\ TakenLate /\ ConsumedIffTaken /\ OtpkTakenOnce
          /\ NoneInserted /\ InsertsAbsent /\ InsertsOnce
          /\ FreshDevice /\ NoOrphans

LEMMA KeyInit == Init => KeyInv
<1> SUFFICES ASSUME NEW n \in SeedCounts, Seeded(n) PROVE KeyInv
  BY Zenon DEF Init
<1>1. LockFree /\ LockOnce
  BY Zenon DEF Seeded, LockFree, LockOnce, Locking
<1>2. TakenLate /\ ConsumedIffTaken /\ OtpkTakenOnce
  BY NoneFacts DEF Seeded, TakenLate, ConsumedIffTaken, OtpkTakenOnce
<1>3. NoneInserted /\ InsertsAbsent /\ InsertsOnce
  BY Zenon DEF Seeded, NoneInserted, InsertsAbsent, InsertsOnce, Inserting, ReplenishTx, NoKeys
<1>4. FreshDevice /\ NoOrphans
  BY KdsAssumption, Zenon DEF Seeded, FreshDevice, NoOrphans
<1>5. QED
  BY <1>1, <1>2, <1>3, <1>4, Zenon DEF KeyInv

\* A step of r that neither locks, takes, inserts nor commits a key.
Plain(r) ==
    /\ UNCHANGED <<otpk, devUser, taken, mine, key>>
    /\ \A q \in Req \ {r} : pc'[q] = pc[q] /\ dev'[q] = dev[q]
    /\ pc'[r] \in Locking => pc[r] \in Locking /\ dev'[r] = dev[r]
    /\ pc'[r] \in Inserting => pc[r] = "idle" \/ (pc[r] \in Inserting /\ dev'[r] = dev[r])
    /\ pc'[r] \notin Inserting \cup {"done"} => pc[r] \notin Inserting \cup {"done"}
    /\ pc[r] \in {"fetch_notify", "done"} => pc'[r] \in {"fetch_notify", "done"}
    /\ pc'[r] # "reg_commit"
    /\ dev'[r] = dev[r] \/ (dev'[r] \in Device /\ devUser[dev'[r]] # None)

LEMMA PlainKeepsKeyInv ==
    ASSUME KeyInv, NEW r \in Req, Plain(r) PROVE KeyInv'
<1>1. LockFree'
  BY Zenon DEF KeyInv, LockFree, Plain
<1>2. LockOnce'
  BY DEF KeyInv, LockOnce, Plain
<1>3. TakenLate'
  BY Zenon DEF KeyInv, TakenLate, Plain
<1>4. ConsumedIffTaken' /\ OtpkTakenOnce'
  BY Zenon DEF KeyInv, ConsumedIffTaken, OtpkTakenOnce, Plain
<1>5. NoneInserted'
  BY Zenon DEF KeyInv, NoneInserted, Plain
<1>6. \A q \in Req, k \in KeyId :
         pc'[q] \in Inserting /\ mine'[q][k] # 0 =>
            pc[q] \in Inserting /\ mine[q][k] # 0 /\ dev'[q] = dev[q]
  BY Zenon DEF KeyInv, NoneInserted, Plain, Inserting, ReplenishTx
<1>7. InsertsAbsent'
  BY <1>6 DEF KeyInv, InsertsAbsent, Plain
<1>8. InsertsOnce'
  BY <1>6 DEF KeyInv, InsertsOnce
<1>9. FreshDevice'
  BY DEF KeyInv, FreshDevice, Plain
<1>10. NoOrphans'
  BY Zenon DEF KeyInv, NoOrphans, Plain
<1>11. QED
  BY <1>1, <1>2, <1>3, <1>4, <1>5, <1>7, <1>8, <1>9, <1>10, Zenon DEF KeyInv

\* COMMIT of a transaction that inserted keys.
LEMMA PublishKeepsKeyInv ==
    ASSUME TypeInv, KeyInv, NEW r \in Req, PublishKeys(r),
           pc[r] \in {"reg_commit", "repl_commit"}, pc' = [pc EXCEPT ![r] = "done"],
           UNCHANGED <<taken, key, mine, dev>>,
           \A d \in Device \ {dev[r]} : devUser'[d] = devUser[d],
           devUser'[dev[r]] # None
    PROVE  KeyInv'
<1>1. dev[r] \in Device /\ pc[r] \in Inserting
  BY ShapeHolds, Zenon DEF Shape, ShapeAt, OnDevice, ReplenishTx, Inserting
<1>2. \A k \in KeyId : mine[r][k] # 0 => otpk[dev[r]][k] = "absent"
  BY <1>1, Zenon DEF KeyInv, InsertsAbsent
<1>3. \A d \in Device, k \in KeyId :
         otpk'[d][k] = IF d = dev[r] /\ mine[r][k] # 0 THEN "free" ELSE otpk[d][k]
  BY <1>1, OtpkType, Zenon DEF PublishKeys
<1>4. \A q \in Req : pc'[q] = IF q = r THEN "done" ELSE pc[q]
  BY PcType, Zenon
<1>5. \A q \in Req : pc'[q] \in Locking => /\ q # r /\ pc[q] \in Locking
                                           /\ dev[q] \in Device /\ key[q] \in KeyId
  BY <1>4, ShapeHolds DEF Locking, Shape, ShapeAt, OnDevice, FetchTx
<1>6. \A q \in Req : pc'[q] \in Inserting => /\ q # r /\ pc[q] \in Inserting
                                             /\ dev[q] \in Device
  BY <1>4, ShapeHolds DEF Inserting, Shape, ShapeAt, OnDevice, ReplenishTx
<1>7. LockFree'
  BY <1>2, <1>3, <1>5 DEF KeyInv, LockFree
<1>8. LockOnce'
  BY <1>5, Zenon DEF KeyInv, LockOnce
<1>9. TakenLate'
  BY <1>4, Zenon DEF KeyInv, TakenLate
<1>10. ConsumedIffTaken'
  <2>1. \A d \in Device, k \in KeyId : otpk'[d][k] = "consumed" <=> otpk[d][k] = "consumed"
    BY <1>2, <1>3, Zenon
  <2>2. QED
    BY <2>1, Zenon DEF KeyInv, ConsumedIffTaken
<1>11. OtpkTakenOnce'
  BY Zenon DEF KeyInv, OtpkTakenOnce
<1>12. NoneInserted'
  BY <1>4 DEF KeyInv, NoneInserted
<1>13. InsertsAbsent'
  BY <1>1, <1>3, <1>6 DEF KeyInv, InsertsAbsent, InsertsOnce
<1>14. InsertsOnce'
  BY <1>6, Zenon DEF KeyInv, InsertsOnce
<1>15. FreshDevice'
  <2>1. \A q \in Req : pc'[q] = "reg_commit" => /\ pc[q] = "reg_commit" /\ q # r
                                                /\ dev[q] \in Device
    BY <1>4, <1>6, Zenon DEF Inserting
  <2>2. \A q \in Req : pc'[q] = "reg_commit" => dev[q] # dev[r]
    BY <2>1, Zenon DEF KeyInv, FreshDevice
  <2>3. QED
    BY <2>1, <2>2, Zenon DEF KeyInv, FreshDevice
<1>16. NoOrphans'
  BY <1>3 DEF KeyInv, NoOrphans
<1>17. QED
  BY <1>7, <1>8, <1>9, <1>10, <1>11, <1>12, <1>13, <1>14, <1>15, <1>16, Zenon DEF KeyInv

LEMMA KeyRegisterRequest ==
    ASSUME TypeInv, KeyInv, NEW r \in Req, NEW u \in User, NEW own \in BOOLEAN,
       NEW ks \in Uploads, NEW i \in Identity, NEW s \in Spk, RegisterRequest(r, u, own,
       ks, i, s)
    PROVE  KeyInv'
<1>1. /\ pc[r] = "idle"
      /\ pc' = [pc EXCEPT ![r] = "done"] \/ pc' = [pc EXCEPT ![r] = "reg_begin"]
      /\ UNCHANGED <<otpk, devUser, taken, mine, key, dev>>
  BY Zenon DEF RegisterRequest, Goto, Answer, db, locals
<1>2. /\ pc'[r] \in {"done", "reg_begin"}
      /\ \A q \in Req \ {r} : pc'[q] = pc[q] /\ dev'[q] = dev[q]
  BY <1>1, PcType, DevType, Zenon
<1>3. Plain(r)
  BY <1>1, <1>2, Zenon DEF Plain, Locking, Inserting, ReplenishTx
<1>4. QED
  BY <1>3, PlainKeepsKeyInv, Zenon

LEMMA KeyRegisterBegin ==
    ASSUME TypeInv, KeyInv, NEW r \in Req, RegisterBegin(r)
    PROVE  KeyInv'
<1>1. /\ pc[r] = "reg_begin"
      /\ pc' = [pc EXCEPT ![r] = "reg_user"]
      /\ UNCHANGED <<otpk, devUser, taken, mine, key, dev>>
  BY Zenon DEF RegisterBegin, Goto, Answer, db, locals
<1>2. /\ pc'[r] \in {"reg_user"}
      /\ \A q \in Req \ {r} : pc'[q] = pc[q] /\ dev'[q] = dev[q]
  BY <1>1, PcType, DevType, Zenon
<1>3. Plain(r)
  BY <1>1, <1>2, Zenon DEF Plain, Locking, Inserting, ReplenishTx
<1>4. QED
  BY <1>3, PlainKeepsKeyInv, Zenon

LEMMA KeyRegisterUpsertUser ==
    ASSUME TypeInv, KeyInv, NEW r \in Req, RegisterUpsertUser(r)
    PROVE  KeyInv'
<1>1. /\ pc[r] = "reg_user"
      /\ pc' = [pc EXCEPT ![r] = "reg_count"]
      /\ UNCHANGED <<otpk, devUser, taken, mine, key, dev>>
  BY Zenon DEF RegisterUpsertUser, Goto, Answer, db, locals
<1>2. /\ pc'[r] \in {"reg_count"}
      /\ \A q \in Req \ {r} : pc'[q] = pc[q] /\ dev'[q] = dev[q]
  BY <1>1, PcType, DevType, Zenon
<1>3. Plain(r)
  BY <1>1, <1>2, Zenon DEF Plain, Locking, Inserting, ReplenishTx
<1>4. QED
  BY <1>3, PlainKeepsKeyInv

LEMMA KeyRegisterCount ==
    ASSUME TypeInv, KeyInv, NEW r \in Req, RegisterCount(r)
    PROVE  KeyInv'
<1>1. /\ pc[r] = "reg_count"
      /\ pc' = [pc EXCEPT ![r] = "done"] \/ pc' = [pc EXCEPT ![r] = "reg_insert"]
      /\ UNCHANGED <<otpk, devUser, taken, mine, key, dev>>
  BY Zenon DEF RegisterCount, Goto, Answer, db, locals
<1>2. /\ pc'[r] \in {"done", "reg_insert"}
      /\ \A q \in Req \ {r} : pc'[q] = pc[q] /\ dev'[q] = dev[q]
  BY <1>1, PcType, DevType, Zenon
<1>3. Plain(r)
  BY <1>1, <1>2, Zenon DEF Plain, Locking, Inserting, ReplenishTx
<1>4. QED
  BY <1>3, PlainKeepsKeyInv, ZenonT(30)

LEMMA KeyRegisterInsert ==
    ASSUME TypeInv, KeyInv, NEW r \in Req, NEW d \in Device, RegisterInsert(r, d)
    PROVE  KeyInv'
<1>1. /\ pc[r] = "reg_insert" /\ dev' = [dev EXCEPT ![r] = d]
      /\ \/ pc' = [pc EXCEPT ![r] = "done"] /\ mine' = mine
         \/ /\ pc' = [pc EXCEPT ![r] = "reg_commit"]
            /\ \A q \in Req \ {r} : mine'[q] = mine[q]
      /\ UNCHANGED <<otpk, devUser, taken, key>>
      /\ devUser[d] = None /\ \A q \in Req : dev[q] # d
  BY MineType, Zenon DEF RegisterInsert, Goto, Answer
<1>2. /\ \/ pc'[r] = "done" /\ mine'[r] = mine[r]
         \/ pc'[r] = "reg_commit"
      /\ \A q \in Req \ {r} : pc'[q] = pc[q] /\ dev'[q] = dev[q] /\ mine'[q] = mine[q]
      /\ dev'[r] = d
  BY <1>1, PcType, DevType, Zenon
<1>3. \A q \in Req : pc'[q] \in Locking => q # r
  BY <1>2, Zenon DEF Locking
<1>4. LockFree' /\ LockOnce'
  BY <1>1, <1>2, <1>3 DEF KeyInv, LockFree, LockOnce
<1>5. TakenLate'
  BY <1>1, <1>2, Zenon DEF KeyInv, TakenLate
<1>6. ConsumedIffTaken' /\ OtpkTakenOnce'
  <2>1. UNCHANGED <<otpk, taken>>
    BY <1>1, Zenon
  <2>2. QED
    BY <2>1, Zenon DEF KeyInv, ConsumedIffTaken, OtpkTakenOnce
<1>7. NoneInserted'
  BY <1>2, Zenon DEF KeyInv, NoneInserted, Inserting
<1>8. InsertsAbsent'
  BY <1>1, <1>2 DEF KeyInv, InsertsAbsent, NoOrphans, Inserting, ReplenishTx
<1>9. \A q \in Req \ {r} : dev'[q] # dev'[r]
  BY <1>1, <1>2, Zenon
<1>11. InsertsOnce'
  BY <1>2, <1>9 DEF KeyInv, InsertsOnce
<1>12. FreshDevice'
  BY <1>1, <1>2, <1>9 DEF KeyInv, FreshDevice
<1>13. NoOrphans'
  BY <1>1, Zenon DEF KeyInv, NoOrphans
<1>14. QED
  BY <1>4, <1>5, <1>6, <1>7, <1>8, <1>11, <1>12, <1>13, Zenon DEF KeyInv

LEMMA KeyRegisterCommit ==
    ASSUME TypeInv, KeyInv, NEW r \in Req, RegisterCommit(r)
    PROVE  KeyInv'
<1>1. dev[r] \in Device /\ usr[r] \in User
  BY ShapeHolds, Zenon DEF RegisterCommit, Shape, ShapeAt, Registering, RegisterTx
<1>2. /\ devUser'[dev[r]] # None
      /\ \A d \in Device \ {dev[r]} : devUser'[d] = devUser[d]
  BY <1>1, DevUserType, NoneFacts, Zenon DEF RegisterCommit
<1>3. /\ pc[r] = "reg_commit" /\ pc' = [pc EXCEPT ![r] = "done"]
      /\ PublishKeys(r) /\ UNCHANGED <<taken, key, mine, dev>>
  BY Zenon DEF RegisterCommit, Answer, locals
<1>4. QED
  BY <1>2, <1>3, PublishKeepsKeyInv, Zenon

LEMMA KeyFetchSelectDevice ==
    ASSUME TypeInv, KeyInv, NEW r \in Req, NEW u \in User, FetchSelectDevice(r, u)
    PROVE  KeyInv'
<1>1. \A e \in Oldest(u) : e \in Device /\ devUser[e] # None
  BY NoneFacts, Zenon DEF Oldest, DevicesOf
<1>2. /\ pc[r] = "idle"
      /\ pc' = [pc EXCEPT ![r] = "done"] \/ pc' = [pc EXCEPT ![r] = "fetch_otpk"]
      /\ dev' = dev \/ \E e \in Device : devUser[e] # None /\ dev' = [dev EXCEPT ![r] = e]
      /\ UNCHANGED <<otpk, devUser, taken, mine, key>>
  BY <1>1, Zenon DEF FetchSelectDevice, Goto, Answer, db, locals
<1>3. /\ pc'[r] \in {"done", "fetch_otpk"}
      /\ \A q \in Req \ {r} : pc'[q] = pc[q] /\ dev'[q] = dev[q]
      /\ dev'[r] = dev[r] \/ (dev'[r] \in Device /\ devUser[dev'[r]] # None)
  BY <1>2, PcType, DevType, Zenon
<1>4. Plain(r)
  BY <1>2, <1>3, Zenon DEF Plain, Locking, Inserting, ReplenishTx
<1>5. QED
  BY <1>4, PlainKeepsKeyInv, Zenon

LEMMA KeyFetchLockOtpk ==
    ASSUME TypeInv, KeyInv, NEW r \in Req, FetchLockOtpk(r)
    PROVE  KeyInv'
<1>1. CASE Lockable(dev[r]) = {} /\ Goto(r, "fetch_notify") /\ UNCHANGED key
  <2>1. Plain(r)
    BY <1>1, PcType, Zenon DEF FetchLockOtpk, Plain, Locking, Inserting, ReplenishTx, Goto, db
  <2>2. QED
    BY <2>1, PlainKeepsKeyInv, ZenonT(30)
<1>2. ASSUME NEW k \in First(dev[r], Lockable(dev[r])),
             key' = [key EXCEPT ![r] = k], Goto(r, "fetch_mark")
      PROVE  KeyInv'
  <2>1. /\ k \in KeyId /\ otpk[dev[r]][k] = "free"
        /\ \A q \in Req : pc[q] \in Locking => ~(dev[q] = dev[r] /\ key[q] = k)
    BY Zenon DEF First, Lockable, Available, HoldsOtpk, Locking
  <2>2. /\ pc[r] = "fetch_otpk" /\ pc' = [pc EXCEPT ![r] = "fetch_mark"]
        /\ UNCHANGED <<otpk, devUser, taken, mine, dev>>
    BY <1>2, Zenon DEF FetchLockOtpk, Goto, db
  <2>3. /\ pc'[r] = "fetch_mark" /\ key'[r] = k
        /\ \A q \in Req \ {r} : pc'[q] = pc[q] /\ key'[q] = key[q]
    BY <1>2, <2>2, PcType, KeyType, Zenon
  <2>4. LockFree'
    BY <2>1, <2>2, <2>3, Zenon DEF KeyInv, LockFree
  <2>5. LockOnce'
    BY <2>1, <2>2, <2>3 DEF KeyInv, LockOnce
  <2>6. TakenLate'
    BY <2>2, <2>3, Zenon DEF KeyInv, TakenLate
  <2>7. ConsumedIffTaken' /\ OtpkTakenOnce'
    BY <2>2, Zenon DEF KeyInv, ConsumedIffTaken, OtpkTakenOnce
  <2>8. \A q \in Req : pc'[q] \in Inserting => q # r /\ pc[q] \in Inserting
    BY <2>2, <2>3, Zenon DEF Inserting, ReplenishTx
  <2>9. NoneInserted'
    BY <2>2, <2>3, Zenon DEF KeyInv, NoneInserted, Inserting, ReplenishTx
  <2>10. InsertsAbsent' /\ InsertsOnce'
    BY <2>2, <2>8, Zenon DEF KeyInv, InsertsAbsent, InsertsOnce
  <2>11. FreshDevice' /\ NoOrphans'
    BY <2>2, <2>3 DEF KeyInv, FreshDevice, NoOrphans
  <2>12. QED
    BY <2>4, <2>5, <2>6, <2>7, <2>9, <2>10, <2>11, Zenon DEF KeyInv
<1>3. \/ Lockable(dev[r]) = {} /\ Goto(r, "fetch_notify") /\ UNCHANGED key
      \/ \E k \in First(dev[r], Lockable(dev[r])) :
            key' = [key EXCEPT ![r] = k] /\ Goto(r, "fetch_mark")
  BY Zenon DEF FetchLockOtpk
<1>4. QED
  BY <1>1, <1>2, <1>3, Zenon

LEMMA KeyFetchMark ==
    ASSUME TypeInv, KeyInv, NEW r \in Req, FetchMark(r)
    PROVE  KeyInv'
<1>1. /\ pc[r] = "fetch_mark"
      /\ pc' = [pc EXCEPT ![r] = "fetch_commit"]
      /\ UNCHANGED <<otpk, devUser, taken, mine, key, dev>>
  BY Zenon DEF FetchMark, Goto, Answer, db, locals
<1>2. /\ pc'[r] \in {"fetch_commit"}
      /\ \A q \in Req \ {r} : pc'[q] = pc[q] /\ dev'[q] = dev[q]
  BY <1>1, PcType, DevType, Zenon
<1>3. Plain(r)
  BY <1>1, <1>2, Zenon DEF Plain, Locking, Inserting, ReplenishTx
<1>4. QED
  BY <1>3, PlainKeepsKeyInv, ZenonT(30)

LEMMA KeyFetchCommit ==
    ASSUME TypeInv, KeyInv, NEW r \in Req, FetchCommit(r)
    PROVE  KeyInv'
<1>1. /\ pc[r] = "fetch_commit" /\ dev[r] \in Device /\ key[r] \in KeyId
      /\ otpk[dev[r]][key[r]] = "free"
  BY ShapeHolds, Zenon DEF FetchCommit, Shape, ShapeAt, OnDevice, FetchTx, KeyInv, LockFree, Locking
<1>2. /\ pc' = [pc EXCEPT ![r] = "fetch_notify"] \/ pc' = [pc EXCEPT ![r] = "done"]
      /\ otpk' = [otpk EXCEPT ![dev[r]][key[r]] = "consumed"]
      /\ taken' = [taken EXCEPT ![r] = <<dev[r], key[r]>>]
      /\ UNCHANGED <<devUser, mine, dev, key>>
  BY Zenon DEF FetchCommit, Goto, Answer, locals
<1>3. /\ pc'[r] \in {"fetch_notify", "done"}
      /\ \A q \in Req \ {r} : pc'[q] = pc[q]
      /\ \A q \in Req : taken'[q] = IF q = r THEN <<dev[r], key[r]>> ELSE taken[q]
  BY <1>2, PcType, TakenType, Zenon
<1>4. \A d \in Device, k \in KeyId :
         otpk'[d][k] = IF d = dev[r] /\ k = key[r] THEN "consumed" ELSE otpk[d][k]
  BY <1>1, <1>2, OtpkType, Zenon
<1>5. \A q \in Req : pc'[q] \in Locking =>
         /\ q # r /\ pc[q] \in Locking /\ dev[q] \in Device /\ key[q] \in KeyId
  BY <1>3, ShapeHolds, Zenon DEF Locking, Shape, ShapeAt, OnDevice, FetchTx
<1>6. \A q \in Req : pc'[q] \in Inserting => /\ q # r /\ pc[q] \in Inserting
                                             /\ dev[q] \in Device
  BY <1>3, ShapeHolds, Zenon DEF Inserting, ReplenishTx, Shape, ShapeAt, OnDevice
<1>7. \A q \in Req : taken[q] # <<dev[r], key[r]>>
  BY <1>1, Zenon DEF KeyInv, ConsumedIffTaken
<1>8. taken[r] = None
  BY <1>1, Zenon DEF KeyInv, TakenLate
<1>9. LockFree'
  <2>1. \A q \in Req : pc'[q] \in Locking => ~(dev[q] = dev[r] /\ key[q] = key[r])
    BY <1>1, <1>5, Zenon DEF KeyInv, LockOnce, Locking
  <2>2. QED
    BY <1>2, <1>4, <1>5, <2>1 DEF KeyInv, LockFree
<1>10. LockOnce'
  BY <1>2, <1>5, Zenon DEF KeyInv, LockOnce
<1>11. TakenLate'
  BY <1>3, Zenon DEF KeyInv, TakenLate
<1>12. ConsumedIffTaken'
  <2> SUFFICES ASSUME NEW d \in Device, NEW k \in KeyId
               PROVE  otpk'[d][k] = "consumed" <=> \E q \in Req : taken'[q] = <<d, k>>
    BY Zenon DEF ConsumedIffTaken
  <2>1. otpk[d][k] = "consumed" <=> \E q \in Req : taken[q] = <<d, k>>
    BY Zenon DEF KeyInv, ConsumedIffTaken
  <2>2. CASE d = dev[r] /\ k = key[r]
    BY <1>3, <1>4, <2>2, Zenon
  <2>3. CASE ~(d = dev[r] /\ k = key[r])
    <3>1. otpk'[d][k] = otpk[d][k]
      BY <1>4, <2>3, Zenon
    <3>2. taken[r] # <<d, k>>
      BY <1>8, NoneFacts
    <3>3. <<dev[r], key[r]>> # <<d, k>>
      BY <2>3
    <3>4. \A q \in Req : taken'[q] = <<d, k>> <=> taken[q] = <<d, k>>
      BY <1>3, <3>2, <3>3, Zenon
    <3>5. QED
      BY <2>1, <3>1, <3>4, Zenon
  <2>4. QED
    BY <2>2, <2>3, Zenon
<1>13. OtpkTakenOnce'
  BY <1>3, <1>7, Zenon DEF KeyInv, OtpkTakenOnce
<1>14. NoneInserted'
  BY <1>1, <1>2, <1>3, Zenon DEF KeyInv, NoneInserted, Inserting, ReplenishTx
<1>15. InsertsAbsent'
  BY <1>1, <1>2, <1>4, <1>6 DEF KeyInv, InsertsAbsent
<1>16. InsertsOnce'
  BY <1>2, <1>6, Zenon DEF KeyInv, InsertsOnce
<1>17. FreshDevice'
  BY <1>2, <1>3, Zenon DEF KeyInv, FreshDevice
<1>18. NoOrphans'
  BY <1>1, <1>2, <1>4 DEF KeyInv, NoOrphans
<1>19. QED
  BY <1>9, <1>10, <1>11, <1>12, <1>13, <1>14, <1>15, <1>16, <1>17, <1>18, Zenon DEF KeyInv

LEMMA KeyFetchNotify ==
    ASSUME TypeInv, KeyInv, NEW r \in Req, FetchNotify(r)
    PROVE  KeyInv'
<1>1. /\ pc[r] = "fetch_notify"
      /\ pc' = [pc EXCEPT ![r] = "done"]
      /\ UNCHANGED <<otpk, devUser, taken, mine, key, dev>>
  BY Zenon DEF FetchNotify, Goto, Answer, db, locals
<1>2. /\ pc'[r] \in {"done"}
      /\ \A q \in Req \ {r} : pc'[q] = pc[q] /\ dev'[q] = dev[q]
  BY <1>1, PcType, DevType, Zenon
<1>3. Plain(r)
  BY <1>1, <1>2, Zenon DEF Plain, Locking, Inserting, ReplenishTx
<1>4. QED
  BY <1>3, PlainKeepsKeyInv, ZenonT(30)

LEMMA KeyReplenishRequest ==
    ASSUME TypeInv, KeyInv, NEW r \in Req, NEW d \in Device, NEW own \in BOOLEAN,
       NEW ks \in Uploads, ReplenishRequest(r, d, own, ks)
    PROVE  KeyInv'
<1>1. ReplenishRefusal(d, own, ks) = "none" => devUser[d] # None
  BY Refusals, Zenon
<1>2. /\ pc[r] = "idle"
      /\ pc' = [pc EXCEPT ![r] = "done"] \/ pc' = [pc EXCEPT ![r] = "repl_insert"]
      /\ dev' = dev \/ \E e \in Device : devUser[e] # None /\ dev' = [dev EXCEPT ![r] = e]
      /\ UNCHANGED <<otpk, devUser, taken, mine, key>>
  BY <1>1, Zenon DEF ReplenishRequest, Goto, Answer, db, locals
<1>3. /\ pc'[r] \in {"done", "repl_insert"}
      /\ \A q \in Req \ {r} : pc'[q] = pc[q] /\ dev'[q] = dev[q]
      /\ dev'[r] = dev[r] \/ (dev'[r] \in Device /\ devUser[dev'[r]] # None)
  BY <1>2, PcType, DevType, Zenon
<1>4. Plain(r)
  BY <1>2, <1>3, Zenon DEF Plain, Locking, Inserting, ReplenishTx
<1>5. QED
  BY <1>4, PlainKeepsKeyInv, Zenon

LEMMA KeyReplenishInsert ==
    ASSUME TypeInv, KeyInv, NEW r \in Req, ReplenishInsert(r)
    PROVE  KeyInv'
<1> DEFINE k == Head(todo[r])
<1>1. k \in KeyId
  BY TodoType DEF ReplenishInsert
<1>2. /\ pc[r] = "repl_insert"
      /\ \A q \in Req \ {r} : ~HoldsInsert(q, dev[r], k)
      /\ UNCHANGED <<pc, otpk, devUser, taken, dev, key>>
  BY Zenon DEF ReplenishInsert
<1>3. \/ mine' = mine
      \/ otpk[dev[r]][k] = "absent" /\ mine' = [mine EXCEPT ![r][k] = nextId]
  BY Zenon DEF ReplenishInsert, Conflicts
<1> HIDE DEF k
<1>4. LockFree' /\ LockOnce' /\ TakenLate' /\ ConsumedIffTaken' /\ OtpkTakenOnce'
  <2>1. LockFree' /\ LockOnce' /\ TakenLate'
    BY <1>2, Zenon DEF KeyInv, LockFree, LockOnce, TakenLate
  <2>2. ConsumedIffTaken' /\ OtpkTakenOnce'
    BY <1>2, Zenon DEF KeyInv, ConsumedIffTaken, OtpkTakenOnce
  <2>3. QED
    BY <2>1, <2>2, Zenon
<1>5. FreshDevice' /\ NoOrphans'
  BY <1>2, Zenon DEF KeyInv, FreshDevice, NoOrphans
<1>6. CASE mine' = mine
  <2>1. NoneInserted' /\ InsertsAbsent' /\ InsertsOnce'
    BY <1>2, <1>6, Zenon DEF KeyInv, NoneInserted, InsertsAbsent, InsertsOnce
  <2>2. QED
    BY <1>4, <1>5, <2>1, Zenon DEF KeyInv
<1>7. CASE otpk[dev[r]][k] = "absent" /\ mine' = [mine EXCEPT ![r][k] = nextId]
  <2>1. \A q \in Req, j \in KeyId :
           mine'[q][j] = IF q = r /\ j = k THEN nextId ELSE mine[q][j]
    BY <1>1, <1>7, MineType, Zenon
  <2>2. \A q \in Req \ {r} : pc[q] \in Inserting /\ dev[q] = dev[r] => mine[q][k] = 0
    BY <1>2, Zenon DEF HoldsInsert, InTx, Inserting, RegisterTx
  <2>3. pc[r] \in Inserting
    BY <1>2, Zenon DEF Inserting, ReplenishTx
  <2>4. NoneInserted'
    BY <1>2, <2>1, <2>3, ZenonT(30) DEF KeyInv, NoneInserted
  <2>5. InsertsAbsent'
    BY <1>2, <1>7, <2>1 DEF KeyInv, InsertsAbsent
  <2>6. InsertsOnce'
    <3>1. SUFFICES ASSUME NEW p \in Req, NEW q \in Req, NEW j \in KeyId, p # q,
                          pc[p] \in Inserting, pc[q] \in Inserting, dev[p] = dev[q],
                          mine'[p][j] # 0, mine'[q][j] # 0
                   PROVE  FALSE
      BY <1>2, Zenon DEF InsertsOnce
    <3>2. mine[p][j] = 0 \/ mine[q][j] = 0
      BY <3>1, Zenon DEF KeyInv, InsertsOnce
    <3>3. QED
      BY <2>1, <2>2, <3>1, <3>2
  <2>7. QED
    BY <1>4, <1>5, <2>4, <2>5, <2>6, Zenon DEF KeyInv
<1>8. QED
  BY <1>3, <1>6, <1>7, Zenon

LEMMA KeyReplenishCount ==
    ASSUME TypeInv, KeyInv, NEW r \in Req, ReplenishCount(r)
    PROVE  KeyInv'
<1>1. /\ pc[r] = "repl_insert"
      /\ pc' = [pc EXCEPT ![r] = "repl_sync"]
      /\ UNCHANGED <<otpk, devUser, taken, mine, key, dev>>
  BY Zenon DEF ReplenishCount, Goto, Answer, db, locals
<1>2. /\ pc'[r] \in {"repl_sync"}
      /\ \A q \in Req \ {r} : pc'[q] = pc[q] /\ dev'[q] = dev[q]
  BY <1>1, PcType, DevType, Zenon
<1>3. Plain(r)
  BY <1>1, <1>2, Zenon DEF Plain, Locking, Inserting, ReplenishTx
<1>4. QED
  BY <1>3, PlainKeepsKeyInv, ZenonT(30)

LEMMA KeyReplenishSync ==
    ASSUME TypeInv, KeyInv, NEW r \in Req, ReplenishSync(r)
    PROVE  KeyInv'
<1>1. /\ pc[r] = "repl_sync"
      /\ pc' = [pc EXCEPT ![r] = "repl_commit"]
      /\ UNCHANGED <<otpk, devUser, taken, mine, key, dev>>
  BY Zenon DEF ReplenishSync, Goto, Answer, db, locals
<1>2. /\ pc'[r] \in {"repl_commit"}
      /\ \A q \in Req \ {r} : pc'[q] = pc[q] /\ dev'[q] = dev[q]
  BY <1>1, PcType, DevType, Zenon
<1>3. Plain(r)
  BY <1>1, <1>2, Zenon DEF Plain, Locking, Inserting, ReplenishTx
<1>4. QED
  BY <1>3, PlainKeepsKeyInv, ZenonT(30)

LEMMA KeyReplenishCommit ==
    ASSUME TypeInv, KeyInv, NEW r \in Req, ReplenishCommit(r)
    PROVE  KeyInv'
<1>1. devUser[dev[r]] # None
  BY ShapeHolds, Zenon DEF ReplenishCommit, Shape, ShapeAt, OnDevice, ReplenishTx
<1>2. /\ pc[r] = "repl_commit" /\ pc' = [pc EXCEPT ![r] = "done"]
      /\ PublishKeys(r) /\ UNCHANGED <<taken, key, mine, dev, devUser>>
  BY Zenon DEF ReplenishCommit, Answer, locals
<1>3. QED
  BY <1>1, <1>2, PublishKeepsKeyInv, Zenon

LEMMA KeyRotateRequest ==
    ASSUME TypeInv, KeyInv, NEW r \in Req, NEW d \in Device, NEW own \in BOOLEAN,
       NEW s \in Spk, RotateRequest(r, d, own, s)
    PROVE  KeyInv'
<1>1. RotateRefusal(d, own, s) = "none" => devUser[d] # None
  BY Refusals, Zenon
<1>2. /\ pc[r] = "idle"
      /\ pc' = [pc EXCEPT ![r] = "done"] \/ pc' = [pc EXCEPT ![r] = "rot_write"]
      /\ dev' = dev \/ \E e \in Device : devUser[e] # None /\ dev' = [dev EXCEPT ![r] = e]
      /\ UNCHANGED <<otpk, devUser, taken, mine, key>>
  BY <1>1, Zenon DEF RotateRequest, Goto, Answer, db, locals
<1>3. /\ pc'[r] \in {"done", "rot_write"}
      /\ \A q \in Req \ {r} : pc'[q] = pc[q] /\ dev'[q] = dev[q]
      /\ dev'[r] = dev[r] \/ (dev'[r] \in Device /\ devUser[dev'[r]] # None)
  BY <1>2, PcType, DevType, Zenon
<1>4. Plain(r)
  BY <1>2, <1>3, Zenon DEF Plain, Locking, Inserting, ReplenishTx
<1>5. QED
  BY <1>4, PlainKeepsKeyInv

LEMMA KeyRotateWrite ==
    ASSUME TypeInv, KeyInv, NEW r \in Req, RotateWrite(r)
    PROVE  KeyInv'
<1>1. /\ pc[r] = "rot_write"
      /\ pc' = [pc EXCEPT ![r] = "done"]
      /\ UNCHANGED <<otpk, devUser, taken, mine, key, dev>>
  BY Zenon DEF RotateWrite, Goto, Answer, db, locals
<1>2. /\ pc'[r] \in {"done"}
      /\ \A q \in Req \ {r} : pc'[q] = pc[q] /\ dev'[q] = dev[q]
  BY <1>1, PcType, DevType, Zenon
<1>3. Plain(r)
  BY <1>1, <1>2, Zenon DEF Plain, Locking, Inserting, ReplenishTx
<1>4. QED
  BY <1>3, PlainKeepsKeyInv, ZenonT(30)

LEMMA KeyAbort ==
    ASSUME TypeInv, KeyInv, NEW r \in Req, Abort(r)
    PROVE  KeyInv'
<1>1. /\ pc[r] \notin {"idle", "fetch_notify", "done"}
      /\ pc' = [pc EXCEPT ![r] = "done"]
      /\ UNCHANGED <<otpk, devUser, taken, mine, key, dev>>
  BY Zenon DEF Abort, Goto, Answer, db, locals
<1>2. /\ pc'[r] \in {"done"}
      /\ \A q \in Req \ {r} : pc'[q] = pc[q] /\ dev'[q] = dev[q]
  BY <1>1, PcType, DevType, Zenon
<1>3. Plain(r)
  BY <1>1, <1>2, Zenon DEF Plain, Locking, Inserting, ReplenishTx
<1>4. QED
  BY <1>3, PlainKeepsKeyInv, ZenonT(30)

LEMMA KeyNext == TypeInv /\ KeyInv /\ [Next]_vars => KeyInv'
<1> SUFFICES ASSUME TypeInv, KeyInv, [Next]_vars PROVE KeyInv'
  BY Zenon
<1>1. CASE UNCHANGED vars
  <2>1. UNCHANGED <<otpk, devUser, taken, mine, key, dev, pc>>
    BY <1>1, Zenon DEF vars, db, locals
  <2>2. LockFree' /\ LockOnce'
    BY <2>1, Zenon DEF KeyInv, LockFree, LockOnce
  <2>3. TakenLate' /\ ConsumedIffTaken' /\ OtpkTakenOnce'
    BY <2>1, Zenon DEF KeyInv, TakenLate, ConsumedIffTaken, OtpkTakenOnce
  <2>4. NoneInserted' /\ InsertsAbsent' /\ InsertsOnce'
    BY <2>1, Zenon DEF KeyInv, NoneInserted, InsertsAbsent, InsertsOnce
  <2>5. FreshDevice' /\ NoOrphans'
    BY <2>1, Zenon DEF KeyInv, FreshDevice, NoOrphans
  <2>6. QED
    BY <2>2, <2>3, <2>4, <2>5, Zenon DEF KeyInv
<1>2. QED
  BY <1>1, KeyRegisterRequest, KeyRegisterBegin, KeyRegisterUpsertUser,
     KeyRegisterCount, KeyRegisterInsert, KeyRegisterCommit, KeyFetchSelectDevice,
     KeyFetchLockOtpk, KeyFetchMark, KeyFetchCommit, KeyFetchNotify,
     KeyReplenishRequest, KeyReplenishInsert, KeyReplenishCount, KeyReplenishSync,
     KeyReplenishCommit, KeyRotateRequest, KeyRotateWrite, KeyAbort, Zenon DEF Next, Arrive,
     Step

LEMMA RowsKept == TypeInv /\ KeyInv /\ [Next]_vars => [KeyRowsKept]_vars
<1> SUFFICES ASSUME TypeInv, KeyInv, Next PROVE KeyRowsKept
  BY Zenon
<1>1. ASSUME NEW r \in Req, FetchCommit(r) PROVE KeyRowsKept
  <2>1. dev[r] \in Device /\ key[r] \in KeyId
    BY <1>1, ShapeHolds, Zenon DEF FetchCommit, Shape, ShapeAt, OnDevice, FetchTx
  <2>2. QED
    BY <1>1, <2>1, OtpkType, Zenon DEF FetchCommit, KeyRowsKept
<1>2. ASSUME NEW r \in Req, PublishKeys(r), pc[r] \in {"reg_commit", "repl_commit"}
      PROVE  KeyRowsKept
  <2>1. /\ dev[r] \in Device
        /\ \A k \in KeyId : mine[r][k] # 0 => otpk[dev[r]][k] = "absent"
    BY <1>2, ShapeHolds, Zenon DEF KeyInv, InsertsAbsent, Inserting, ReplenishTx, Shape, ShapeAt, OnDevice
  <2>2. \A d \in Device, k \in KeyId :
           /\ otpk'[d][k] = IF d = dev[r] /\ mine[r][k] # 0 THEN "free" ELSE otpk[d][k]
           /\ otpkId'[d][k] = IF d = dev[r] /\ mine[r][k] # 0 THEN mine[r][k]
                                                             ELSE otpkId[d][k]
    BY <1>2, <2>1, OtpkType, OtpkIdType, Zenon DEF PublishKeys
  <2>3. QED
    BY <2>1, <2>2, Zenon DEF KeyRowsKept
<1>3. CASE UNCHANGED <<otpk, otpkId>>
  BY <1>3, Zenon DEF KeyRowsKept
<1>4. ASSUME NEW r \in Req, Arrive(r) \/ Abort(r) PROVE UNCHANGED <<otpk, otpkId>>
  BY <1>4 DEF Arrive, Abort, RegisterRequest, FetchSelectDevice, ReplenishRequest,
     RotateRequest, db
<1>5. ASSUME NEW r \in Req, Step(r)
      PROVE  \/ UNCHANGED <<otpk, otpkId>>
             \/ FetchCommit(r)
             \/ PublishKeys(r) /\ pc[r] \in {"reg_commit", "repl_commit"}
  BY <1>5, Zenon DEF Step, RegisterBegin, RegisterUpsertUser, RegisterCount, RegisterInsert,
     RegisterCommit, FetchLockOtpk, FetchMark, FetchNotify, ReplenishInsert,
     ReplenishCount, ReplenishSync, ReplenishCommit, RotateWrite, db
<1>6. QED
  BY <1>1, <1>2, <1>3, <1>4, <1>5, Zenon DEF Next

(***************************************************************************)
(* The theorems.                                                           *)
(***************************************************************************)

LEMMA KeyInvariant == Spec => [](TypeInv /\ KeyInv)
  BY TypeInit, TypeNext, KeyInit, KeyNext, PTL DEF Spec

\* FOR UPDATE SKIP LOCKED in fetch_key_bundle: whatever requests interleave, fail
\* or lose their acknowledgement, no two of them take the same one-time prekey.
THEOREM NoOtpkTakenTwice == Spec => []OtpkTakenOnce
  BY KeyInvariant, PTL DEF KeyInv

\* A key is marked consumed if and only if some fetch committed taking it.
THEOREM ConsumptionIsExact == Spec => []ConsumedIffTaken
  BY KeyInvariant, PTL DEF KeyInv

\* No step revives, replaces or drops the row of a key: an upload that repeats an
\* id already used changes nothing.
THEOREM ConsumedKeysStayConsumed == Spec => ConsumedForever
  BY KeyInvariant, RowsKept, PTL DEF Spec, ConsumedForever

(***************************************************************************)
(* Signed prekeys.                                                         *)
(***************************************************************************)
Carrying == Registering \cup FetchTx \cup {"fetch_notify"}

StoredVerify   == \A d \in Device : devUser[d] # None => Verifies(devIdent[d], devSpk[d])
AnswersVerify  == \A r \in Req : resp[r] \in {"bundle", "depleted"} => Verifies(ident[r], spk[r])
CarriedVerify  == \A r \in Req : pc[r] \in Carrying => Verifies(ident[r], spk[r])
RotatesVerify  == \A r \in Req : pc[r] = "rot_write" => Verifies(devIdent[dev[r]], spk[r])
AnsweredIsDone == \A r \in Req : resp[r] # "none" => pc[r] = "done"

\* A request that will store or hand out a signed prekey has one that verifies.
SpkInv == /\ StoredVerify /\ AnswersVerify
          /\ CarriedVerify /\ RotatesVerify /\ AnsweredIsDone

LEMMA SpkInit == Init => SpkInv
<1> SUFFICES ASSUME NEW n \in SeedCounts, Seeded(n) PROVE SpkInv
  BY Zenon DEF Init
<1>1. StoredVerify
  BY KdsAssumption, Zenon DEF Seeded, StoredVerify, Verifies
<1>2. AnswersVerify /\ CarriedVerify /\ RotatesVerify /\ AnsweredIsDone
  BY Zenon DEF Seeded, AnswersVerify, CarriedVerify, RotatesVerify, AnsweredIsDone, Carrying,
     Registering, RegisterTx, FetchTx
<1>3. QED
  BY <1>1, <1>2, Zenon DEF SpkInv

\* A step of r that writes no key and answers with a bundle only if r carries one.
SpkPlain(r) ==
    /\ UNCHANGED <<devUser, devIdent, devSpk, ident, spk>>
    /\ \A q \in Req \ {r} : pc'[q] = pc[q] /\ dev'[q] = dev[q] /\ resp'[q] = resp[q]
    /\ pc[r] # "done" /\ pc'[r] # "rot_write"
    /\ pc'[r] \in Carrying => pc[r] \in Carrying
    /\ \/ resp'[r] = resp[r]
       \/ /\ pc'[r] = "done"
          /\ resp'[r] \in {"bundle", "depleted"} => pc[r] \in Carrying

LEMMA PlainKeepsSpkInv ==
    ASSUME SpkInv, NEW r \in Req, SpkPlain(r) PROVE SpkInv'
<1>1. StoredVerify'
  BY Zenon DEF SpkInv, StoredVerify, SpkPlain, Verifies
<1>2. AnswersVerify'
  BY Zenon DEF SpkInv, AnswersVerify, CarriedVerify, SpkPlain, Verifies
<1>3. CarriedVerify'
  BY Zenon DEF SpkInv, CarriedVerify, SpkPlain, Verifies
<1>4. RotatesVerify'
  BY Zenon DEF SpkInv, RotatesVerify, SpkPlain, Verifies
<1>5. AnsweredIsDone'
  BY Zenon DEF SpkInv, AnsweredIsDone, SpkPlain
<1>6. QED
  BY <1>1, <1>2, <1>3, <1>4, <1>5, Zenon DEF SpkInv

\* A request that is accepted with, or has read, a signed prekey that verifies.
LEMMA AcceptKeepsSpkInv ==
    ASSUME SpkInv, NEW r \in Req, pc[r] = "idle", NEW i, NEW s, Verifies(i, s),
           UNCHANGED <<devUser, devIdent, devSpk, resp>>,
           \A q \in Req \ {r} : /\ pc'[q] = pc[q] /\ dev'[q] = dev[q]
                                /\ ident'[q] = ident[q] /\ spk'[q] = spk[q],
           pc'[r] # "done", spk'[r] = s,
           pc'[r] \in Carrying => ident'[r] = i,
           pc'[r] = "rot_write" => devIdent[dev'[r]] = i
    PROVE  SpkInv'
<1>1. StoredVerify'
  BY Zenon DEF SpkInv, StoredVerify, Verifies
<1>2. resp[r] = "none"
  BY Zenon DEF SpkInv, AnsweredIsDone
<1>3. AnswersVerify'
  BY <1>2, Zenon DEF SpkInv, AnswersVerify, Verifies
<1>4. CarriedVerify'
  BY Zenon DEF SpkInv, CarriedVerify, Verifies
<1>5. RotatesVerify'
  BY Zenon DEF SpkInv, RotatesVerify, Verifies
<1>6. AnsweredIsDone'
  BY <1>2, Zenon DEF SpkInv, AnsweredIsDone
<1>7. QED
  BY <1>1, <1>3, <1>4, <1>5, <1>6, Zenon DEF SpkInv

LEMMA SpkRegisterRequest ==
    ASSUME TypeInv, KeyInv, SpkInv, NEW r \in Req, NEW u \in User, NEW own \in BOOLEAN,
       NEW ks \in Uploads, NEW i \in Identity, NEW s \in Spk, RegisterRequest(r, u, own,
       ks, i, s)
    PROVE  SpkInv'
<1>1. /\ RegisterRefusal(u, own, ks, i, s) \notin {"bundle", "depleted"}
      /\ RegisterRefusal(u, own, ks, i, s) = "none" => Verifies(i, s)
  BY Refusals, Zenon
<1>2. CASE RegisterRefusal(u, own, ks, i, s) # "none"
  <2>1. /\ pc[r] = "idle" /\ pc' = [pc EXCEPT ![r] = "done"]
        /\ resp' = [resp EXCEPT ![r] = RegisterRefusal(u, own, ks, i, s)]
        /\ UNCHANGED <<devUser, devIdent, devSpk, ident, spk, dev>>
    BY <1>2, Zenon DEF RegisterRequest, Answer, db
  <2>2. /\ pc'[r] = "done" /\ resp'[r] \notin {"bundle", "depleted"}
        /\ \A q \in Req \ {r} : pc'[q] = pc[q] /\ dev'[q] = dev[q] /\ resp'[q] = resp[q]
    BY <1>1, <2>1, PcType, DevType, RespType, Zenon
  <2>3. SpkPlain(r)
    BY <2>1, <2>2, Zenon DEF SpkPlain, Carrying, Registering, RegisterTx, FetchTx
  <2>4. QED
    BY <2>3, PlainKeepsSpkInv, Zenon
<1>3. CASE RegisterRefusal(u, own, ks, i, s) = "none"
  <2>1. /\ pc[r] = "idle" /\ pc' = [pc EXCEPT ![r] = "reg_begin"]
        /\ ident' = [ident EXCEPT ![r] = i] /\ spk' = [spk EXCEPT ![r] = s]
        /\ UNCHANGED <<devUser, devIdent, devSpk, dev, resp>>
    BY <1>3, Zenon DEF RegisterRequest, Goto, db
  <2>2. /\ pc'[r] = "reg_begin" /\ ident'[r] = i /\ spk'[r] = s
        /\ \A q \in Req \ {r} : /\ pc'[q] = pc[q] /\ dev'[q] = dev[q]
                                /\ ident'[q] = ident[q] /\ spk'[q] = spk[q]
    BY <2>1, PcType, IdentType, SpkType, Zenon
  <2>3. QED
    BY <1>1, <1>3, <2>1, <2>2, AcceptKeepsSpkInv, Zenon
<1>4. QED
  BY <1>2, <1>3, Zenon

LEMMA SpkRegisterBegin ==
    ASSUME TypeInv, KeyInv, SpkInv, NEW r \in Req, RegisterBegin(r)
    PROVE  SpkInv'
<1>1. /\ pc[r] = "reg_begin"
      /\ \/ pc' = [pc EXCEPT ![r] = "reg_user"] /\ resp' = resp
      /\ UNCHANGED <<devUser, devIdent, devSpk, ident, spk, dev>>
  BY Names, Zenon DEF RegisterBegin, Goto, Answer, db, locals
<1>2. \A q \in Req \ {r} : pc'[q] = pc[q] /\ dev'[q] = dev[q] /\ resp'[q] = resp[q]
  BY <1>1, PcType, DevType, RespType, Zenon
<1>3. SpkPlain(r)
  BY <1>1, <1>2, PcType, RespType, Zenon DEF SpkPlain, Carrying, Registering, RegisterTx, FetchTx
<1>4. QED
  BY <1>3, PlainKeepsSpkInv, Zenon

LEMMA SpkRegisterUpsertUser ==
    ASSUME TypeInv, KeyInv, SpkInv, NEW r \in Req, RegisterUpsertUser(r)
    PROVE  SpkInv'
<1>1. /\ pc[r] = "reg_user"
      /\ \/ pc' = [pc EXCEPT ![r] = "reg_count"] /\ resp' = resp
      /\ UNCHANGED <<devUser, devIdent, devSpk, ident, spk, dev>>
  BY Names, Zenon DEF RegisterUpsertUser, Goto, Answer, db, locals
<1>2. \A q \in Req \ {r} : pc'[q] = pc[q] /\ dev'[q] = dev[q] /\ resp'[q] = resp[q]
  BY <1>1, PcType, DevType, RespType, Zenon
<1>3. SpkPlain(r)
  BY <1>1, <1>2, PcType, RespType, Zenon DEF SpkPlain, Carrying, Registering, RegisterTx, FetchTx
<1>4. QED
  BY <1>3, PlainKeepsSpkInv

LEMMA SpkRegisterCount ==
    ASSUME TypeInv, KeyInv, SpkInv, NEW r \in Req, RegisterCount(r)
    PROVE  SpkInv'
<1>1. /\ pc[r] = "reg_count"
      /\ \/ \E a \in Responses \ {"bundle", "depleted"} :
               pc' = [pc EXCEPT ![r] = "done"] /\ resp' = [resp EXCEPT ![r] = a]
         \/ pc' = [pc EXCEPT ![r] = "reg_insert"] /\ resp' = resp
      /\ UNCHANGED <<devUser, devIdent, devSpk, ident, spk, dev>>
  BY Names, Zenon DEF RegisterCount, Goto, Answer, db, locals
<1>2. \A q \in Req \ {r} : pc'[q] = pc[q] /\ dev'[q] = dev[q] /\ resp'[q] = resp[q]
  BY <1>1, PcType, DevType, RespType, Zenon
<1>3. SpkPlain(r)
  BY <1>1, <1>2, PcType, RespType, Zenon DEF SpkPlain, Carrying, Registering, RegisterTx, FetchTx
<1>4. QED
  BY <1>3, PlainKeepsSpkInv, ZenonT(30)

LEMMA SpkRegisterInsert ==
    ASSUME TypeInv, KeyInv, SpkInv, NEW r \in Req, NEW d \in Device, RegisterInsert(r,
       d)
    PROVE  SpkInv'
<1>1. /\ pc[r] = "reg_insert" /\ dev' = [dev EXCEPT ![r] = d]
      /\ \/ pc' = [pc EXCEPT ![r] = "reg_commit"] /\ resp' = resp
         \/ pc' = [pc EXCEPT ![r] = "done"] /\ resp' = [resp EXCEPT ![r] = "storage"]
      /\ UNCHANGED <<devUser, devIdent, devSpk, ident, spk>>
  BY Zenon DEF RegisterInsert, Goto, Answer
<1>2. /\ \A q \in Req \ {r} : pc'[q] = pc[q] /\ dev'[q] = dev[q] /\ resp'[q] = resp[q]
      /\ \/ pc'[r] = "reg_commit" /\ resp'[r] = resp[r]
         \/ pc'[r] = "done" /\ resp'[r] = "storage"
  BY <1>1, PcType, DevType, RespType, Zenon
<1>3. SpkPlain(r)
  BY <1>1, <1>2, Zenon DEF SpkPlain, Carrying, Registering, RegisterTx, FetchTx
<1>4. QED
  BY <1>3, PlainKeepsSpkInv, Zenon

LEMMA SpkRegisterCommit ==
    ASSUME TypeInv, KeyInv, SpkInv, NEW r \in Req, RegisterCommit(r)
    PROVE  SpkInv'
<1>1. dev[r] \in Device /\ pc[r] = "reg_commit" /\ Verifies(ident[r], spk[r])
  BY ShapeHolds, Zenon DEF RegisterCommit, Shape, ShapeAt, SpkInv, CarriedVerify, Carrying, Registering,
     RegisterTx
<1>2. /\ pc' = [pc EXCEPT ![r] = "done"]
      /\ resp' = [resp EXCEPT ![r] = "created"] \/ resp' = [resp EXCEPT ![r] = "storage"]
      /\ UNCHANGED <<dev, ident, spk>>
  BY Zenon DEF RegisterCommit, Answer, locals
<1>3. /\ pc'[r] = "done" /\ resp'[r] \in {"created", "storage"}
      /\ \A q \in Req \ {r} : pc'[q] = pc[q] /\ resp'[q] = resp[q]
  BY <1>2, PcType, RespType, Zenon
<1>4. /\ devIdent'[dev[r]] = ident[r] /\ devSpk'[dev[r]] = spk[r]
      /\ \A d \in Device \ {dev[r]} : /\ devUser'[d] = devUser[d]
                                      /\ devIdent'[d] = devIdent[d] /\ devSpk'[d] = devSpk[d]
  BY <1>1, DevUserType, DevIdentType, DevSpkType, Zenon DEF RegisterCommit
<1>5. \A q \in Req : pc[q] = "rot_write" => dev[q] \in Device \ {dev[r]}
  BY <1>1, ShapeHolds, Zenon DEF Shape, ShapeAt, OnDevice, KeyInv, FreshDevice
<1>6. StoredVerify'
  BY <1>1, <1>4, Zenon DEF SpkInv, StoredVerify, Verifies
<1>7. AnswersVerify'
  BY <1>2, <1>3, Zenon DEF SpkInv, AnswersVerify, Verifies
<1>8. CarriedVerify'
  BY <1>2, <1>3, Zenon DEF SpkInv, CarriedVerify, Verifies, Carrying, Registering, RegisterTx,
     FetchTx
<1>9. RotatesVerify'
  BY <1>2, <1>3, <1>4, <1>5 DEF SpkInv, RotatesVerify, Verifies
<1>10. AnsweredIsDone'
  BY <1>3, Zenon DEF SpkInv, AnsweredIsDone
<1>11. QED
  BY <1>6, <1>7, <1>8, <1>9, <1>10, Zenon DEF SpkInv

LEMMA SpkFetchSelectDevice ==
    ASSUME TypeInv, KeyInv, SpkInv, NEW r \in Req, NEW u \in User, FetchSelectDevice(r,
       u)
    PROVE  SpkInv'
<1>1. CASE Answer(r, "not_found") /\ UNCHANGED <<usr, dev, ident, spk>>
  <2>1. /\ pc[r] = "idle" /\ pc' = [pc EXCEPT ![r] = "done"]
        /\ resp' = [resp EXCEPT ![r] = "not_found"]
        /\ UNCHANGED <<devUser, devIdent, devSpk, ident, spk, dev>>
    BY <1>1, Zenon DEF FetchSelectDevice, Answer, db
  <2>2. /\ pc'[r] = "done" /\ resp'[r] = "not_found"
        /\ \A q \in Req \ {r} : pc'[q] = pc[q] /\ resp'[q] = resp[q]
    BY <2>1, PcType, RespType, Zenon
  <2>3. SpkPlain(r)
    BY <2>1, <2>2, Zenon DEF SpkPlain, Carrying, Registering, RegisterTx, FetchTx
  <2>4. QED
    BY <2>3, PlainKeepsSpkInv
<1>2. ASSUME NEW d \in Oldest(u),
             dev' = [dev EXCEPT ![r] = d], ident' = [ident EXCEPT ![r] = devIdent[d]],
             spk' = [spk EXCEPT ![r] = devSpk[d]], Goto(r, "fetch_otpk")
      PROVE  SpkInv'
  <2>1. Verifies(devIdent[d], devSpk[d])
    BY NoneFacts, Zenon DEF Oldest, DevicesOf, SpkInv, StoredVerify
  <2>2. /\ pc[r] = "idle" /\ pc' = [pc EXCEPT ![r] = "fetch_otpk"]
        /\ UNCHANGED <<devUser, devIdent, devSpk, resp>>
    BY <1>2, Zenon DEF FetchSelectDevice, Goto, db
  <2>3. /\ pc'[r] = "fetch_otpk" /\ ident'[r] = devIdent[d] /\ spk'[r] = devSpk[d]
        /\ \A q \in Req \ {r} : /\ pc'[q] = pc[q] /\ dev'[q] = dev[q]
                                /\ ident'[q] = ident[q] /\ spk'[q] = spk[q]
    BY <1>2, <2>2, PcType, DevType, IdentType, SpkType, Zenon
  <2>4. QED
    BY <2>1, <2>2, <2>3, AcceptKeepsSpkInv, Zenon
<1>3. \/ Answer(r, "not_found") /\ UNCHANGED <<usr, dev, ident, spk>>
      \/ \E d \in Oldest(u) :
            /\ dev' = [dev EXCEPT ![r] = d] /\ ident' = [ident EXCEPT ![r] = devIdent[d]]
            /\ spk' = [spk EXCEPT ![r] = devSpk[d]] /\ Goto(r, "fetch_otpk")
  BY Zenon DEF FetchSelectDevice
<1>4. QED
  BY <1>1, <1>2, <1>3, Zenon

LEMMA SpkFetchLockOtpk ==
    ASSUME TypeInv, KeyInv, SpkInv, NEW r \in Req, FetchLockOtpk(r)
    PROVE  SpkInv'
<1>1. /\ pc[r] = "fetch_otpk"
      /\ \/ pc' = [pc EXCEPT ![r] = "fetch_notify"] /\ resp' = resp
         \/ pc' = [pc EXCEPT ![r] = "fetch_mark"] /\ resp' = resp
      /\ UNCHANGED <<devUser, devIdent, devSpk, ident, spk, dev>>
  BY Names, Zenon DEF FetchLockOtpk, Goto, Answer, db, locals
<1>2. \A q \in Req \ {r} : pc'[q] = pc[q] /\ dev'[q] = dev[q] /\ resp'[q] = resp[q]
  BY <1>1, PcType, DevType, RespType, Zenon
<1>3. SpkPlain(r)
  BY <1>1, <1>2, PcType, RespType, Zenon DEF SpkPlain, Carrying, Registering, RegisterTx, FetchTx
<1>4. QED
  BY <1>3, PlainKeepsSpkInv, ZenonT(30)

LEMMA SpkFetchMark ==
    ASSUME TypeInv, KeyInv, SpkInv, NEW r \in Req, FetchMark(r)
    PROVE  SpkInv'
<1>1. /\ pc[r] = "fetch_mark"
      /\ \/ pc' = [pc EXCEPT ![r] = "fetch_commit"] /\ resp' = resp
      /\ UNCHANGED <<devUser, devIdent, devSpk, ident, spk, dev>>
  BY Names, Zenon DEF FetchMark, Goto, Answer, db, locals
<1>2. \A q \in Req \ {r} : pc'[q] = pc[q] /\ dev'[q] = dev[q] /\ resp'[q] = resp[q]
  BY <1>1, PcType, DevType, RespType, Zenon
<1>3. SpkPlain(r)
  BY <1>1, <1>2, PcType, RespType, Zenon DEF SpkPlain, Carrying, Registering, RegisterTx, FetchTx
<1>4. QED
  BY <1>3, PlainKeepsSpkInv, ZenonT(30)

LEMMA SpkFetchCommit ==
    ASSUME TypeInv, KeyInv, SpkInv, NEW r \in Req, FetchCommit(r)
    PROVE  SpkInv'
<1>1. /\ pc[r] = "fetch_commit"
      /\ \/ pc' = [pc EXCEPT ![r] = "fetch_notify"] /\ resp' = resp
         \/ \E a \in Responses \ {"bundle", "depleted"} :
               pc' = [pc EXCEPT ![r] = "done"] /\ resp' = [resp EXCEPT ![r] = a]
      /\ UNCHANGED <<devUser, devIdent, devSpk, ident, spk, dev>>
  BY Names, Zenon DEF FetchCommit, Goto, Answer, db, locals
<1>2. \A q \in Req \ {r} : pc'[q] = pc[q] /\ dev'[q] = dev[q] /\ resp'[q] = resp[q]
  BY <1>1, PcType, DevType, RespType, Zenon
<1>3. SpkPlain(r)
  BY <1>1, <1>2, PcType, RespType, Zenon DEF SpkPlain, Carrying, Registering, RegisterTx, FetchTx
<1>4. QED
  BY <1>3, PlainKeepsSpkInv, ZenonT(30)

LEMMA SpkFetchNotify ==
    ASSUME TypeInv, KeyInv, SpkInv, NEW r \in Req, FetchNotify(r)
    PROVE  SpkInv'
<1>1. /\ pc[r] = "fetch_notify"
      /\ \/ \E a \in {"bundle", "depleted"} :
               pc' = [pc EXCEPT ![r] = "done"] /\ resp' = [resp EXCEPT ![r] = a]
      /\ UNCHANGED <<devUser, devIdent, devSpk, ident, spk, dev>>
  BY Names, Zenon DEF FetchNotify, Goto, Answer, db, locals
<1>2. \A q \in Req \ {r} : pc'[q] = pc[q] /\ dev'[q] = dev[q] /\ resp'[q] = resp[q]
  BY <1>1, PcType, DevType, RespType, Zenon
<1>3. SpkPlain(r)
  BY <1>1, <1>2, PcType, RespType, Zenon DEF SpkPlain, Carrying, Registering, RegisterTx, FetchTx
<1>4. QED
  BY <1>3, PlainKeepsSpkInv, ZenonT(30)

LEMMA SpkReplenishRequest ==
    ASSUME TypeInv, KeyInv, SpkInv, NEW r \in Req, NEW d \in Device,
       NEW own \in BOOLEAN, NEW ks \in Uploads, ReplenishRequest(r, d, own, ks)
    PROVE  SpkInv'
<1>1. ReplenishRefusal(d, own, ks) \notin {"bundle", "depleted"}
  BY Refusals, Zenon
<1>2. CASE ReplenishRefusal(d, own, ks) # "none"
  <2>1. /\ pc[r] = "idle" /\ pc' = [pc EXCEPT ![r] = "done"]
        /\ resp' = [resp EXCEPT ![r] = ReplenishRefusal(d, own, ks)]
        /\ UNCHANGED <<devUser, devIdent, devSpk, ident, spk, dev>>
    BY <1>2, Zenon DEF ReplenishRequest, Answer, db
  <2>2. /\ pc'[r] = "done" /\ resp'[r] \notin {"bundle", "depleted"}
        /\ \A q \in Req \ {r} : pc'[q] = pc[q] /\ dev'[q] = dev[q] /\ resp'[q] = resp[q]
    BY <1>1, <2>1, PcType, DevType, RespType, Zenon
  <2>3. SpkPlain(r)
    BY <2>1, <2>2, Zenon DEF SpkPlain, Carrying, Registering, RegisterTx, FetchTx
  <2>4. QED
    BY <2>3, PlainKeepsSpkInv, Zenon
<1>3. CASE ReplenishRefusal(d, own, ks) = "none"
  <2>1. /\ pc[r] = "idle" /\ pc' = [pc EXCEPT ![r] = "repl_insert"]
        /\ dev' = [dev EXCEPT ![r] = d]
        /\ UNCHANGED <<devUser, devIdent, devSpk, ident, spk, resp>>
    BY <1>3, Zenon DEF ReplenishRequest, Goto, db
  <2>2. /\ pc'[r] = "repl_insert" /\ resp'[r] = resp[r]
        /\ \A q \in Req \ {r} : pc'[q] = pc[q] /\ dev'[q] = dev[q] /\ resp'[q] = resp[q]
    BY <2>1, PcType, DevType, Zenon
  <2>3. SpkPlain(r)
    BY <2>1, <2>2, Zenon DEF SpkPlain, Carrying, Registering, RegisterTx, FetchTx
  <2>4. QED
    BY <2>3, PlainKeepsSpkInv
<1>4. QED
  BY <1>2, <1>3, Zenon

LEMMA SpkReplenishInsert ==
    ASSUME TypeInv, KeyInv, SpkInv, NEW r \in Req, ReplenishInsert(r)
    PROVE  SpkInv'
<1>1. /\ pc[r] = "repl_insert"
      /\ UNCHANGED <<devUser, devIdent, devSpk, ident, spk, pc, dev, resp>>
  BY Zenon DEF ReplenishInsert
<1>2. SpkPlain(r)
  BY <1>1, Zenon DEF SpkPlain
<1>3. QED
  BY <1>2, PlainKeepsSpkInv, ZenonT(30)

LEMMA SpkReplenishCount ==
    ASSUME TypeInv, KeyInv, SpkInv, NEW r \in Req, ReplenishCount(r)
    PROVE  SpkInv'
<1>1. /\ pc[r] = "repl_insert"
      /\ \/ pc' = [pc EXCEPT ![r] = "repl_sync"] /\ resp' = resp
      /\ UNCHANGED <<devUser, devIdent, devSpk, ident, spk, dev>>
  BY Names, Zenon DEF ReplenishCount, Goto, Answer, db, locals
<1>2. \A q \in Req \ {r} : pc'[q] = pc[q] /\ dev'[q] = dev[q] /\ resp'[q] = resp[q]
  BY <1>1, PcType, DevType, RespType, Zenon
<1>3. SpkPlain(r)
  BY <1>1, <1>2, PcType, RespType, ZenonT(30) DEF SpkPlain, Carrying, Registering, RegisterTx, FetchTx
<1>4. QED
  BY <1>3, PlainKeepsSpkInv, ZenonT(30)

LEMMA SpkReplenishSync ==
    ASSUME TypeInv, KeyInv, SpkInv, NEW r \in Req, ReplenishSync(r)
    PROVE  SpkInv'
<1>1. /\ pc[r] = "repl_sync"
      /\ \/ pc' = [pc EXCEPT ![r] = "repl_commit"] /\ resp' = resp
      /\ UNCHANGED <<devUser, devIdent, devSpk, ident, spk, dev>>
  BY Names, Zenon DEF ReplenishSync, Goto, Answer, db, locals
<1>2. \A q \in Req \ {r} : pc'[q] = pc[q] /\ dev'[q] = dev[q] /\ resp'[q] = resp[q]
  BY <1>1, PcType, DevType, RespType, Zenon
<1>3. SpkPlain(r)
  BY <1>1, <1>2, PcType, RespType, ZenonT(30) DEF SpkPlain, Carrying, Registering, RegisterTx, FetchTx
<1>4. QED
  BY <1>3, PlainKeepsSpkInv, ZenonT(30)

LEMMA SpkReplenishCommit ==
    ASSUME TypeInv, KeyInv, SpkInv, NEW r \in Req, ReplenishCommit(r)
    PROVE  SpkInv'
<1>1. /\ pc[r] = "repl_commit"
      /\ \/ \E a \in Responses \ {"bundle", "depleted"} :
               pc' = [pc EXCEPT ![r] = "done"] /\ resp' = [resp EXCEPT ![r] = a]
      /\ UNCHANGED <<devUser, devIdent, devSpk, ident, spk, dev>>
  BY Names, Zenon DEF ReplenishCommit, Goto, Answer, db, locals
<1>2. \A q \in Req \ {r} : pc'[q] = pc[q] /\ dev'[q] = dev[q] /\ resp'[q] = resp[q]
  BY <1>1, PcType, DevType, RespType, Zenon
<1>3. SpkPlain(r)
  BY <1>1, <1>2, PcType, RespType, Zenon DEF SpkPlain, Carrying, Registering, RegisterTx, FetchTx
<1>4. QED
  BY <1>3, PlainKeepsSpkInv, ZenonT(30)

LEMMA SpkRotateRequest ==
    ASSUME TypeInv, KeyInv, SpkInv, NEW r \in Req, NEW d \in Device,
       NEW own \in BOOLEAN, NEW s \in Spk, RotateRequest(r, d, own, s)
    PROVE  SpkInv'
<1>1. /\ RotateRefusal(d, own, s) \notin {"bundle", "depleted"}
      /\ RotateRefusal(d, own, s) = "none" => Verifies(devIdent[d], s)
  BY Refusals, Zenon
<1>2. CASE RotateRefusal(d, own, s) # "none"
  <2>1. /\ pc[r] = "idle" /\ pc' = [pc EXCEPT ![r] = "done"]
        /\ resp' = [resp EXCEPT ![r] = RotateRefusal(d, own, s)]
        /\ UNCHANGED <<devUser, devIdent, devSpk, ident, spk, dev>>
    BY <1>2, Zenon DEF RotateRequest, Answer, db
  <2>2. /\ pc'[r] = "done" /\ resp'[r] \notin {"bundle", "depleted"}
        /\ \A q \in Req \ {r} : pc'[q] = pc[q] /\ dev'[q] = dev[q] /\ resp'[q] = resp[q]
    BY <1>1, <2>1, PcType, DevType, RespType, ZenonT(30)
  <2>3. SpkPlain(r)
    BY <2>1, <2>2, ZenonT(30) DEF SpkPlain, Carrying, Registering, RegisterTx, FetchTx
  <2>4. QED
    BY <2>3, PlainKeepsSpkInv, ZenonT(30)
<1>3. CASE RotateRefusal(d, own, s) = "none"
  <2>1. /\ pc[r] = "idle" /\ pc' = [pc EXCEPT ![r] = "rot_write"]
        /\ dev' = [dev EXCEPT ![r] = d] /\ spk' = [spk EXCEPT ![r] = s]
        /\ UNCHANGED <<devUser, devIdent, devSpk, ident, resp>>
    BY <1>3, Zenon DEF RotateRequest, Goto, db
  <2>2. /\ pc'[r] = "rot_write" /\ dev'[r] = d /\ spk'[r] = s
        /\ \A q \in Req \ {r} : /\ pc'[q] = pc[q] /\ dev'[q] = dev[q]
                                /\ ident'[q] = ident[q] /\ spk'[q] = spk[q]
    BY <2>1, PcType, DevType, SpkType, Zenon
  <2>3. pc'[r] \notin Carrying
    BY <2>2 DEF Carrying, Registering, RegisterTx, FetchTx
  <2>4. QED
    BY <1>1, <1>3, <2>1, <2>2, <2>3, AcceptKeepsSpkInv, ZenonT(30)
<1>4. QED
  BY <1>2, <1>3

LEMMA SpkRotateWrite ==
    ASSUME TypeInv, KeyInv, SpkInv, NEW r \in Req, RotateWrite(r)
    PROVE  SpkInv'
<1>1. dev[r] \in Device /\ Verifies(devIdent[dev[r]], spk[r])
  BY ShapeHolds, Zenon DEF RotateWrite, Shape, ShapeAt, OnDevice, SpkInv, RotatesVerify
<1>2. /\ pc' = [pc EXCEPT ![r] = "done"]
      /\ resp' = [resp EXCEPT ![r] = "rotated"] \/ resp' = [resp EXCEPT ![r] = "storage"]
      /\ UNCHANGED <<dev, ident, spk, devUser, devIdent>>
  BY Zenon DEF RotateWrite, Answer, locals
<1>3. /\ pc'[r] = "done" /\ resp'[r] \in {"rotated", "storage"}
      /\ \A q \in Req \ {r} : pc'[q] = pc[q] /\ resp'[q] = resp[q]
  BY <1>2, PcType, RespType, Zenon
<1>4. /\ devSpk'[dev[r]] = spk[r]
      /\ \A d \in Device \ {dev[r]} : devSpk'[d] = devSpk[d]
  BY <1>1, DevSpkType, Zenon DEF RotateWrite
<1>5. StoredVerify'
  BY <1>1, <1>2, <1>4, Zenon DEF SpkInv, StoredVerify, Verifies
<1>6. AnswersVerify'
  BY <1>2, <1>3, Zenon DEF SpkInv, AnswersVerify, Verifies
<1>7. CarriedVerify'
  BY <1>2, <1>3, Zenon DEF SpkInv, CarriedVerify, Verifies, Carrying, Registering, RegisterTx,
     FetchTx
<1>8. RotatesVerify'
  BY <1>2, <1>3, Zenon DEF SpkInv, RotatesVerify, Verifies
<1>9. AnsweredIsDone'
  BY <1>3, Zenon DEF SpkInv, AnsweredIsDone
<1>10. QED
  BY <1>5, <1>6, <1>7, <1>8, <1>9, ZenonT(30) DEF SpkInv

LEMMA SpkAbort ==
    ASSUME TypeInv, KeyInv, SpkInv, NEW r \in Req, Abort(r)
    PROVE  SpkInv'
<1>1. /\ pc[r] \notin {"idle", "fetch_notify", "done"}
      /\ \/ \E a \in Responses \ {"bundle", "depleted"} :
               pc' = [pc EXCEPT ![r] = "done"] /\ resp' = [resp EXCEPT ![r] = a]
      /\ UNCHANGED <<devUser, devIdent, devSpk, ident, spk, dev>>
  BY Names, Zenon DEF Abort, Goto, Answer, db, locals
<1>2. \A q \in Req \ {r} : pc'[q] = pc[q] /\ dev'[q] = dev[q] /\ resp'[q] = resp[q]
  BY <1>1, PcType, DevType, RespType, Zenon
<1>3. SpkPlain(r)
  BY <1>1, <1>2, PcType, RespType, Zenon DEF SpkPlain, Carrying, Registering, RegisterTx, FetchTx
<1>4. QED
  BY <1>3, PlainKeepsSpkInv, ZenonT(30)

LEMMA SpkNext == TypeInv /\ KeyInv /\ SpkInv /\ [Next]_vars => SpkInv'
<1> SUFFICES ASSUME TypeInv, KeyInv, SpkInv, [Next]_vars PROVE SpkInv'
  BY Zenon
<1>1. CASE UNCHANGED vars
  <2>1. UNCHANGED <<devUser, devIdent, devSpk, ident, spk, pc, dev, resp>>
    BY <1>1, Zenon DEF vars, db, locals
  <2>2. StoredVerify' /\ AnswersVerify' /\ AnsweredIsDone'
    BY <2>1, Zenon DEF SpkInv, StoredVerify, AnswersVerify, AnsweredIsDone, Verifies
  <2>3. CarriedVerify' /\ RotatesVerify'
    BY <2>1, Zenon DEF SpkInv, CarriedVerify, RotatesVerify, Verifies
  <2>4. QED
    BY <2>2, <2>3, Zenon DEF SpkInv
<1>2. QED
  BY <1>1, SpkRegisterRequest, SpkRegisterBegin, SpkRegisterUpsertUser,
     SpkRegisterCount, SpkRegisterInsert, SpkRegisterCommit, SpkFetchSelectDevice,
     SpkFetchLockOtpk, SpkFetchMark, SpkFetchCommit, SpkFetchNotify,
     SpkReplenishRequest, SpkReplenishInsert, SpkReplenishCount, SpkReplenishSync,
     SpkReplenishCommit, SpkRotateRequest, SpkRotateWrite, SpkAbort, ZenonT(30) DEF Next, Arrive,
     Step

(***************************************************************************)
(* The theorems.                                                           *)
(***************************************************************************)

\* Every signed prekey that is stored or handed out verifies under the identity
\* key stored or handed out with it, across registration, rotation and fetches.
THEOREM SignedPrekeysVerify == Spec => []BundlesVerify
<1>1. Spec => []SpkInv
  BY KeyInvariant, SpkInit, SpkNext, PTL DEF Spec
<1>2. SpkInv => BundlesVerify
  BY Zenon DEF SpkInv, StoredVerify, AnswersVerify, BundlesVerify
<1>3. QED
  BY <1>1, <1>2, PTL

-----------------------------------------------------------------------------
(***************************************************************************)
(* Pools.                                                                  *)
(***************************************************************************)


\* A fetch that found no key it could lock, answered or about to be.
Refused(r) == (pc[r] = "fetch_notify" /\ taken[r] = None) \/ resp[r] = "depleted"

\* Request q added keys to the pool of d, or gave one back by failing.
Returned(q, d) ==
    /\ dev[q] = d
    /\ \/ \E k \in KeyId : mine[q][k] # 0
       \/ pc[q] = "done" /\ key[q] # None /\ taken[q] = None

\* Every key of d that is left is locked, or came after the fetch looked.
Spoken(d) ==
    \/ \E q \in Req : Returned(q, d)
    \/ \A k \in KeyId : otpk[d][k] = "free" => \E q \in Req : HoldsOtpk(q, d, k)

RefusedIsSpoken == \A r \in Req : Refused(r) => dev[r] \in Device /\ Spoken(dev[r])

\* An answer is the last thing a request does.
AnsweredLast == \A r \in Req : resp[r] # "none" => pc[r] = "done"

Told(r, d) == resp[r] \in {"bundle", "depleted"} /\ dev[r] = d

\* Request q is about to count the pool of d, or its acknowledgement was lost.
ToCount(q, d) ==
    \/ pc[q] = "fetch_notify" /\ dev[q] = d
    \/ pc[q] = "done" /\ taken[q] # None /\ resp[q] # "bundle"

LowIsKnown(d) ==
    (\E r \in Req : Told(r, d)) /\ PoolSize(d) < LOW_OTPK
        => d \in notified \/ \E q \in Req : ToCount(q, d)

PoolInv == /\ AnsweredLast
           /\ RefusedIsSpoken
           /\ \A d \in Device : LowIsKnown(d)

LEMMA PoolInit == Init => PoolInv
<1> SUFFICES ASSUME NEW n \in SeedCounts, Seeded(n) PROVE PoolInv
  BY Zenon DEF Init
<1>1. AnsweredLast
  BY Zenon DEF Seeded, AnsweredLast
<1>2. RefusedIsSpoken
  BY Zenon DEF Seeded, RefusedIsSpoken, Refused
<1>3. \A d \in Device : LowIsKnown(d)
  BY Zenon DEF Seeded, LowIsKnown, Told
<1>4. QED
  BY <1>1, <1>2, <1>3, Zenon DEF PoolInv

\* A step of r leaves the other requests alone.
OnlyHere(r) ==
    \A q \in Req \ {r} : /\ pc'[q] = pc[q] /\ dev'[q] = dev[q] /\ resp'[q] = resp[q]
                         /\ mine'[q] = mine[q] /\ key'[q] = key[q] /\ taken'[q] = taken[q]

\* The warning stays true: r gives no key back unnoticed and is not itself refused.
LEMMA SpokenStays ==
    ASSUME RefusedIsSpoken, NEW r \in Req, OnlyHere(r),
           \A d \in Device : Returned(r, d) => Returned(r, d)',
           \A d \in Device, k \in KeyId : HoldsOtpk(r, d, k) =>
              HoldsOtpk(r, d, k)' \/ Returned(r, d)' \/ otpk'[d][k] # "free",
           \A d \in Device, k \in KeyId : otpk'[d][k] = "free" =>
              otpk[d][k] = "free" \/ Returned(r, d)',
           Refused(r)' => Refused(r) /\ dev'[r] = dev[r]
    PROVE  RefusedIsSpoken'
<1> SUFFICES ASSUME NEW p \in Req, Refused(p)'
             PROVE  (dev[p] \in Device /\ Spoken(dev[p]))'
  BY Zenon DEF RefusedIsSpoken
<1>1. Refused(p) /\ dev'[p] = dev[p]
  BY Zenon DEF OnlyHere, Refused
<1>2. PICK d \in Device : d = dev[p]
  BY <1>1, Zenon DEF RefusedIsSpoken
<1>3. ASSUME NEW q \in Req, Returned(q, d) PROVE Returned(q, d)'
  BY <1>3 DEF OnlyHere, Returned
<1>4. CASE \E q \in Req : Returned(q, d)'
  BY <1>1, <1>2, <1>4, Zenon DEF Spoken
<1>5. CASE \A q \in Req : ~Returned(q, d)'
  <2>1. \A k \in KeyId : otpk[d][k] = "free" => \E q \in Req : HoldsOtpk(q, d, k)
    BY <1>1, <1>2, <1>3, <1>5, Zenon DEF RefusedIsSpoken, Spoken
  <2>2. ASSUME NEW k \in KeyId, otpk'[d][k] = "free"
        PROVE  \E q \in Req : HoldsOtpk(q, d, k)'
    <3>1. PICK q \in Req : HoldsOtpk(q, d, k)
      BY <1>5, <2>1, <2>2, ZenonT(30)
    <3>2. HoldsOtpk(q, d, k)'
      BY <1>5, <2>2, <3>1 DEF OnlyHere, HoldsOtpk
    <3>3. QED
      BY <3>2, Zenon
  <2>3. QED
    BY <1>1, <1>2, <2>2, Zenon DEF Spoken
<1>6. QED
  BY <1>4, <1>5, Zenon

\* A pool that only grows counts no less.
LEMMA GrownPool ==
    ASSUME NEW d, Available(d) \subseteq Available(d)'
    PROVE  PoolSize(d) <= PoolSize(d)'
<1>1. IsFiniteSet(Available(d)')
  BY KdsAssumption, FS_Subset, Zenon DEF Available
<1>2. QED
  BY <1>1, FS_Subset, Zenon DEF PoolSize

\* low_otpk stays due or sent: r takes no key of d and forgets no count of it.
LEMMA LowStays ==
    ASSUME NEW r \in Req, NEW d \in Device, LowIsKnown(d), OnlyHere(r),
           Available(d) \subseteq Available(d)', notified \subseteq notified',
           Told(r, d)' => Told(r, d), ToCount(r, d) => ToCount(r, d)'
    PROVE  LowIsKnown(d)'
<1> SUFFICES ASSUME NEW p \in Req, Told(p, d)', (PoolSize(d) < LOW_OTPK)',
                    ~(d \in notified')
             PROVE  \E q \in Req : ToCount(q, d)'
  BY Zenon DEF LowIsKnown
<1>1. Told(p, d)
  BY Zenon DEF OnlyHere, Told
<1>2. PoolSize(d) < LOW_OTPK
  <2>1. PoolSize(d) \in Nat /\ PoolSize(d)' \in Nat /\ LOW_OTPK \in Nat
    BY KeysCount, KdsAssumption, Zenon DEF PoolSize, Available
  <2>2. QED
    BY <2>1, GrownPool
<1>3. PICK q \in Req : ToCount(q, d)
  BY <1>1, <1>2, Zenon DEF LowIsKnown
<1>4. ToCount(q, d)'
  BY <1>3, Zenon DEF OnlyHere, ToCount
<1>5. QED
  BY <1>4, Zenon

\* A step of r that touches no pool, holds on to its lock or ends, and answers
\* neither with a bundle nor with the warning.
Calm(r) ==
    /\ UNCHANGED <<otpk, taken, mine, key, notified>>
    /\ \A q \in Req \ {r} : pc'[q] = pc[q] /\ dev'[q] = dev[q] /\ resp'[q] = resp[q]
    /\ pc[r] \notin {"fetch_notify", "done"} /\ pc'[r] # "fetch_notify"
    /\ resp'[r] = resp[r] \/ (pc'[r] = "done" /\ resp'[r] \notin {"bundle", "depleted"})
    /\ pc[r] = "idle" \/ dev'[r] = dev[r]
    /\ pc[r] \in Locking => pc'[r] \in Locking \cup {"done"}

LEMMA CalmKeepsPoolInv ==
    ASSUME TypeInv, KeyInv, PoolInv, NEW r \in Req, Calm(r)
    PROVE  PoolInv'
<1>1. resp[r] = "none" /\ OnlyHere(r)
  BY Zenon DEF Calm, PoolInv, AnsweredLast, OnlyHere
<1>2. AnsweredLast'
  BY <1>1, Zenon DEF Calm, PoolInv, AnsweredLast
<1>3. pc[r] = "idle" => \A k \in KeyId : mine[r][k] = 0
  BY Zenon DEF KeyInv, NoneInserted, Inserting, ReplenishTx
<1>4. taken[r] = None
  BY Zenon DEF KeyInv, TakenLate, Calm
<1>5. \A d \in Device : Returned(r, d) => Returned(r, d)'
  BY <1>3, Zenon DEF Calm, Returned
<1>6. \A d \in Device, k \in KeyId : HoldsOtpk(r, d, k) => HoldsOtpk(r, d, k)' \/ Returned(r, d)'
  BY <1>4, NoneFacts, Zenon DEF Calm, HoldsOtpk, Returned, Locking
<1>7. ~Refused(r)'
  BY <1>1, Zenon DEF Calm, Refused
<1>8. RefusedIsSpoken'
  <2>1. \A d \in Device, k \in KeyId : otpk'[d][k] = "free" => otpk[d][k] = "free"
    BY Zenon DEF Calm
  <2>2. RefusedIsSpoken
    BY Zenon DEF PoolInv
  <2>3. QED
    BY <1>1, <1>5, <1>6, <1>7, <2>1, <2>2, SpokenStays, Zenon
<1>9. ASSUME NEW d \in Device PROVE LowIsKnown(d)'
  <2>1. Available(d) \subseteq Available(d)' /\ notified \subseteq notified'
    BY Zenon DEF Calm, Available
  <2>2. ~Told(r, d)'
    BY <1>1, Zenon DEF Calm, Told
  <2>3. ~ToCount(r, d)
    BY Zenon DEF Calm, ToCount
  <2>4. LowIsKnown(d)
    BY Zenon DEF PoolInv
  <2>5. QED
    BY <1>1, <2>1, <2>2, <2>3, <2>4, LowStays, Zenon
<1>10. QED
  BY <1>2, <1>8, <1>9, Zenon DEF PoolInv

LEMMA PoolRegisterRequest ==
    ASSUME TypeInv, KeyInv, PoolInv, NEW r \in Req, NEW u \in User, NEW own \in BOOLEAN,
       NEW ks \in Uploads, NEW i \in Identity, NEW s \in Spk, RegisterRequest(r, u, own, ks, i, s)
    PROVE  PoolInv'
<1>1. /\ pc[r] = "idle"
      /\ \/ pc' = [pc EXCEPT ![r] = "reg_begin"] /\ resp' = resp
         \/ \E a \in Responses \ {"bundle", "depleted"} :
            pc' = [pc EXCEPT ![r] = "done"] /\ resp' = [resp EXCEPT ![r] = a]
      /\ UNCHANGED <<otpk, taken, mine, key, notified, dev>>
  BY Refusals, Names, Zenon DEF RegisterRequest, Goto, Answer, db, locals
<1>2. \A q \in Req \ {r} : pc'[q] = pc[q] /\ dev'[q] = dev[q] /\ resp'[q] = resp[q]
  BY <1>1, PcType, DevType, RespType, Zenon
<1>3. Calm(r)
  BY <1>1, <1>2, PcType, RespType, Zenon DEF Calm, Locking
<1>4. QED
  BY <1>3, CalmKeepsPoolInv, Zenon

LEMMA PoolRegisterBegin ==
    ASSUME TypeInv, KeyInv, PoolInv, NEW r \in Req, RegisterBegin(r)
    PROVE  PoolInv'
<1>1. /\ pc[r] = "reg_begin"
      /\ pc' = [pc EXCEPT ![r] = "reg_user"] /\ resp' = resp
      /\ UNCHANGED <<otpk, taken, mine, key, notified, dev>>
  BY Zenon DEF RegisterBegin, Goto, Answer, db, locals
<1>2. \A q \in Req \ {r} : pc'[q] = pc[q] /\ dev'[q] = dev[q] /\ resp'[q] = resp[q]
  BY <1>1, PcType, DevType, RespType, Zenon
<1>3. Calm(r)
  BY <1>1, <1>2, PcType, RespType, Zenon DEF Calm, Locking
<1>4. QED
  BY <1>3, CalmKeepsPoolInv, Zenon

LEMMA PoolRegisterUpsertUser ==
    ASSUME TypeInv, KeyInv, PoolInv, NEW r \in Req, RegisterUpsertUser(r)
    PROVE  PoolInv'
<1>1. /\ pc[r] = "reg_user"
      /\ pc' = [pc EXCEPT ![r] = "reg_count"] /\ resp' = resp
      /\ UNCHANGED <<otpk, taken, mine, key, notified, dev>>
  BY Zenon DEF RegisterUpsertUser, Goto, Answer, db, locals
<1>2. \A q \in Req \ {r} : pc'[q] = pc[q] /\ dev'[q] = dev[q] /\ resp'[q] = resp[q]
  BY <1>1, PcType, DevType, RespType, Zenon
<1>3. Calm(r)
  BY <1>1, <1>2, PcType, RespType, ZenonT(30) DEF Calm, Locking
<1>4. QED
  BY <1>3, CalmKeepsPoolInv

LEMMA PoolRegisterCount ==
    ASSUME TypeInv, KeyInv, PoolInv, NEW r \in Req, RegisterCount(r)
    PROVE  PoolInv'
<1>1. /\ pc[r] = "reg_count"
      /\ \/ pc' = [pc EXCEPT ![r] = "reg_insert"] /\ resp' = resp
         \/ \E a \in Responses \ {"bundle", "depleted"} :
            pc' = [pc EXCEPT ![r] = "done"] /\ resp' = [resp EXCEPT ![r] = a]
      /\ UNCHANGED <<otpk, taken, mine, key, notified, dev>>
  BY Names, Zenon DEF RegisterCount, Goto, Answer, db, locals
<1>2. \A q \in Req \ {r} : pc'[q] = pc[q] /\ dev'[q] = dev[q] /\ resp'[q] = resp[q]
  BY <1>1, PcType, DevType, RespType, Zenon
<1>3. Calm(r)
  BY <1>1, <1>2, PcType, RespType, Zenon DEF Calm, Locking
<1>4. QED
  BY <1>3, CalmKeepsPoolInv, ZenonT(30)

LEMMA PoolFetchSelectDevice ==
    ASSUME TypeInv, KeyInv, PoolInv, NEW r \in Req, NEW u \in User, FetchSelectDevice(r, u)
    PROVE  PoolInv'
<1>1. /\ pc[r] = "idle"
      /\ \/ pc' = [pc EXCEPT ![r] = "fetch_otpk"] /\ resp' = resp
         \/ \E a \in Responses \ {"bundle", "depleted"} :
            pc' = [pc EXCEPT ![r] = "done"] /\ resp' = [resp EXCEPT ![r] = a]
      /\ dev' = dev \/ \E e \in Device : dev' = [dev EXCEPT ![r] = e]
      /\ UNCHANGED <<otpk, taken, mine, key, notified>>
  BY Names, Zenon DEF FetchSelectDevice, Goto, Answer, db, locals, Oldest, DevicesOf
<1>2. \A q \in Req \ {r} : pc'[q] = pc[q] /\ dev'[q] = dev[q] /\ resp'[q] = resp[q]
  BY <1>1, PcType, DevType, RespType, Zenon
<1>3. Calm(r)
  BY <1>1, <1>2, PcType, RespType, ZenonT(30) DEF Calm, Locking
<1>4. QED
  BY <1>3, CalmKeepsPoolInv, Zenon

LEMMA PoolFetchMark ==
    ASSUME TypeInv, KeyInv, PoolInv, NEW r \in Req, FetchMark(r)
    PROVE  PoolInv'
<1>1. /\ pc[r] = "fetch_mark"
      /\ pc' = [pc EXCEPT ![r] = "fetch_commit"] /\ resp' = resp
      /\ UNCHANGED <<otpk, taken, mine, key, notified, dev>>
  BY Zenon DEF FetchMark, Goto, Answer, db, locals
<1>2. \A q \in Req \ {r} : pc'[q] = pc[q] /\ dev'[q] = dev[q] /\ resp'[q] = resp[q]
  BY <1>1, PcType, DevType, RespType, Zenon
<1>3. Calm(r)
  BY <1>1, <1>2, PcType, RespType, Zenon DEF Calm, Locking
<1>4. QED
  BY <1>3, CalmKeepsPoolInv, ZenonT(30)

LEMMA PoolReplenishRequest ==
    ASSUME TypeInv, KeyInv, PoolInv, NEW r \in Req, NEW d \in Device, NEW own \in BOOLEAN,
       NEW ks \in Uploads, ReplenishRequest(r, d, own, ks)
    PROVE  PoolInv'
<1>1. /\ pc[r] = "idle"
      /\ \/ pc' = [pc EXCEPT ![r] = "repl_insert"] /\ resp' = resp
         \/ \E a \in Responses \ {"bundle", "depleted"} :
            pc' = [pc EXCEPT ![r] = "done"] /\ resp' = [resp EXCEPT ![r] = a]
      /\ dev' = dev \/ \E e \in Device : dev' = [dev EXCEPT ![r] = e]
      /\ UNCHANGED <<otpk, taken, mine, key, notified>>
  BY Refusals, Names, Zenon DEF ReplenishRequest, Goto, Answer, db, locals
<1>2. \A q \in Req \ {r} : pc'[q] = pc[q] /\ dev'[q] = dev[q] /\ resp'[q] = resp[q]
  BY <1>1, PcType, DevType, RespType, Zenon
<1>3. Calm(r)
  BY <1>1, <1>2, PcType, RespType, ZenonT(30) DEF Calm, Locking
<1>4. QED
  BY <1>3, CalmKeepsPoolInv, Zenon

LEMMA PoolReplenishCount ==
    ASSUME TypeInv, KeyInv, PoolInv, NEW r \in Req, ReplenishCount(r)
    PROVE  PoolInv'
<1>1. /\ pc[r] = "repl_insert"
      /\ pc' = [pc EXCEPT ![r] = "repl_sync"] /\ resp' = resp
      /\ UNCHANGED <<otpk, taken, mine, key, notified, dev>>
  BY Zenon DEF ReplenishCount, Goto, Answer, db, locals
<1>2. \A q \in Req \ {r} : pc'[q] = pc[q] /\ dev'[q] = dev[q] /\ resp'[q] = resp[q]
  BY <1>1, PcType, DevType, RespType, Zenon
<1>3. Calm(r)
  BY <1>1, <1>2, PcType, RespType, Zenon DEF Calm, Locking
<1>4. QED
  BY <1>3, CalmKeepsPoolInv, ZenonT(30)

LEMMA PoolReplenishSync ==
    ASSUME TypeInv, KeyInv, PoolInv, NEW r \in Req, ReplenishSync(r)
    PROVE  PoolInv'
<1>1. /\ pc[r] = "repl_sync"
      /\ pc' = [pc EXCEPT ![r] = "repl_commit"] /\ resp' = resp
      /\ UNCHANGED <<otpk, taken, mine, key, notified, dev>>
  BY Zenon DEF ReplenishSync, Goto, Answer, db, locals
<1>2. \A q \in Req \ {r} : pc'[q] = pc[q] /\ dev'[q] = dev[q] /\ resp'[q] = resp[q]
  BY <1>1, PcType, DevType, RespType, Zenon
<1>3. Calm(r)
  BY <1>1, <1>2, PcType, RespType, ZenonT(30) DEF Calm, Locking
<1>4. QED
  BY <1>3, CalmKeepsPoolInv, ZenonT(30)

LEMMA PoolRotateRequest ==
    ASSUME TypeInv, KeyInv, PoolInv, NEW r \in Req, NEW d \in Device, NEW own \in BOOLEAN,
       NEW s \in Spk, RotateRequest(r, d, own, s)
    PROVE  PoolInv'
<1>1. /\ pc[r] = "idle"
      /\ \/ pc' = [pc EXCEPT ![r] = "rot_write"] /\ resp' = resp
         \/ \E a \in Responses \ {"bundle", "depleted"} :
            pc' = [pc EXCEPT ![r] = "done"] /\ resp' = [resp EXCEPT ![r] = a]
      /\ dev' = dev \/ \E e \in Device : dev' = [dev EXCEPT ![r] = e]
      /\ UNCHANGED <<otpk, taken, mine, key, notified>>
  BY Refusals, Names, Zenon DEF RotateRequest, Goto, Answer, db, locals
<1>2. \A q \in Req \ {r} : pc'[q] = pc[q] /\ dev'[q] = dev[q] /\ resp'[q] = resp[q]
  BY <1>1, PcType, DevType, RespType, Zenon
<1>3. Calm(r)
  BY <1>1, <1>2, PcType, RespType, ZenonT(30) DEF Calm, Locking
<1>4. QED
  BY <1>3, CalmKeepsPoolInv

LEMMA PoolRotateWrite ==
    ASSUME TypeInv, KeyInv, PoolInv, NEW r \in Req, RotateWrite(r)
    PROVE  PoolInv'
<1>1. /\ pc[r] = "rot_write"
      /\ \E a \in Responses \ {"bundle", "depleted"} :
            pc' = [pc EXCEPT ![r] = "done"] /\ resp' = [resp EXCEPT ![r] = a]
      /\ UNCHANGED <<otpk, taken, mine, key, notified, dev>>
  BY Names, Zenon DEF RotateWrite, Goto, Answer, db, locals
<1>2. \A q \in Req \ {r} : pc'[q] = pc[q] /\ dev'[q] = dev[q] /\ resp'[q] = resp[q]
  BY <1>1, PcType, DevType, RespType, Zenon
<1>3. Calm(r)
  BY <1>1, <1>2, PcType, RespType, ZenonT(30) DEF Calm, Locking
<1>4. QED
  BY <1>3, CalmKeepsPoolInv, ZenonT(30)

LEMMA PoolAbort ==
    ASSUME TypeInv, KeyInv, PoolInv, NEW r \in Req, Abort(r)
    PROVE  PoolInv'
<1>1. /\ pc[r] \notin {"idle", "fetch_notify", "done"}
      /\ \E a \in Responses \ {"bundle", "depleted"} :
            pc' = [pc EXCEPT ![r] = "done"] /\ resp' = [resp EXCEPT ![r] = a]
      /\ UNCHANGED <<otpk, taken, mine, key, notified, dev>>
  BY Names, Zenon DEF Abort, Goto, Answer, db, locals
<1>2. \A q \in Req \ {r} : pc'[q] = pc[q] /\ dev'[q] = dev[q] /\ resp'[q] = resp[q]
  BY <1>1, PcType, DevType, RespType, Zenon
<1>3. Calm(r)
  BY <1>1, <1>2, PcType, RespType, Zenon DEF Calm, Locking
<1>4. QED
  BY <1>3, CalmKeepsPoolInv, ZenonT(30)

LEMMA PoolRegisterInsert ==
    ASSUME TypeInv, KeyInv, PoolInv, NEW r \in Req, NEW e \in Device, RegisterInsert(r, e)
    PROVE  PoolInv'
<1>1. /\ pc[r] = "reg_insert" /\ dev' = [dev EXCEPT ![r] = e]
      /\ \/ pc' = [pc EXCEPT ![r] = "reg_commit"] /\ resp' = resp
         \/ pc' = [pc EXCEPT ![r] = "done"] /\ resp' = [resp EXCEPT ![r] = "storage"]
      /\ \A q \in Req \ {r} : mine'[q] = mine[q]
      /\ UNCHANGED <<otpk, taken, key, notified>>
  BY MineType, Zenon DEF RegisterInsert, Goto, Answer
<1>2. /\ pc'[r] \in {"reg_commit", "done"}
      /\ resp'[r] = resp[r] \/ (pc'[r] = "done" /\ resp'[r] = "storage")
      /\ OnlyHere(r)
  BY <1>1, PcType, DevType, RespType, Zenon DEF OnlyHere
<1>3. resp[r] = "none" /\ \A k \in KeyId : mine[r][k] = 0
  BY <1>1, Zenon DEF PoolInv, AnsweredLast, KeyInv, NoneInserted, Inserting, ReplenishTx
<1>4. AnsweredLast'
  BY <1>2, <1>3, Zenon DEF OnlyHere, PoolInv, AnsweredLast
<1>5. \A d \in Device : ~Returned(r, d)
  BY <1>1, <1>3, Zenon DEF Returned
<1>6. \A d \in Device, k \in KeyId : ~HoldsOtpk(r, d, k)
  BY <1>1, Zenon DEF HoldsOtpk
<1>7. ~Refused(r)'
  BY <1>2, <1>3, Zenon DEF Refused
<1>8. RefusedIsSpoken'
  BY <1>1, <1>2, <1>5, <1>6, <1>7, SpokenStays, Zenon DEF PoolInv
<1>9. ASSUME NEW d \in Device PROVE LowIsKnown(d)'
  <2>1. Available(d) \subseteq Available(d)' /\ notified \subseteq notified'
    BY <1>1, Zenon DEF Available
  <2>2. ~Told(r, d)' /\ ~ToCount(r, d)
    BY <1>1, <1>2, <1>3, Zenon DEF Told, ToCount
  <2>3. QED
    BY <1>2, <2>1, <2>2, LowStays, Zenon DEF PoolInv
<1>10. QED
  BY <1>4, <1>8, <1>9, Zenon DEF PoolInv

\* COMMIT of a transaction that inserted keys: the pool grows, and the request
\* that made it grow has rows of its own.
LEMMA PublishKeepsPoolInv ==
    ASSUME TypeInv, KeyInv, PoolInv, NEW r \in Req, PublishKeys(r),
           pc[r] \in {"reg_commit", "repl_commit"}, pc' = [pc EXCEPT ![r] = "done"],
           NEW a \in {"created", "replenished", "storage"}, resp' = [resp EXCEPT ![r] = a],
           UNCHANGED <<taken, key, mine, dev, notified>>
    PROVE  PoolInv'
<1>1. /\ pc'[r] = "done" /\ resp'[r] = a
      /\ OnlyHere(r)
  BY PcType, RespType, Zenon DEF OnlyHere
<1>2. dev[r] \in Device
  BY ShapeHolds, Zenon DEF Shape, ShapeAt, OnDevice, ReplenishTx
<1>3. \A d \in Device, k \in KeyId :
         otpk'[d][k] = IF d = dev[r] /\ mine[r][k] # 0 THEN "free" ELSE otpk[d][k]
  BY <1>2, OtpkType, Zenon DEF PublishKeys
<1>4. AnsweredLast'
  BY <1>1, Zenon DEF OnlyHere, PoolInv, AnsweredLast
<1>5. \A d \in Device : Returned(r, d) => Returned(r, d)'
  BY Zenon DEF Returned
<1>6. \A d \in Device, k \in KeyId : ~HoldsOtpk(r, d, k)
  BY Zenon DEF HoldsOtpk
<1>7. \A d \in Device, k \in KeyId :
         otpk'[d][k] = "free" => otpk[d][k] = "free" \/ Returned(r, d)'
  BY <1>3, Zenon DEF Returned
<1>8. ~Refused(r)'
  BY <1>1, Zenon DEF Refused
<1>9. RefusedIsSpoken'
  BY <1>1, <1>5, <1>6, <1>7, <1>8, SpokenStays, Zenon DEF PoolInv
<1>10. ASSUME NEW d \in Device PROVE LowIsKnown(d)'
  <2>1. Available(d) \subseteq Available(d)' /\ notified \subseteq notified'
    BY <1>3, Zenon DEF Available
  <2>2. ~Told(r, d)' /\ ~ToCount(r, d)
    BY <1>1, Zenon DEF Told, ToCount
  <2>3. QED
    BY <1>1, <2>1, <2>2, LowStays, Zenon DEF PoolInv
<1>11. QED
  BY <1>4, <1>9, <1>10, Zenon DEF PoolInv

LEMMA PoolRegisterCommit ==
    ASSUME TypeInv, KeyInv, PoolInv, NEW r \in Req, RegisterCommit(r)
    PROVE  PoolInv'
  BY PublishKeepsPoolInv, Zenon DEF RegisterCommit, Answer, locals

LEMMA PoolReplenishCommit ==
    ASSUME TypeInv, KeyInv, PoolInv, NEW r \in Req, ReplenishCommit(r)
    PROVE  PoolInv'
  BY PublishKeepsPoolInv, Zenon DEF ReplenishCommit, Answer, locals

LEMMA PoolReplenishInsert ==
    ASSUME TypeInv, KeyInv, PoolInv, NEW r \in Req, ReplenishInsert(r)
    PROVE  PoolInv'
<1> DEFINE k == Head(todo[r])
<1>1. /\ pc[r] = "repl_insert"
      /\ UNCHANGED <<pc, resp, otpk, dev, key, taken, notified>>
      /\ mine' = mine \/ (mine[r][k] = 0 /\ mine' = [mine EXCEPT ![r][k] = nextId])
  BY Zenon DEF ReplenishInsert, Conflicts
<1> HIDE DEF k
<1>2. /\ \A q \in Req \ {r} : mine'[q] = mine[q]
      /\ \A j \in KeyId : mine[r][j] # 0 => mine'[r][j] # 0
  BY <1>1, MineType, Zenon
<1>3. OnlyHere(r) /\ AnsweredLast'
  BY <1>1, <1>2, Zenon DEF OnlyHere, PoolInv, AnsweredLast
<1>4. \A d \in Device : Returned(r, d) => Returned(r, d)'
  BY <1>1, <1>2, Zenon DEF Returned
<1>5. \A d \in Device, j \in KeyId : ~HoldsOtpk(r, d, j)
  BY <1>1, Zenon DEF HoldsOtpk
<1>6. Refused(r)' => Refused(r)
  BY <1>1, Zenon DEF Refused
<1>7. RefusedIsSpoken'
  BY <1>1, <1>3, <1>4, <1>5, <1>6, SpokenStays, Zenon DEF PoolInv
<1>8. ASSUME NEW d \in Device PROVE LowIsKnown(d)'
  <2>1. Available(d) \subseteq Available(d)' /\ notified \subseteq notified'
    BY <1>1, Zenon DEF Available
  <2>2. (Told(r, d)' => Told(r, d)) /\ (ToCount(r, d) => ToCount(r, d)')
    BY <1>1, Zenon DEF Told, ToCount
  <2>3. QED
    BY <1>3, <2>1, <2>2, LowStays, Zenon DEF PoolInv
<1>9. QED
  BY <1>3, <1>7, <1>8, Zenon DEF PoolInv

LEMMA PoolFetchLockOtpk ==
    ASSUME TypeInv, KeyInv, PoolInv, NEW r \in Req, FetchLockOtpk(r)
    PROVE  PoolInv'
<1>1. /\ pc[r] = "fetch_otpk" /\ dev[r] \in Device
      /\ UNCHANGED <<resp, otpk, dev, mine, taken, notified>>
      /\ \/ /\ pc' = [pc EXCEPT ![r] = "fetch_notify"] /\ key' = key
            /\ Lockable(dev[r]) = {}
         \/ /\ pc' = [pc EXCEPT ![r] = "fetch_mark"]
            /\ \E k \in KeyId : key' = [key EXCEPT ![r] = k]
  BY ShapeHolds, Zenon DEF FetchLockOtpk, Goto, db, First, Lockable, Available, Shape, ShapeAt,
     OnDevice, FetchTx
<1>2. /\ OnlyHere(r)
      /\ pc'[r] = "fetch_mark" \/ (pc'[r] = "fetch_notify" /\ Lockable(dev[r]) = {})
  BY <1>1, PcType, KeyType, Zenon DEF OnlyHere
<1>3. resp[r] = "none" /\ \A k \in KeyId : mine[r][k] = 0
  BY <1>1, Zenon DEF PoolInv, AnsweredLast, KeyInv, NoneInserted, Inserting, ReplenishTx
<1>4. AnsweredLast'
  BY <1>1, <1>2, <1>3, Zenon DEF OnlyHere, PoolInv, AnsweredLast
<1>5. \A d \in Device : ~Returned(r, d)
  BY <1>1, <1>3, Zenon DEF Returned
<1>6. \A d \in Device, k \in KeyId : ~HoldsOtpk(r, d, k)
  BY <1>1, Zenon DEF HoldsOtpk
<1>7. RefusedIsSpoken'
  <2>1. CASE pc'[r] = "fetch_mark"
    <3>1. ~Refused(r)'
      BY <1>1, <1>3, <2>1, Zenon DEF Refused
    <3>2. QED
      BY <1>1, <1>2, <1>5, <1>6, <3>1, SpokenStays, ZenonT(30) DEF PoolInv
  <2>2. CASE pc'[r] = "fetch_notify" /\ Lockable(dev[r]) = {}
    <3>1. \A d \in Device, k \in KeyId, q \in Req : HoldsOtpk(q, d, k) => HoldsOtpk(q, d, k)'
      BY <1>2, <1>6, Zenon DEF OnlyHere, HoldsOtpk
    <3>2. \A d \in Device, q \in Req : Returned(q, d) => Returned(q, d)'
      BY <1>2, <1>5, Zenon DEF OnlyHere, Returned
    <3>3. \A d \in Device : Spoken(d) => Spoken(d)'
      BY <1>1, <3>1, <3>2, Zenon DEF Spoken
    <3>4. Spoken(dev[r])
      BY <1>1, <2>2, Zenon DEF Spoken, Lockable, Available
    <3>5. \A q \in Req \ {r} : Refused(q)' => Refused(q)
      BY <1>2, Zenon DEF OnlyHere, Refused
    <3>6. QED
      BY <1>1, <3>3, <3>4, <3>5, Zenon DEF PoolInv, RefusedIsSpoken
  <2>3. QED
    BY <1>2, <2>1, <2>2, Zenon
<1>8. ASSUME NEW d \in Device PROVE LowIsKnown(d)'
  <2>1. Available(d) \subseteq Available(d)' /\ notified \subseteq notified'
    BY <1>1, Zenon DEF Available
  <2>2. ~Told(r, d)' /\ ~ToCount(r, d)
    BY <1>1, <1>3 DEF Told, ToCount
  <2>3. QED
    BY <1>2, <2>1, <2>2, LowStays, Zenon DEF PoolInv
<1>9. QED
  BY <1>4, <1>7, <1>8, Zenon DEF PoolInv

LEMMA PoolFetchCommit ==
    ASSUME TypeInv, KeyInv, PoolInv, NEW r \in Req, FetchCommit(r)
    PROVE  PoolInv'
<1>1. /\ pc[r] = "fetch_commit" /\ dev[r] \in Device /\ key[r] \in KeyId
      /\ otpk' = [otpk EXCEPT ![dev[r]][key[r]] = "consumed"]
      /\ taken' = [taken EXCEPT ![r] = <<dev[r], key[r]>>]
      /\ UNCHANGED <<dev, mine, key, notified>>
      /\ \/ pc' = [pc EXCEPT ![r] = "fetch_notify"] /\ resp' = resp
         \/ pc' = [pc EXCEPT ![r] = "done"] /\ resp' = [resp EXCEPT ![r] = "storage"]
  BY ShapeHolds, Zenon DEF FetchCommit, Goto, Answer, locals, Shape, ShapeAt, OnDevice, FetchTx
<1>2. /\ OnlyHere(r)
      /\ taken'[r] = <<dev[r], key[r]>>
      /\ \/ pc'[r] = "fetch_notify" /\ resp'[r] = resp[r]
         \/ pc'[r] = "done" /\ resp'[r] = "storage"
  BY <1>1, PcType, RespType, TakenType, Zenon DEF OnlyHere
<1>3. /\ \A d \in Device, k \in KeyId :
            otpk'[d][k] = IF d = dev[r] /\ k = key[r] THEN "consumed" ELSE otpk[d][k]
      /\ taken'[r] # None
  BY <1>1, <1>2, OtpkType, NoneFacts
<1>4. resp[r] = "none" /\ \A k \in KeyId : mine[r][k] = 0
  BY <1>1, Zenon DEF PoolInv, AnsweredLast, KeyInv, NoneInserted, Inserting, ReplenishTx
<1>5. AnsweredLast'
  BY <1>1, <1>2, <1>4, Zenon DEF OnlyHere, PoolInv, AnsweredLast
<1>6. \A d \in Device : ~Returned(r, d)
  BY <1>1, <1>4, Zenon DEF Returned
<1>7. \A d \in Device, k \in KeyId : HoldsOtpk(r, d, k) => otpk'[d][k] # "free"
  BY <1>3, Zenon DEF HoldsOtpk
<1>8. ~Refused(r)'
  BY <1>2, <1>3, <1>4, Zenon DEF Refused
<1>9. RefusedIsSpoken'
  <2>1. \A d \in Device, k \in KeyId : otpk'[d][k] = "free" => otpk[d][k] = "free"
    BY <1>3, Zenon
  <2>2. QED
    BY <1>2, <1>6, <1>7, <1>8, <2>1, SpokenStays, Zenon DEF PoolInv
<1>10. ASSUME NEW d \in Device PROVE LowIsKnown(d)'
  <2>1. CASE d = dev[r] \/ pc'[r] = "done"
    <3>1. ToCount(r, d)'
      BY <1>1, <1>2, <1>3, <2>1, Zenon DEF ToCount
    <3>2. QED
      BY <3>1, Zenon DEF LowIsKnown
  <2>2. CASE d # dev[r]
    <3>1. Available(d) \subseteq Available(d)' /\ notified \subseteq notified'
      BY <1>1, <1>3, <2>2, ZenonT(30) DEF Available
    <3>2. ~Told(r, d)' /\ ~ToCount(r, d)
      BY <1>1, <1>2, <1>4, Zenon DEF Told, ToCount
    <3>3. QED
      BY <1>2, <3>1, <3>2, LowStays, Zenon DEF PoolInv
  <2>3. QED
    BY <2>1, <2>2, Zenon
<1>11. QED
  BY <1>5, <1>9, <1>10, ZenonT(30) DEF PoolInv

LEMMA PoolFetchNotify ==
    ASSUME TypeInv, KeyInv, PoolInv, NEW r \in Req, FetchNotify(r)
    PROVE  PoolInv'
<1>1. /\ pc[r] = "fetch_notify" /\ dev[r] \in Device
      /\ UNCHANGED <<otpk, dev, mine, key, taken>>
      /\ pc' = [pc EXCEPT ![r] = "done"]
      /\ resp' = [resp EXCEPT ![r] = IF taken[r] = None THEN "depleted" ELSE "bundle"]
  BY ShapeHolds, Zenon DEF FetchNotify, Answer, db, locals, Shape, ShapeAt, OnDevice
<1>2. /\ OnlyHere(r) /\ pc'[r] = "done"
      /\ resp'[r] = IF taken[r] = None THEN "depleted" ELSE "bundle"
  BY <1>1, PcType, RespType, Zenon DEF OnlyHere
<1>3. /\ notified \subseteq notified'
      /\ PoolSize(dev[r]) < LOW_OTPK => dev[r] \in notified'
  <2>1. PoolSize(dev[r]) \in Nat /\ LOW_OTPK \in Nat
    BY KeysCount, KdsAssumption, Zenon DEF PoolSize, Available
  <2>2. QED
    BY <2>1 DEF FetchNotify
<1>4. AnsweredLast'
  BY <1>2, Zenon DEF OnlyHere, PoolInv, AnsweredLast
<1>5. RefusedIsSpoken'
  <2>1. \A d \in Device : Returned(r, d) => Returned(r, d)'
    BY <1>1, <1>2, Zenon DEF Returned
  <2>2. \A d \in Device, k \in KeyId : ~HoldsOtpk(r, d, k)
    BY <1>1, Zenon DEF HoldsOtpk
  <2>3. Refused(r)' => Refused(r) /\ dev'[r] = dev[r]
    BY <1>1, <1>2 DEF Refused
  <2>4. QED
    BY <1>1, <1>2, <2>1, <2>2, <2>3, SpokenStays, Zenon DEF PoolInv
<1>6. ASSUME NEW d \in Device PROVE LowIsKnown(d)'
  <2>1. Available(d)' = Available(d) /\ PoolSize(d)' = PoolSize(d)
    BY <1>1, Zenon DEF Available, PoolSize
  <2>2. CASE d = dev[r]
    BY <1>3, <2>1, <2>2, Zenon DEF LowIsKnown
  <2>3. CASE d # dev[r]
    <3>1. ~Told(r, d)'
      BY <1>1, <2>3, Zenon DEF Told
    <3>2. ~ToCount(r, d)
      BY <1>1, <2>3, Zenon DEF ToCount
    <3>3. QED
      BY <1>2, <1>3, <2>1, <3>1, <3>2, LowStays, Zenon DEF PoolInv
  <2>4. QED
    BY <2>2, <2>3, Zenon
<1>7. QED
  BY <1>4, <1>5, <1>6, ZenonT(30) DEF PoolInv

LEMMA PoolNext == TypeInv /\ KeyInv /\ PoolInv /\ [Next]_vars => PoolInv'
<1> SUFFICES ASSUME TypeInv, KeyInv, PoolInv, [Next]_vars PROVE PoolInv'
  BY Zenon
<1>1. CASE UNCHANGED vars
  <2>1. UNCHANGED <<otpk, taken, mine, key, dev, pc, resp, notified>>
    BY <1>1, Zenon DEF vars, db, locals
  <2>2. AnsweredLast'
    BY <2>1, Zenon DEF PoolInv, AnsweredLast
  <2>3. RefusedIsSpoken'
    <3>1. \A q \in Req : Refused(q)' <=> Refused(q)
      BY <2>1, Zenon DEF Refused
    <3>2. \A q \in Req, d \in Device : Returned(q, d)' <=> Returned(q, d)
      BY <2>1, Zenon DEF Returned
    <3>3. \A q \in Req, d \in Device, k \in KeyId :
             HoldsOtpk(q, d, k)' <=> HoldsOtpk(q, d, k)
      BY <2>1, Zenon DEF HoldsOtpk
    <3>4. \A d \in Device : Spoken(d) => Spoken(d)'
      BY <2>1, <3>2, <3>3, Zenon DEF Spoken
    <3>5. QED
      BY <2>1, <3>1, <3>4, Zenon DEF PoolInv, RefusedIsSpoken
  <2>4. \A d \in Device : LowIsKnown(d)'
    BY <2>1, Zenon DEF PoolInv, LowIsKnown, Told, ToCount, PoolSize, Available
  <2>5. QED
    BY <2>2, <2>3, <2>4, Zenon DEF PoolInv
<1>2. QED
  BY <1>1, PoolRegisterRequest, PoolRegisterBegin, PoolRegisterUpsertUser,
     PoolRegisterCount, PoolRegisterInsert, PoolRegisterCommit, PoolFetchSelectDevice,
     PoolFetchLockOtpk, PoolFetchMark, PoolFetchCommit, PoolFetchNotify,
     PoolReplenishRequest, PoolReplenishInsert, PoolReplenishCount, PoolReplenishSync,
     PoolReplenishCommit, PoolRotateRequest, PoolRotateWrite, PoolAbort, Zenon DEF Next, Arrive,
     Step

(***************************************************************************)
(* The theorems.                                                           *)
(***************************************************************************)

LEMMA PoolInvariant == Spec => [](TypeInv /\ KeyInv /\ PoolInv)
  BY TypeInit, TypeNext, KeyInit, KeyNext, PoolInit, PoolNext, PTL DEF Spec

LEMMA PoolInvIsHonest == PoolInv => DepletedIsHonest
<1> SUFFICES ASSUME PoolInv, NEW r \in Req, resp[r] = "depleted",
                    \A q \in Req : dev[q] = dev[r] =>
                       /\ mine[q] = NoKeys
                       /\ pc[q] = "done" /\ key[q] # None => taken[q] # None,
                    NEW k \in Available(dev[r])
             PROVE  \E q \in Req : HoldsOtpk(q, dev[r], k)
  BY Zenon DEF DepletedIsHonest
<1>1. Spoken(dev[r])
  BY Zenon DEF PoolInv, RefusedIsSpoken, Refused
<1>2. \A q \in Req : ~Returned(q, dev[r])
  BY Zenon DEF Returned, NoKeys
<1>3. QED
  BY <1>1, <1>2, Zenon DEF Spoken, Available

LEMMA PoolInvNotifies == PoolInv => LowPoolNotified
<1> SUFFICES ASSUME PoolInv, Quiescent, NEW d \in Device, NEW r \in Req, Told(r, d),
                    \A q \in Req : taken[q] # None => resp[q] = "bundle",
                    PoolSize(d) < LOW_OTPK
             PROVE  d \in notified
  BY Zenon DEF LowPoolNotified, Told
<1>1. \A q \in Req : ~ToCount(q, d)
  BY Zenon DEF ToCount, Quiescent
<1>2. QED
  BY <1>1, Zenon DEF PoolInv, LowIsKnown

\* The warning of fetch_key_bundle, for any number of fetches, uploads and failures:
\* who is told that a device has no key left could not have had one.
THEOREM DepletionIsHonest == Spec => []DepletedIsHonest
  BY PoolInvariant, PoolInvIsHonest, PTL

\* The count of get_key_bundle, taken outside the transaction of the fetch: however
\* fetches and uploads overlap, the last fetch of a low pool sends low_otpk.
THEOREM LowPoolsAreNotified == Spec => []LowPoolNotified
  BY PoolInvariant, PoolInvNotifies, PTL
=============================================================================

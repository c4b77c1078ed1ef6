--------------------------- MODULE HttpAuthProofs ---------------------------
(***************************************************************************)
(* Theorems about HttpAuth, for any number of names, tokens and requests.  *)
(* The invariant joins the properties: a token belongs to the user it was  *)
(* minted for, so that a lookup by name finds whom the secret stands for;  *)
(* what runs was admitted, so that what changes the store was an admin's;  *)
(* and an admin remains, so that root keeps giving way.                    *)
(***************************************************************************)
EXTENDS HttpAuth, TLAPS

\* A handler runs only for a caller its extractor lets pass.
RunsAdmitted ==
    \A s \in Slots : req[s].stage \in {"run", "orphan"} => Admitted(req[s].principal, req[s].op)

AuthInv == TypeOK /\ TokensHaveOwners /\ RunsAsItsSecret /\ RootGivesWay /\ RunsAdmitted

-----------------------------------------------------------------------------
(* Operations and principals.                                               *)

\* The fields of an operation have their types.
LEMMA OpFields ==
    ASSUME NEW op \in Ops
    PROVE  /\ op.kind = "create" => op.name \in Names /\ op.role \in Roles
           /\ op.kind = "delete" => op.name \in Names
           /\ op.kind = "mint" => op.name \in Names /\ op.expires \in 0..Never
           /\ op.kind = "revoke" => op.token \in Tokens
           /\ op \in AdminOps <=> op.kind \in {"create", "delete", "mint", "revoke", "list"}
  BY DEF Ops, AdminOps, MemoryOp

\* Users are principals, and so is root.
LEMMA PrincipalsTyped ==
    ASSUME TypeOK
    PROVE  /\ \A n \in Names : User(n) \in Principals
           /\ Root \in Principals /\ Nobody \in Principals
  <1>1. ASSUME NEW n \in Names PROVE User(n) \in Principals
    <2>1. role[n] \in Roles \cup {"none"} /\ born[n] \in 0..births /\ births \in 0..MaxBirths
      BY DEF TypeOK
    <2> QED BY <2>1, BoundsAssumption DEF User, Principals
  <1> QED BY <1>1, BoundsAssumption DEF Root, Nobody, Principals

\* What a secret stands for is a principal.
LEMMA StandsTyped ==
    ASSUME TypeOK, NEW secret
    PROVE  StandsFor(secret) \subseteq Principals
  BY PrincipalsTyped DEF StandsFor, Users

\* The middleware finds no one but those its secret stands for.
LEMMA ResolvedStands ==
    ASSUME TypeOK, TokensHaveOwners, NEW secret, NEW p \in Resolved(secret)
    PROVE  p \in StandsFor(secret) /\ p \in Principals
  <1>1. PICK n \in Users : /\ p = User(n) /\ secret \in Tokens
                           /\ tokens[secret].owner = n /\ ~(tokens[secret].expires < now)
    BY DEF Resolved
  <1>2. n \in Names
    BY DEF Users
  <1>3. tokens[secret] # NoRow
    BY <1>1, <1>2, NoneAssumption DEF NoRow
  <1>4. tokens[secret].born = born[n]
    BY <1>1, <1>3 DEF TokensHaveOwners
  <1>5. tokens[secret].expires \in 0..Never /\ now \in 0..MaxNow
    BY <1>1 DEF TypeOK, Rows
  <1>6. now <= tokens[secret].expires
    BY <1>1, <1>5, BoundsAssumption DEF Never
  <1>7. p \in StandsFor(secret)
    BY <1>1, <1>4, <1>6 DEF StandsFor
  <1> QED BY <1>1, <1>2, <1>7, PrincipalsTyped

-----------------------------------------------------------------------------
(* What a step does to the requests.                                        *)

\* The witness: what a request had collected is kept until it leaves.
LEMMA WitnessKeeps ==
    ASSUME TypeOK, Witness, req' \in [Slots -> Requests]
    PROVE  /\ stoodFor' \in [Slots -> SUBSET Principals]
           /\ \A s \in Slots :
                 req[s].stage \in {"run", "orphan"} /\ req'[s].stage # "free"
                     => stoodFor'[s] = stoodFor[s]
           /\ \A s \in Slots :
                 req[s].stage \in {"arrived", "resolve"} /\ req'[s].stage # "free"
                     => StandsFor(req[s].secret) \subseteq stoodFor'[s]
  <1>1. ASSUME NEW s \in Slots
        PROVE  (IF req'[s].stage = "free" THEN {}
                ELSE IF req[s].stage \in {"arrived", "resolve"}
                     THEN stoodFor[s] \cup StandsFor(req[s].secret)
                     ELSE stoodFor[s]) \in SUBSET Principals
    BY StandsTyped DEF TypeOK
  <1> QED BY <1>1 DEF Witness

\* The part of the invariant that is about the requests.
RequestsInv == RunsAsItsSecret /\ RunsAdmitted

\* A request that leaves disturbs no other.
LEMMA AnswerKeeps ==
    ASSUME AuthInv, NEW s \in Slots, Answer(s)
    PROVE  /\ req' \in [Slots -> Requests] /\ stoodFor' \in [Slots -> SUBSET Principals]
           /\ RequestsInv'
           /\ \A r \in Slots : req'[r].stage = "resolve" => req[r].stage = "resolve"
           /\ req'[s].stage = "free"
  <1> USE DEF AuthInv
  <1>1. Free \in Requests
    BY PrincipalsTyped DEF Free, Requests, Stages, Ops
  <1>2. req' \in [Slots -> Requests]
    BY <1>1 DEF Answer, TypeOK
  <1>3. \A r \in Slots : req'[r] = IF r = s THEN Free ELSE req[r]
    BY DEF Answer, TypeOK
  <1>4. stoodFor' \in [Slots -> SUBSET Principals]
    BY <1>2, WitnessKeeps DEF Answer
  <1>5. \A r \in Slots : req'[r].stage # "free" => r # s /\ req'[r] = req[r]
    BY <1>3 DEF Free
  <1>6. RunsAsItsSecret'
    BY <1>2, <1>5, WitnessKeeps DEF Answer, RunsAsItsSecret
  <1>7. RunsAdmitted'
    BY <1>5 DEF RunsAdmitted, Admitted
  <1> QED BY <1>2, <1>3, <1>4, <1>5, <1>6, <1>7 DEF RequestsInv, Free

\* Extract with a principal that the secret stands for.
LEMMA ExtractKeeps ==
    ASSUME AuthInv, NEW s \in Slots, NEW p \in StandsFor(req[s].secret),
           req[s].stage \in {"arrived", "resolve"}, Extract(s, p)
    PROVE  /\ req' \in [Slots -> Requests] /\ stoodFor' \in [Slots -> SUBSET Principals]
           /\ RequestsInv'
           /\ \A r \in Slots : req'[r].stage = "resolve" => req[r].stage = "resolve"
  <1>1. CASE ~Admitted(p, req[s].op)
    BY <1>1, AnswerKeeps DEF Extract
  <1>2. CASE Admitted(p, req[s].op)
    <2> USE DEF AuthInv
    <2> DEFINE r2 == [req[s] EXCEPT !.stage = "run", !.principal = p]
    <2>1. p \in Principals
      BY StandsTyped
    <2>2. req[s] \in Requests
      BY DEF TypeOK
    <2>3. r2 \in Requests /\ r2.stage = "run" /\ r2.principal = p /\ r2.op = req[s].op
      BY <2>1, <2>2 DEF Requests, Stages
    <2>4. req' = [req EXCEPT ![s] = r2] /\ Witness
      BY <1>2 DEF Extract
    <2> HIDE DEF r2
    <2>5. req' \in [Slots -> Requests] /\ \A r \in Slots : req'[r] = IF r = s THEN r2 ELSE req[r]
      BY <2>3, <2>4 DEF TypeOK
    <2>6. stoodFor' \in [Slots -> SUBSET Principals]
      BY <2>4, <2>5, WitnessKeeps
    <2>7. p \in stoodFor'[s]
      BY <2>3, <2>4, <2>5, WitnessKeeps
    <2>8. RunsAsItsSecret'
      <3> SUFFICES ASSUME NEW r \in Slots, req'[r].stage \in {"run", "orphan"}
                   PROVE  req'[r].principal \in stoodFor'[r]
        BY DEF RunsAsItsSecret
      <3>1. CASE r = s
        BY <3>1, <2>3, <2>5, <2>7
      <3>2. CASE r # s
        BY <3>2, <2>4, <2>5, WitnessKeeps DEF RunsAsItsSecret
      <3> QED BY <3>1, <3>2
    <2>9. RunsAdmitted'
      <3> SUFFICES ASSUME NEW r \in Slots, req'[r].stage \in {"run", "orphan"}
                   PROVE  Admitted(req'[r].principal, req'[r].op)
        BY DEF RunsAdmitted, Admitted
      <3>1. CASE r = s
        BY <3>1, <1>2, <2>3, <2>5
      <3>2. CASE r # s
        BY <3>2, <2>5 DEF RunsAdmitted
      <3> QED BY <3>1, <3>2
    <2> QED BY <2>3, <2>5, <2>6, <2>8, <2>9 DEF RequestsInv
  <1> QED BY <1>1, <1>2

-----------------------------------------------------------------------------
(* Steps that change a request and nothing of the store.                    *)

\* The invariant when the store stays as it is.
LEMMA StoreKept ==
    ASSUME AuthInv, UNCHANGED <<users, rows>>, root' \in BOOLEAN, now' \in 0..MaxNow,
           req' \in [Slots -> Requests], stoodFor' \in [Slots -> SUBSET Principals],
           RequestsInv',
           \A r \in Slots : req'[r].stage = "resolve" => Admins # {}
    PROVE  AuthInv' /\ Admins' = Admins
  <1> USE DEF AuthInv, users, rows
  <1>1. Admins' = Admins /\ Users' = Users
    BY DEF Admins, Users
  <1>2. TypeOK'
    BY DEF TypeOK
  <1>3. TokensHaveOwners'
    BY <1>1 DEF TokensHaveOwners
  <1>4. RootGivesWay'
    BY <1>1 DEF RootGivesWay
  <1> QED BY <1>1, <1>2, <1>3, <1>4 DEF RequestsInv

\* A request that is answered without a change of the store.
LEMMA AnsweredOnly ==
    ASSUME AuthInv, NEW s \in Slots, Answer(s), UNCHANGED <<users, rows, root, now>>
    PROVE  AuthInv' /\ Admins' = Admins
  <1>1. root' \in BOOLEAN /\ now' \in 0..MaxNow
    BY DEF AuthInv, TypeOK
  <1>2. \A r \in Slots : req'[r].stage = "resolve" => Admins # {}
    BY AnswerKeeps DEF AuthInv, RootGivesWay
  <1> QED BY <1>1, <1>2, AnswerKeeps, StoreKept

\* A request that passes, or fails to pass, its extractor.
LEMMA ExtractedOnly ==
    ASSUME AuthInv, NEW s \in Slots, NEW p \in StandsFor(req[s].secret),
           req[s].stage \in {"arrived", "resolve"}, Extract(s, p),
           UNCHANGED <<users, rows, root, now>>
    PROVE  AuthInv' /\ Admins' = Admins
  <1>1. root' \in BOOLEAN /\ now' \in 0..MaxNow
    BY DEF AuthInv, TypeOK
  <1>2. \A r \in Slots : req'[r].stage = "resolve" => Admins # {}
    BY ExtractKeeps DEF AuthInv, RootGivesWay
  <1> QED BY <1>1, <1>2, ExtractKeeps, StoreKept

\* A request that moves to a stage before its handler, or is orphaned.
LEMMA MovedOnly ==
    ASSUME AuthInv, NEW s \in Slots, NEW q \in Requests, req' = [req EXCEPT ![s] = q], Witness,
           UNCHANGED <<users, rows, root, now>>,
           q.stage = "resolve" => Admins # {},
           q.stage \in {"run", "orphan"} =>
               /\ req[s].stage = "run"
               /\ q.principal = req[s].principal /\ q.op = req[s].op
    PROVE  AuthInv' /\ Admins' = Admins
  <1> USE DEF AuthInv
  <1>1. req' \in [Slots -> Requests] /\ \A r \in Slots : req'[r] = IF r = s THEN q ELSE req[r]
    BY DEF TypeOK
  <1>2. stoodFor' \in [Slots -> SUBSET Principals]
    BY <1>1, WitnessKeeps
  <1>3. RunsAsItsSecret'
    <2> SUFFICES ASSUME NEW r \in Slots, req'[r].stage \in {"run", "orphan"}
                 PROVE  req'[r].principal \in stoodFor'[r]
      BY DEF RunsAsItsSecret
    <2>1. /\ req[r].stage \in {"run", "orphan"}
          /\ req'[r].principal = req[r].principal
      BY <1>1
    <2> QED BY <1>1, <2>1, WitnessKeeps DEF RunsAsItsSecret
  <1>4. RunsAdmitted'
    <2> SUFFICES ASSUME NEW r \in Slots, req'[r].stage \in {"run", "orphan"}
                 PROVE  Admitted(req'[r].principal, req'[r].op)
      BY DEF RunsAdmitted, Admitted
    <2>1. /\ req[r].stage \in {"run", "orphan"}
          /\ req'[r].principal = req[r].principal /\ req'[r].op = req[r].op
      BY <1>1
    <2> QED BY <2>1 DEF RunsAdmitted
  <1>5. \A r \in Slots : req'[r].stage = "resolve" => Admins # {}
    BY <1>1 DEF RootGivesWay
  <1>6. root' \in BOOLEAN /\ now' \in 0..MaxNow
    BY DEF TypeOK
  <1> QED BY <1>1, <1>2, <1>3, <1>4, <1>5, <1>6, StoreKept DEF RequestsInv

LEMMA ArriveStep ==
    ASSUME AuthInv, NEW s \in Slots, Arrive(s)
    PROVE  AuthInv' /\ Admins' = Admins
  <1>1. PICK secret \in handed \cup {RootSecret, WrongSecret}, op \in Ops :
            req' = [req EXCEPT ![s] = [stage |-> "arrived", secret |-> secret, op |-> op,
                                      principal |-> Nobody]]
    BY DEF Arrive
  <1> DEFINE q == [stage |-> "arrived", secret |-> secret, op |-> op, principal |-> Nobody]
  <1>2. handed \subseteq Tokens
    BY DEF AuthInv, TypeOK
  <1>3. Nobody \in Principals
    BY PrincipalsTyped DEF AuthInv
  <1>4. q \in Requests /\ q.stage = "arrived"
    BY <1>1, <1>2, <1>3 DEF Requests, Stages
  <1>5. req' = [req EXCEPT ![s] = q] /\ Witness /\ UNCHANGED <<users, rows, root, now>>
    BY <1>1 DEF Arrive
  <1> HIDE DEF q
  <1> QED BY <1>4, <1>5, MovedOnly

LEMMA MiddlewareStep ==
    ASSUME AuthInv, NEW s \in Slots, Middleware(s)
    PROVE  AuthInv' /\ Admins' = Admins
  <1>1. CASE HonorRoot(s)
    <2>1. Root \in StandsFor(req[s].secret)
      BY <1>1 DEF HonorRoot, HonorsRoot, StandsFor
    <2>2. req[s].stage \in {"arrived", "resolve"} /\ Extract(s, Root)
      BY <1>1 DEF HonorRoot
    <2>3. UNCHANGED <<users, rows, root, now>>
      BY <1>1 DEF HonorRoot
    <2> QED BY <2>1, <2>2, <2>3, ExtractedOnly
  <1>2. CASE IgnoreRoot(s)
    <2> DEFINE q == [req[s] EXCEPT !.stage = "resolve"]
    <2>1. q \in Requests /\ q.stage = "resolve"
      BY DEF AuthInv, TypeOK, Requests, Stages
    <2>2. Admins # {}
      BY <1>2 DEF IgnoreRoot, VerifyRoot, HonorsRoot
    <2>3. req' = [req EXCEPT ![s] = q] /\ Witness /\ UNCHANGED <<users, rows, root, now>>
      BY <1>2 DEF IgnoreRoot
    <2> HIDE DEF q
    <2> QED BY <2>1, <2>2, <2>3, MovedOnly
  <1>3. CASE Resolve(s)
    <2>1. PICK p \in Resolved(req[s].secret) : Extract(s, p)
      BY <1>3 DEF Resolve
    <2>2. p \in StandsFor(req[s].secret)
      BY <2>1, ResolvedStands DEF AuthInv
    <2>3. req[s].stage \in {"arrived", "resolve"} /\ UNCHANGED <<users, rows, root, now>>
      BY <1>3 DEF Resolve, LooksUp
    <2> QED BY <2>1, <2>2, <2>3, ExtractedOnly
  <1>4. CASE Refuse(s)
    BY <1>4, AnsweredOnly DEF Refuse
  <1> QED BY <1>1, <1>2, <1>3, <1>4 DEF Middleware

LEMMA AbandonStep ==
    ASSUME AuthInv, NEW s \in Slots, Abandon(s)
    PROVE  AuthInv' /\ Admins' = Admins
  <1>1. CASE Answer(s)
    BY <1>1, AnsweredOnly DEF Abandon
  <1>2. CASE req[s].stage = "run" /\ req' = [req EXCEPT ![s].stage = "orphan"] /\ Witness
    <2> DEFINE q == [req[s] EXCEPT !.stage = "orphan"]
    <2>1. /\ q \in Requests /\ q.stage = "orphan"
          /\ q.principal = req[s].principal /\ q.op = req[s].op
      BY DEF AuthInv, TypeOK, Requests, Stages
    <2>2. req' = [req EXCEPT ![s] = q] /\ Witness /\ UNCHANGED <<users, rows, root, now>>
      BY <1>2 DEF Abandon
    <2> HIDE DEF q
    <2> QED BY <1>2, <2>1, <2>2, MovedOnly
  <1> QED BY <1>1, <1>2 DEF Abandon

\* The clock, a restart and stuttering change no request that runs.
LEMMA EnvironmentStep ==
    ASSUME AuthInv, Tick \/ Restart \/ UNCHANGED vars
    PROVE  AuthInv' /\ Admins' = Admins
  <1> USE DEF AuthInv
  <1>1. CASE Tick
    <2>1. UNCHANGED <<users, rows, root, req>> /\ Witness /\ now' \in 0..MaxNow /\ root' \in BOOLEAN
      BY <1>1, BoundsAssumption DEF Tick, TypeOK
    <2>2. req' \in [Slots -> Requests]
      BY <2>1 DEF TypeOK
    <2>3. stoodFor' \in [Slots -> SUBSET Principals]
      BY <2>1, <2>2, WitnessKeeps
    <2>4. RunsAsItsSecret'
      BY <2>1, <2>2, WitnessKeeps DEF RunsAsItsSecret
    <2>5. RunsAdmitted'
      BY <2>1 DEF RunsAdmitted, Admitted
    <2> QED BY <2>1, <2>2, <2>3, <2>4, <2>5, StoreKept DEF RequestsInv, RootGivesWay
  <1>2. CASE Restart
    <2>1. UNCHANGED <<users, rows, now>> /\ Witness /\ now' \in 0..MaxNow /\ root' \in BOOLEAN
      BY <1>2 DEF Restart, TypeOK
    <2>2. Free \in Requests /\ Free.stage = "free"
      BY PrincipalsTyped DEF Free, Requests, Stages, Ops
    <2>3. req' \in [Slots -> Requests] /\ \A r \in Slots : req'[r].stage = "free"
      BY <1>2, <2>2 DEF Restart
    <2>4. stoodFor' \in [Slots -> SUBSET Principals]
      BY <2>1, <2>3, WitnessKeeps
    <2>5. RequestsInv'
      BY <2>3 DEF RequestsInv, RunsAsItsSecret, RunsAdmitted
    <2> QED BY <2>1, <2>3, <2>4, <2>5, StoreKept
  <1>3. CASE UNCHANGED vars
    <2>1. /\ UNCHANGED <<users, rows>> /\ root' \in BOOLEAN /\ now' \in 0..MaxNow
          /\ req' = req /\ stoodFor' = stoodFor
      BY <1>3 DEF vars, TypeOK
    <2>2. req' \in [Slots -> Requests] /\ stoodFor' \in [Slots -> SUBSET Principals]
      BY <2>1 DEF TypeOK
    <2>3. RequestsInv'
      BY <2>1 DEF RequestsInv, RunsAsItsSecret, RunsAdmitted, Admitted
    <2> QED BY <2>1, <2>2, <2>3, StoreKept DEF RootGivesWay
  <1> QED BY <1>1, <1>2, <1>3
-----------------------------------------------------------------------------
(* The calls of the store.                                                  *)

\* What a call has to show for itself: types, owners, and that an admin remains.
StoreTyped ==
    /\ role \in [Names -> Roles \cup {"none"}]
    /\ tokens \in [Tokens -> Rows]
    /\ issued \subseteq Tokens /\ handed \subseteq issued
    /\ births \in 0..MaxBirths /\ born \in [Names -> 0..births]

Remains == Admins # {} => Admins' # {}

LEMMA CallKeeps ==
    ASSUME AuthInv, NEW s \in Slots, Answer(s), UNCHANGED <<root, now>>,
           StoreTyped', TokensHaveOwners', Remains
    PROVE  AuthInv' /\ Remains
  <1>1. /\ req' \in [Slots -> Requests] /\ stoodFor' \in [Slots -> SUBSET Principals]
        /\ RequestsInv'
        /\ \A r \in Slots : req'[r].stage = "resolve" => req[r].stage = "resolve"
    BY AnswerKeeps
  <1>2. TypeOK'
    BY <1>1 DEF AuthInv, TypeOK, StoreTyped
  <1>3. RootGivesWay'
    BY <1>1 DEF AuthInv, RootGivesWay, Remains
  <1> QED BY <1>1, <1>2, <1>3 DEF AuthInv, RequestsInv

LEMMA CreateUserStep ==
    ASSUME AuthInv, NEW s \in Slots, CreateUser(s)
    PROVE  AuthInv' /\ Remains
  <1> USE DEF AuthInv
  <1> DEFINE n == req[s].op.name
  <1>1. n \in Names /\ req[s].op.role \in Roles
    BY OpFields DEF CreateUser, Running, TypeOK, Requests
  <1>2. CASE n \in Users
    BY <1>2, AnsweredOnly DEF CreateUser, Remains
  <1>3. CASE n \notin Users
    <2>1. /\ births < MaxBirths /\ births' = births + 1
          /\ role' = [role EXCEPT ![n] = req[s].op.role]
          /\ born' = [born EXCEPT ![n] = births + 1]
          /\ UNCHANGED <<rows, root, now>> /\ Answer(s)
      BY <1>3 DEF CreateUser
    <2> HIDE DEF n
    <2>2. births' \in 0..MaxBirths /\ births' \in 0..births'
      BY <2>1, BoundsAssumption DEF TypeOK
    <2>3. born' \in [Names -> 0..births']
      <3>1. \A m \in Names : born'[m] = IF m = n THEN births' ELSE born[m]
        BY <2>1 DEF TypeOK
      <3>2. \A m \in Names : born[m] \in 0..births'
        BY <2>1, <2>2 DEF TypeOK
      <3>3. born' = [m \in Names |-> born'[m]]
        BY <2>1 DEF TypeOK
      <3> QED BY <2>2, <3>1, <3>2, <3>3
    <2>4. StoreTyped'
      BY <1>1, <2>1, <2>2, <2>3 DEF StoreTyped, TypeOK, rows
    <2>5. Admins \subseteq Admins' /\ Users \subseteq Users'
      BY <1>1, <1>3, <2>1 DEF Admins, Users, TypeOK, Roles
    <2>6. \A t \in Tokens : tokens[t] # NoRow => tokens[t].owner # n
      BY <1>3 DEF TokensHaveOwners
    <2>7. TokensHaveOwners'
      <3> SUFFICES ASSUME NEW t \in Tokens, tokens'[t] # NoRow
                   PROVE  tokens'[t].owner \in Users' /\ tokens'[t].born = born'[tokens'[t].owner]
        BY DEF TokensHaveOwners, NoRow
      <3>1. tokens' = tokens
        BY <2>1 DEF rows
      <3>2. tokens[t].owner \in Users /\ tokens[t].born = born[tokens[t].owner]
        BY <3>1 DEF TokensHaveOwners
      <3>3. born'[tokens[t].owner] = born[tokens[t].owner]
        BY <2>1, <2>6, <3>1, <3>2 DEF Users, TypeOK
      <3> QED BY <2>5, <3>1, <3>2, <3>3
    <2> QED BY <2>1, <2>4, <2>5, <2>7, CallKeeps DEF Remains
  <1> QED BY <1>2, <1>3

LEMMA DeleteUserStep ==
    ASSUME AuthInv, NEW s \in Slots, DeleteUser(s)
    PROVE  AuthInv' /\ Remains
  <1> USE DEF AuthInv
  <1> DEFINE n == req[s].op.name
  <1>1. n \in Names
    BY OpFields DEF DeleteUser, Running, TypeOK, Requests
  <1>2. CASE n \notin Users \/ LastAdmin(n)
    BY <1>2, AnsweredOnly DEF DeleteUser, Remains, users, rows
  <1>3. CASE n \in Users /\ ~LastAdmin(n)
    <2>1. /\ role' = [role EXCEPT ![n] = "none"] /\ Cascade(n)
          /\ UNCHANGED <<born, births, issued, handed, root, now>> /\ Answer(s)
      BY <1>3 DEF DeleteUser
    <2>2. ~LastAdmin(n)
      BY <1>3
    <2> HIDE DEF n
    <2>3. /\ \A t \in Tokens : tokens'[t] = IF tokens[t].owner = n THEN NoRow ELSE tokens[t]
          /\ tokens' \in [Tokens -> Rows]
      BY <2>1, BoundsAssumption DEF Cascade, TypeOK, NoRow, Rows, Never
    <2>4. StoreTyped'
      BY <1>1, <2>1, <2>3 DEF StoreTyped, TypeOK
    <2>5. Admins' = Admins \ {n} /\ Users' = Users \ {n}
      BY <1>1, <2>1 DEF Admins, Users, TypeOK
    <2>6. Remains
      BY <2>2, <2>5 DEF Remains, LastAdmin
    <2>7. TokensHaveOwners'
      <3> SUFFICES ASSUME NEW t \in Tokens, tokens'[t] # NoRow
                   PROVE  tokens'[t].owner \in Users' /\ tokens'[t].born = born'[tokens'[t].owner]
        BY DEF TokensHaveOwners, NoRow
      <3>1. tokens[t].owner # n /\ tokens'[t] = tokens[t]
        BY <2>3
      <3>2. tokens[t].owner \in Users /\ tokens[t].born = born[tokens[t].owner]
        BY <3>1 DEF TokensHaveOwners
      <3> QED BY <2>1, <2>5, <3>1, <3>2
    <2> QED BY <2>1, <2>4, <2>6, <2>7, CallKeeps
  <1> QED BY <1>2, <1>3

LEMMA CreateTokenStep ==
    ASSUME AuthInv, NEW s \in Slots, CreateToken(s)
    PROVE  AuthInv' /\ Remains
  <1> USE DEF AuthInv
  <1> DEFINE n == req[s].op.name
  <1>1. n \in Names /\ req[s].op.expires \in 0..Never
    BY OpFields DEF CreateToken, Running, TypeOK, Requests
  <1>2. CASE n \notin Users
    BY <1>2, AnsweredOnly DEF CreateToken, Remains
  <1>3. CASE n \in Users
    <2>1. PICK t \in Tokens \ issued :
              /\ issued' = issued \cup {t}
              /\ tokens' = [tokens EXCEPT ![t] =
                     [owner |-> n, expires |-> req[s].op.expires, born |-> born[n]]]
              /\ handed' = IF req[s].stage = "run" THEN handed \cup {t} ELSE handed
      BY <1>3 DEF CreateToken
    <2>2. UNCHANGED <<users, root, now>> /\ Answer(s)
      BY DEF CreateToken
    <2> DEFINE row == [owner |-> n, expires |-> req[s].op.expires, born |-> born[n]]
    <2>3. row \in Rows /\ row.owner = n /\ row.born = born[n]
      <3>1. born[n] \in 0..births /\ births \in 0..MaxBirths
        BY <1>1 DEF TypeOK
      <3>2. born[n] \in 0..MaxBirths
        BY <3>1, BoundsAssumption
      <3> QED BY <1>1, <3>2 DEF Rows
    <2>4. tokens' = [tokens EXCEPT ![t] = row]
      BY <2>1
    <2> HIDE DEF n, row
    <2>5. tokens' \in [Tokens -> Rows] /\ \A u \in Tokens : tokens'[u] = IF u = t THEN row ELSE tokens[u]
      BY <2>3, <2>4 DEF TypeOK
    <2>6. StoreTyped'
      BY <2>1, <2>2, <2>5 DEF StoreTyped, TypeOK, users
    <2>7. Admins' = Admins /\ Users' = Users /\ born' = born
      BY <2>2 DEF Admins, Users, users
    <2>8. TokensHaveOwners'
      <3> SUFFICES ASSUME NEW u \in Tokens, tokens'[u] # NoRow
                   PROVE  tokens'[u].owner \in Users' /\ tokens'[u].born = born'[tokens'[u].owner]
        BY DEF TokensHaveOwners, NoRow
      <3>1. CASE u = t
        BY <1>3, <2>3, <2>5, <2>7, <3>1 DEF n
      <3>2. CASE u # t
        BY <2>5, <2>7, <3>2 DEF TokensHaveOwners
      <3> QED BY <3>1, <3>2
    <2> QED BY <2>2, <2>6, <2>7, <2>8, CallKeeps DEF Remains
  <1> QED BY <1>2, <1>3

LEMMA RevokeTokenStep ==
    ASSUME AuthInv, NEW s \in Slots, RevokeToken(s)
    PROVE  AuthInv' /\ Remains
  <1> USE DEF AuthInv
  <1> DEFINE t == req[s].op.token
  <1>1. t \in Tokens
    BY OpFields DEF RevokeToken, Running, TypeOK, Requests
  <1>2. /\ tokens' = [tokens EXCEPT ![t] = NoRow] /\ Answer(s)
        /\ UNCHANGED <<users, issued, handed, root, now>>
    BY DEF RevokeToken
  <1> HIDE DEF t
  <1>r. NoRow \in Rows
    BY BoundsAssumption DEF NoRow, Rows, Never
  <1>3. /\ tokens' \in [Tokens -> Rows]
        /\ \A u \in Tokens : tokens'[u] = IF u = t THEN NoRow ELSE tokens[u]
    BY <1>1, <1>2, <1>r DEF TypeOK
  <1>4. StoreTyped'
    BY <1>2, <1>3 DEF StoreTyped, TypeOK, users
  <1>5. Admins' = Admins /\ Users' = Users /\ born' = born
    BY <1>2 DEF Admins, Users, users
  <1>6. TokensHaveOwners'
    <2> SUFFICES ASSUME NEW u \in Tokens, tokens'[u] # NoRow
                 PROVE  tokens'[u].owner \in Users' /\ tokens'[u].born = born'[tokens'[u].owner]
      BY DEF TokensHaveOwners, NoRow
    <2>1. tokens'[u] = tokens[u]
      BY <1>3
    <2> QED BY <1>5, <2>1 DEF TokensHaveOwners
  <1> QED BY <1>2, <1>4, <1>5, <1>6, CallKeeps DEF Remains

-----------------------------------------------------------------------------
(* Every step.                                                              *)

LEMMA AuthInit == Init => AuthInv
  <1> SUFFICES ASSUME Init PROVE AuthInv
    OBVIOUS
  <1>1. Free \in Requests /\ Free.stage = "free"
    BY BoundsAssumption DEF Free, Requests, Stages, Ops, Principals, Nobody
  <1>2. NoRow \in Rows
    BY BoundsAssumption DEF NoRow, Rows, Never
  <1>3. TypeOK
    BY <1>1, <1>2, BoundsAssumption DEF Init, TypeOK
  <1>4. TokensHaveOwners
    BY DEF Init, TokensHaveOwners
  <1>5. RunsAsItsSecret /\ RootGivesWay /\ RunsAdmitted
    BY <1>1 DEF Init, RunsAsItsSecret, RootGivesWay, RunsAdmitted
  <1> QED BY <1>3, <1>4, <1>5 DEF AuthInv

LEMMA AuthNext ==
    ASSUME AuthInv, [Next]_vars
    PROVE  AuthInv' /\ Remains
  <1>1. ASSUME NEW s \in Slots, Arrive(s) PROVE AuthInv' /\ Remains
    BY <1>1, ArriveStep DEF Remains
  <1>2. ASSUME NEW s \in Slots, Middleware(s) PROVE AuthInv' /\ Remains
    BY <1>2, MiddlewareStep DEF Remains
  <1>3. ASSUME NEW s \in Slots, Handler(s) PROVE AuthInv' /\ Remains
    <2>1. CASE CreateUser(s) BY <2>1, CreateUserStep
    <2>2. CASE DeleteUser(s) BY <2>2, DeleteUserStep
    <2>3. CASE CreateToken(s) BY <2>3, CreateTokenStep
    <2>4. CASE RevokeToken(s) BY <2>4, RevokeTokenStep
    <2>5. CASE Serve(s) BY <2>5, AnsweredOnly DEF Serve, Remains
    <2> QED BY <1>3, <2>1, <2>2, <2>3, <2>4, <2>5 DEF Handler
  <1>4. ASSUME NEW s \in Slots, StoreFails(s) PROVE AuthInv' /\ Remains
    BY <1>4, AnsweredOnly DEF StoreFails, Remains
  <1>5. ASSUME NEW s \in Slots, Abandon(s) PROVE AuthInv' /\ Remains
    BY <1>5, AbandonStep DEF Remains
  <1>6. ASSUME Tick \/ Restart \/ UNCHANGED vars PROVE AuthInv' /\ Remains
    BY <1>6, EnvironmentStep DEF Remains
  <1> QED BY <1>1, <1>2, <1>3, <1>4, <1>5, <1>6 DEF Next

\* The invariant holds in every state.
THEOREM Authentic == Spec => []AuthInv
  <1>1. AuthInv /\ [Next]_vars => AuthInv'
    BY AuthNext
  <1> QED BY AuthInit, <1>1, PTL DEF Spec

\* Types, for any number of names, tokens and requests.
THEOREM TypeCorrect == Spec => []TypeOK
  <1>1. AuthInv => TypeOK
    BY DEF AuthInv
  <1> QED BY <1>1, Authentic, PTL

\* create_token and delete_user never leave a token without the user it was minted
\* for, and create_user never gives a new user the token of an earlier one.
THEOREM OwnersRemain == Spec => []TokensHaveOwners
  <1>1. AuthInv => TokensHaveOwners
    BY DEF AuthInv
  <1> QED BY <1>1, Authentic, PTL

\* auth_middleware lets a handler run only for whom the secret stood for since the
\* request arrived.
THEOREM RunsAuthentic == Spec => [](RunsAsItsSecret /\ RootGivesWay)
  <1>1. AuthInv => RunsAsItsSecret /\ RootGivesWay
    BY DEF AuthInv
  <1> QED BY <1>1, Authentic, PTL

\* delete_user never takes the last admin, in any order of any number of requests.
THEOREM AdminStays == Spec => AdminRemains
  <1>1. AuthInv /\ [Next]_vars => [Admins # {} => Admins' # {}]_vars
    BY AuthNext DEF Remains
  <1> QED BY <1>1, Authentic, PTL DEF Spec, AdminRemains

\* Only an admin's request, or root's, changes users or tokens.
LEMMA ChangesStep ==
    ASSUME AuthInv, [Next]_vars, <<role, tokens>>' # <<role, tokens>>
    PROVE  \E s \in Slots : /\ req[s].stage \in {"run", "orphan"}
                            /\ req'[s].stage = "free"
                            /\ \E p \in stoodFor[s] : p.role \in {"root", "admin"}
  <1>1. PICK s \in Slots : CreateUser(s) \/ DeleteUser(s) \/ CreateToken(s) \/ RevokeToken(s)
    <2>1. ASSUME NEW s \in Slots,
                 Arrive(s) \/ Middleware(s) \/ Serve(s) \/ StoreFails(s) \/ Abandon(s)
          PROVE  UNCHANGED <<role, tokens>>
      BY <2>1 DEF Arrive, Middleware, HonorRoot, IgnoreRoot, Resolve, Refuse, Serve, StoreFails,
                  Abandon, users, rows
    <2>2. ASSUME Tick \/ Restart \/ UNCHANGED vars PROVE UNCHANGED <<role, tokens>>
      BY <2>2 DEF Tick, Restart, vars, users, rows
    <2> QED BY <2>1, <2>2 DEF Next, Handler
  <1>2. /\ req[s].stage \in {"run", "orphan"}
        /\ req[s].op.kind \in {"create", "delete", "mint", "revoke"}
        /\ Answer(s)
    BY <1>1 DEF CreateUser, DeleteUser, CreateToken, RevokeToken, Running
  <1>3. req'[s].stage = "free"
    BY <1>2, AnswerKeeps
  <1>4. req[s].op \in AdminOps /\ req[s].op # MemoryOp
    BY <1>2, OpFields DEF AuthInv, TypeOK, Requests, MemoryOp
  <1>5. Admitted(req[s].principal, req[s].op) /\ req[s].principal \in stoodFor[s]
    BY <1>2 DEF AuthInv, RunsAdmitted, RunsAsItsSecret
  <1>6. req[s].principal.role \in {"root", "admin"}
    BY <1>4, <1>5 DEF Admitted
  <1> QED BY <1>2, <1>3, <1>5, <1>6

\* The store changes only for a request whose secret stood for root or an admin.
THEOREM ChangesAdmitted == Spec => ChangesAreAdmitted
  <1>1. AuthInv /\ [Next]_vars =>
            [<<role, tokens>>' # <<role, tokens>> =>
                \E s \in Slots : /\ req[s].stage \in {"run", "orphan"}
                                 /\ req'[s].stage = "free"
                                 /\ \E p \in stoodFor[s] : p.role \in {"root", "admin"}]_vars
    BY ChangesStep
  <1> QED BY <1>1, Authentic, PTL DEF Spec, ChangesAreAdmitted
=============================================================================

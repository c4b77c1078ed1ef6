------------------------------ MODULE HttpAuth ------------------------------
(***************************************************************************)
(* Users, tokens and the root token of the HTTP server, with requests that *)
(* overlap.  A request is authenticated by the middleware, admitted by the *)
(* extractor of its route and then served by one call of the store; every  *)
(* call of the store runs alone, under the mutex of the connection, and    *)
(* between two calls other requests run.                                   *)
(*                                                                         *)
(* A secret is a token, the root token or neither.  A user name may be     *)
(* used again once its user is deleted, so a user has a birth number, and  *)
(* a token remembers that of the user it was minted for (both are history, *)
(* and no action looks at them).  Answers are told apart only where they   *)
(* hand out a secret.                                                      *)
(***************************************************************************)
EXTENDS Integers

CONSTANTS Names,     \* user names that pass validate_username
          Tokens,    \* token ids; each has one secret
          Slots,     \* requests under way
          RootSecret, WrongSecret, NoName,
          MaxNow,    \* bound: the clock, in units of the expiry times used
          MaxBirths, \* bound: users ever created
          Faults     \* the faults the environment may inject

FaultKinds == {"sqlite", "timeout", "restart"}

ASSUME SecretsAssumption ==
    RootSecret # WrongSecret /\ RootSecret \notin Tokens /\ WrongSecret \notin Tokens
ASSUME NoneAssumption == NoName \notin Names
ASSUME BoundsAssumption == MaxNow \in Nat /\ MaxBirths \in Nat
ASSUME FaultsAssumption == Faults \subseteq FaultKinds

VARIABLES role,    \* users: name -> role, "none" when there is no such row
          tokens,  \* tokens: id -> row, NoRow when there is none
          issued,  \* ids in use so far; a uuid never comes twice
          handed,  \* tokens whose secret an answer has given out
          root,    \* admin_token is configured
          now,     \* Utc::now().timestamp()
          req,     \* slot -> the request
          born, births,  \* history: birth number of a user, and of the last one
          stoodFor       \* history: slot -> what its secret stood for so far

users == <<role, born, births>>
rows == <<tokens, issued, handed>>
vars == <<users, rows, root, now, req, stoodFor>>

Roles == {"user", "admin"}
Never == MaxNow + 1
NoRow == [owner |-> NoName, expires |-> 0, born |-> 0]

Principals == [name : Names \cup {NoName}, role : Roles \cup {"root", "none"}, born : 0..MaxBirths]
Root == [name |-> NoName, role |-> "root", born |-> 0]
Nobody == [name |-> NoName, role |-> "none", born |-> 0]
User(n) == [name |-> n, role |-> role[n], born |-> born[n]]

\* Seeded fault: the role of a new user is not looked at.
AnyRole == [kind : {"create"}, name : Names, role : Roles \cup {"Admin"}]
      \cup [kind : {"delete"}, name : Names]
      \cup [kind : {"mint"}, name : Names, expires : 0..Never]
      \cup [kind : {"revoke"}, token : Tokens]
      \cup [kind : {"list"}]

\* The admin routes, and the routes of a user.
AdminOps == [kind : {"create"}, name : Names, role : Roles]
       \cup [kind : {"delete"}, name : Names]
       \cup [kind : {"mint"}, name : Names, expires : 0..Never]
       \cup [kind : {"revoke"}, token : Tokens]
       \cup [kind : {"list"}]
MemoryOp == [kind |-> "memory"]
Ops == AdminOps \cup {MemoryOp}

\* run: handed to spawn_blocking; orphan: its answer is given up, not the call.
Stages == {"free", "arrived", "resolve", "run", "orphan"}
Free == [stage |-> "free", secret |-> WrongSecret, op |-> MemoryOp, principal |-> Nobody]

Users == {n \in Names : role[n] # "none"}
Admins == {n \in Names : role[n] = "admin"}

Init ==
    /\ role = [n \in Names |-> "none"]
    /\ born = [n \in Names |-> 0]
    /\ births = 0
    /\ tokens = [t \in Tokens |-> NoRow]
    /\ issued = {}
    /\ handed = {}
    /\ root \in BOOLEAN
    /\ now = 0
    /\ req = [s \in Slots |-> Free]
    /\ stoodFor = [s \in Slots |-> {}]
-----------------------------------------------------------------------------
(* What a secret stands for.                                                *)

\* Seeded fault: root is honored for as long as it is configured.
RootForever(secret) == root /\ secret = RootSecret

\* verify_root and, in the call that follows it, ~has_admin.
HonorsRoot(secret) == root /\ secret = RootSecret /\ Admins = {}

\* resolve_token: the join of the token with its user, unless it has expired.
Resolved(secret) ==
    {User(n) : n \in {n \in Users : /\ secret \in Tokens
                                    /\ tokens[secret].owner = n
                                    /\ ~(tokens[secret].expires < now)}}

\* Who may act with a secret at this moment: the user the token was minted for,
\* while it is there and the token is valid; root while there is no admin.
StandsFor(secret) ==
    {User(n) : n \in {n \in Users : /\ secret \in Tokens
                                    /\ tokens[secret].owner = n
                                    /\ tokens[secret].born = born[n]
                                    /\ now <= tokens[secret].expires}}
      \cup {p \in {Root} : root /\ secret = RootSecret /\ Admins = {}}

\* A request collects what its secret stands for until it is authenticated.
Witness ==
    stoodFor' = [s \in Slots |->
        IF req'[s].stage = "free" THEN {}
        ELSE IF req[s].stage \in {"arrived", "resolve"}
             THEN stoodFor[s] \cup StandsFor(req[s].secret)
             ELSE stoodFor[s]]

Answer(s) == req' = [req EXCEPT ![s] = Free] /\ Witness
-----------------------------------------------------------------------------
(* The middleware and the extractors.                                       *)

\* A client sends a request, with a secret it was given or with any other.
Arrive(s) ==
    /\ req[s].stage = "free"
    /\ \E secret \in handed \cup {RootSecret, WrongSecret}, op \in Ops :
           req' = [req EXCEPT ![s] = [stage |-> "arrived", secret |-> secret, op |-> op,
                                      principal |-> Nobody]]
    /\ Witness
    /\ UNCHANGED <<users, rows, root, now>>

\* Seeded fault: any user passes AdminPrincipal.
AnyUser(p, op) == op \in AdminOps \/ p.role \in Roles

\* AdminPrincipal and AuthUser.
Admitted(p, op) ==
    \/ op \in AdminOps /\ p.role \in {"root", "admin"}
    \/ op = MemoryOp /\ p.role \in Roles

\* The extractor refuses with 403, or the handler starts.
Extract(s, p) ==
    IF Admitted(p, req[s].op)
    THEN req' = [req EXCEPT ![s].stage = "run", ![s].principal = p] /\ Witness
    ELSE Answer(s)

VerifyRoot(s) == root /\ req[s].secret = RootSecret

\* The first call: has_admin finds none, and the request is root's.
HonorRoot(s) ==
    /\ req[s].stage = "arrived" /\ VerifyRoot(s)
    /\ HonorsRoot(req[s].secret)
    /\ Extract(s, Root)
    /\ UNCHANGED <<users, rows, root, now>>

\* has_admin finds one; the secret is looked up like any other.
IgnoreRoot(s) ==
    /\ req[s].stage = "arrived" /\ VerifyRoot(s)
    /\ ~HonorsRoot(req[s].secret)
    /\ req' = [req EXCEPT ![s].stage = "resolve"]
    /\ Witness
    /\ UNCHANGED <<users, rows, root, now>>

LooksUp(s) == req[s].stage = "resolve" \/ (req[s].stage = "arrived" /\ ~VerifyRoot(s))

Resolve(s) ==
    /\ LooksUp(s)
    /\ \E p \in Resolved(req[s].secret) : Extract(s, p)
    /\ UNCHANGED <<users, rows, root, now>>

\* 401.
Refuse(s) ==
    /\ LooksUp(s)
    /\ Resolved(req[s].secret) = {}
    /\ Answer(s)
    /\ UNCHANGED <<users, rows, root, now>>
-----------------------------------------------------------------------------
(* The calls of the store.                                                  *)

Running(s, kind) == req[s].stage \in {"run", "orphan"} /\ req[s].op.kind = kind

CreateUser(s) ==
    /\ Running(s, "create")
    /\ LET n == req[s].op.name
       IN  IF n \in Users THEN UNCHANGED users
           ELSE /\ births < MaxBirths
                /\ births' = births + 1
                /\ role' = [role EXCEPT ![n] = req[s].op.role]
                /\ born' = [born EXCEPT ![n] = births + 1]
    /\ Answer(s)
    /\ UNCHANGED <<rows, root, now>>

\* Seeded fault: admin_count <= 0.
NoAdminLeft(n) == n \in Admins /\ Admins = {}

\* admin_count <= 1, and the user is the one.
LastAdmin(n) == n \in Admins /\ Admins \subseteq {n}

\* Seeded fault: the tokens of the user stay.
NoCascade(n) == tokens' = tokens

\* ON DELETE CASCADE.
Cascade(n) == tokens' = [t \in Tokens |-> IF tokens[t].owner = n THEN NoRow ELSE tokens[t]]

DeleteUser(s) ==
    /\ Running(s, "delete")
    /\ LET n == req[s].op.name
       IN  IF n \notin Users \/ LastAdmin(n) THEN UNCHANGED <<role, tokens>>
           ELSE role' = [role EXCEPT ![n] = "none"] /\ Cascade(n)
    /\ Answer(s)
    /\ UNCHANGED <<born, births, issued, handed, root, now>>

\* The secret leaves with the answer; an answer given up takes it along.
CreateToken(s) ==
    /\ Running(s, "mint")
    /\ LET n == req[s].op.name
       IN  IF n \notin Users THEN UNCHANGED rows
           ELSE \E t \in Tokens \ issued :
                  /\ issued' = issued \cup {t}
                  /\ tokens' = [tokens EXCEPT ![t] =
                         [owner |-> n, expires |-> req[s].op.expires, born |-> born[n]]]
                  /\ handed' = IF req[s].stage = "run" THEN handed \cup {t} ELSE handed
    /\ Answer(s)
    /\ UNCHANGED <<users, root, now>>

RevokeToken(s) ==
    /\ Running(s, "revoke")
    /\ tokens' = [tokens EXCEPT ![req[s].op.token] = NoRow]
    /\ Answer(s)
    /\ UNCHANGED <<users, issued, handed, root, now>>

\* list_users and list_tokens read; the routes of a user go to the memory manager,
\* as the user they run for.
Serve(s) ==
    /\ Running(s, "memory") \/ Running(s, "list")
    /\ Answer(s)
    /\ UNCHANGED <<users, rows, root, now>>
-----------------------------------------------------------------------------
(* The environment.                                                         *)

\* A call of the store fails: 500.
StoreFails(s) ==
    /\ "sqlite" \in Faults
    /\ req[s].stage # "free"
    /\ Answer(s)
    /\ UNCHANGED <<users, rows, root, now>>

\* REQUEST_TIMEOUT, or the client hangs up: the future of the request is dropped.
\* A call already handed to spawn_blocking runs all the same.
Abandon(s) ==
    /\ "timeout" \in Faults
    /\ \/ req[s].stage \in {"arrived", "resolve", "run"} /\ Answer(s)
       \/ req[s].stage = "run" /\ req' = [req EXCEPT ![s].stage = "orphan"] /\ Witness
    /\ UNCHANGED <<users, rows, root, now>>

Tick ==
    /\ now < MaxNow
    /\ now' = now + 1
    /\ UNCHANGED <<users, rows, root, req>>
    /\ Witness

\* The server is started again, perhaps with another configuration; auth.db stays.
Restart ==
    /\ "restart" \in Faults
    /\ root' \in BOOLEAN
    /\ req' = [s \in Slots |-> Free]
    /\ Witness
    /\ UNCHANGED <<users, rows, now>>

Middleware(s) == HonorRoot(s) \/ IgnoreRoot(s) \/ Resolve(s) \/ Refuse(s)
Handler(s) == CreateUser(s) \/ DeleteUser(s) \/ CreateToken(s) \/ RevokeToken(s) \/ Serve(s)

Next ==
    \/ \E s \in Slots :
          Arrive(s) \/ Middleware(s) \/ Handler(s) \/ StoreFails(s) \/ Abandon(s)
    \/ Tick
    \/ Restart

Spec == Init /\ [][Next]_vars
-----------------------------------------------------------------------------
(* Properties.                                                              *)

Rows == [owner : Names \cup {NoName}, expires : 0..Never, born : 0..MaxBirths]
Requests == [stage : Stages, secret : Tokens \cup {RootSecret, WrongSecret}, op : Ops,
             principal : Principals]

\* Every variable has its type.
TypeOK ==
    /\ role \in [Names -> Roles \cup {"none"}]
    /\ tokens \in [Tokens -> Rows]
    /\ issued \subseteq Tokens /\ handed \subseteq issued
    /\ root \in BOOLEAN /\ now \in 0..MaxNow
    /\ req \in [Slots -> Requests]
    /\ births \in 0..MaxBirths /\ born \in [Names -> 0..births]
    /\ stoodFor \in [Slots -> SUBSET Principals]

\* Once there is an admin there is one ever after, whatever requests delete users
\* at the same time and whatever is retried or orphaned (delete_user refuses the last).
AdminRemains == [][Admins # {} => Admins' # {}]_vars

\* A token belongs to the very user it was minted for: it goes with that user, also
\* when the user is deleted while the token is minted, and a later user of the same
\* name does not come with tokens of the earlier one.
TokensHaveOwners ==
    \A t \in Tokens : tokens[t] # NoRow =>
        tokens[t].owner \in Users /\ tokens[t].born = born[tokens[t].owner]

\* A handler runs for a caller that its secret stood for at a moment since the
\* request arrived: neither a token that had expired, was revoked or lost its user
\* before, nor root once there was an admin, gets as far.
RunsAsItsSecret ==
    \A s \in Slots : req[s].stage \in {"run", "orphan"} => req[s].principal \in stoodFor[s]

\* Whoever changes users or tokens was root or an admin at a moment since its
\* request arrived; a restart, the clock and refused requests change nothing.
ChangesAreAdmitted ==
    [][<<role, tokens>>' # <<role, tokens>> =>
           \E s \in Slots : /\ req[s].stage \in {"run", "orphan"}
                            /\ req'[s].stage = "free"
                            /\ \E p \in stoodFor[s] : p.role \in {"root", "admin"}]_vars

\* Root is passed over only while there is an admin: between has_admin and the
\* lookup that then fails nobody can remove the last one, so the holder of root is
\* never turned away from a server that has no admin.
RootGivesWay ==
    \A s \in Slots : req[s].stage = "resolve" => Admins # {}
=============================================================================

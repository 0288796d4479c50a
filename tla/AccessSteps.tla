---------------------------- MODULE AccessSteps ----------------------------
(***************************************************************************)
(* What the steps of Access do, row by row, and the inductive invariant    *)
(* from which AccessProofs derives its theorems.                           *)
(***************************************************************************)
EXTENDS Access, TLAPS

Members == [role: Roles, status: Statuses] \cup {NoMember}
CredRow == {c \in [user: Users \cup {None}, state: CredentialStates, generation: Nat] :
                c = NoCredential \/ (c.state # "absent" /\ c.user \in Users)}
PairRow == {p \in [user: Users \cup {None}, state: {"absent", "open", "claimed", "revoked", "expired"}] :
                p = NoPairing \/ (p.state # "absent" /\ p.user \in Users)}
Stages == {"idle", "principal", "login", "refresh", "rotated", "update", "pairing", "claim", "password"}
\* What a request has found, by its stage.
ReqRow == {q \in [stage: Stages, user: Users \cup {None}, role: Roles \cup {"none", "agent"},
                  by: Credentials \cup {None}, of: Users \cup Sessions \cup Pairings \cup {None},
                  change: Members, seen: Nat] :
              /\ q.stage # "idle" => q.user \in Users
              /\ q.stage = "update" => q.of \in Users /\ q.change \in [role: Roles, status: Statuses]
              /\ q.stage \in {"refresh", "rotated"} => q.of \in Sessions /\ q.seen \in 0..MaxRotations
              /\ q.stage \in {"pairing", "claim"} => q.of \in Pairings}

\* Every row has its type, the requests' by their stage.
Typed ==
    /\ member \in [Users -> Members]
    /\ password \in [Users -> Nat]
    /\ cred \in [Credentials -> CredRow]
    /\ pairing \in [Pairings -> PairRow]
    /\ request \in [Requests -> ReqRow]
    /\ exchanged \in [Sessions -> [0..MaxRotations -> Nat]]
    /\ paired \in [Pairings -> SUBSET Sessions]
    /\ verified \in [Sessions -> Nat \cup {None}]

----------------------------------------------------------------------------
(* Rows. *)

\* The rows the steps of a request write.
LoginReq(u, n) == [Idle EXCEPT !.stage = "login", !.user = u, !.seen = n]
PrincipalReq(u, k, x) == [Idle EXCEPT !.stage = "principal", !.user = u, !.by = k, !.role = x]
RefreshReq(u, s, g) == [Idle EXCEPT !.stage = "refresh", !.user = u, !.of = s, !.seen = g]
ClaimReq(u, p) == [Idle EXCEPT !.stage = "pairing", !.user = u, !.of = p]
LockReq(q, x) == [q EXCEPT !.stage = x]
PasswordReq(q, m) == [q EXCEPT !.stage = "password", !.seen = m]
UpdateReq(q, u, c) == [q EXCEPT !.stage = "update", !.of = u, !.change = c]

\* A request that does nothing is a row.
LEMMA IdleRow == Idle \in ReqRow /\ Idle.stage = "idle" /\ Idle.user = None
BY DEF Idle, ReqRow, Stages, Members

\* The request of a login.
LEMMA LoginRow ==
    ASSUME NEW u \in Users, NEW n \in Nat
    PROVE  /\ LoginReq(u, n) \in ReqRow
           /\ LoginReq(u, n).stage = "login"
           /\ LoginReq(u, n).user = u
           /\ LoginReq(u, n).seen = n
BY DEF LoginReq, Idle, ReqRow, Stages, Members

\* The request of a principal.
LEMMA PrincipalRow ==
    ASSUME NEW u \in Users, NEW k \in Credentials, NEW x \in Roles \cup {"none", "agent"}
    PROVE  /\ PrincipalReq(u, k, x) \in ReqRow
           /\ PrincipalReq(u, k, x).stage = "principal"
           /\ PrincipalReq(u, k, x).user = u
BY DEF PrincipalReq, Idle, ReqRow, Stages, Members

\* The request of a refresh.
LEMMA RefreshRow ==
    ASSUME NEW u \in Users, NEW s \in Sessions, NEW g \in 0..MaxRotations
    PROVE  /\ RefreshReq(u, s, g) \in ReqRow
           /\ RefreshReq(u, s, g).stage = "refresh"
           /\ RefreshReq(u, s, g).user = u
           /\ RefreshReq(u, s, g).of = s
           /\ RefreshReq(u, s, g).seen = g
<1>1. g \in Nat /\ g \in 0..MaxRotations
    BY AccessAssumption
<1> QED
    BY <1>1 DEF RefreshReq, Idle, ReqRow, Stages, Members

\* The request of a claim.
LEMMA ClaimRow ==
    ASSUME NEW u \in Users, NEW p \in Pairings
    PROVE  /\ ClaimReq(u, p) \in ReqRow
           /\ ClaimReq(u, p).stage = "pairing"
           /\ ClaimReq(u, p).user = u
           /\ ClaimReq(u, p).of = p
BY DEF ClaimReq, Idle, ReqRow, Stages, Members

\* A request that has found a session or a pairing and locks it.
LEMMA LockRow ==
    ASSUME NEW q \in ReqRow, NEW x \in {"rotated", "claim"},
           x = "rotated" => q.stage = "refresh", x = "claim" => q.stage = "pairing"
    PROVE  /\ LockReq(q, x) \in ReqRow
           /\ LockReq(q, x).stage = x
           /\ LockReq(q, x).user = q.user
           /\ LockReq(q, x).of = q.of
           /\ LockReq(q, x).seen = q.seen
<1>1. q.user \in Users
    BY DEF ReqRow
<1>2. x = "rotated" => q.of \in Sessions /\ q.seen \in 0..MaxRotations
    BY DEF ReqRow
<1>3. x = "claim" => q.of \in Pairings
    BY DEF ReqRow
<1>4. x \in Stages
    BY DEF Stages
<1> QED
    BY <1>1, <1>2, <1>3, <1>4 DEF LockReq, ReqRow

\* A principal that has read its password.
LEMMA PasswordRow ==
    ASSUME NEW q \in ReqRow, q.stage = "principal", NEW m \in Nat
    PROVE  /\ PasswordReq(q, m) \in ReqRow
           /\ PasswordReq(q, m).stage = "password"
           /\ PasswordReq(q, m).user = q.user
<1>1. q.user \in Users /\ "password" \in Stages
    BY DEF ReqRow, Stages
<1> QED
    BY <1>1 DEF PasswordReq, ReqRow

\* A principal that has locked the workspace and a member.
LEMMA UpdateRow ==
    ASSUME NEW q \in ReqRow, q.stage = "principal", NEW u \in Users, NEW c \in [role: Roles, status: Statuses]
    PROVE  /\ UpdateReq(q, u, c) \in ReqRow
           /\ UpdateReq(q, u, c).stage = "update"
           /\ UpdateReq(q, u, c).user = q.user
           /\ UpdateReq(q, u, c).of = u
           /\ UpdateReq(q, u, c).change = c
<1>1. q.user \in Users /\ "update" \in Stages /\ c \in Members
    BY DEF ReqRow, Stages, Members
<1> QED
    BY <1>1 DEF UpdateReq, ReqRow

\* A new credential.
LEMMA NewRow ==
    ASSUME Typed, NEW k \in Credentials, NEW u \in Users
    PROVE  /\ New(k, u) \in [Credentials -> CredRow]
           /\ New(k, u)[k] = [user |-> u, state |-> "live", generation |-> 0]
           /\ \A c \in Credentials \ {k} : New(k, u)[c] = cred[c]
BY DEF Typed, New, CredRow, CredentialStates

\* What is revoked keeps its user and its generation.
LEMMA RevokedRow ==
    ASSUME Typed, NEW K
    PROVE  /\ Revoked(K) \in [Credentials -> CredRow]
           /\ \A k \in Credentials :
                 /\ Revoked(K)[k].user = cred[k].user /\ Revoked(K)[k].generation = cred[k].generation
                 /\ k \notin K => Revoked(K)[k] = cred[k]
                 /\ k \in K => Revoked(K)[k].state \in {"absent", "revoked"}
                 /\ Revoked(K)[k].state = "absent" <=> cred[k].state = "absent"
                 /\ cred[k] = NoCredential => Revoked(K)[k] = NoCredential
<1>1. ASSUME NEW c \in CredRow, c # NoCredential
      PROVE  LET d == [c EXCEPT !.state = "revoked"]
             IN  /\ d \in CredRow /\ d.state = "revoked" /\ c.state # "absent"
                 /\ d.user = c.user /\ d.generation = c.generation
    BY <1>1 DEF CredRow, CredentialStates
<1>2. NoCredential.state = "absent"
    BY DEF NoCredential
<1> QED
    BY <1>1, <1>2 DEF Typed, Revoked

----------------------------------------------------------------------------
(* Steps.  The step of a request changes its own row and no other request's. *)

\* Request r is at stage x after the step, and the others are where they were.
At(r, x) ==
    /\ request' \in [Requests -> ReqRow] /\ request'[r].stage = x
    /\ \A q \in Requests \ {r} : request'[q] = request[q]

\* A row that is written is the request's.
LEMMA Written ==
    ASSUME Typed, NEW r \in Requests, NEW q \in ReqRow, NEW x, q.stage = x,
           request' = [request EXCEPT ![r] = q]
    PROVE  At(r, x) /\ request'[r] = q
BY DEF Typed, At

\* A request that ends is idle.
LEMMA Ended ==
    ASSUME Typed, NEW r \in Requests, request' = [request EXCEPT ![r] = Idle]
    PROVE  At(r, "idle")
BY IdleRow, Written

\* What a request remembers has its type.
LEMMA RequestFacts ==
    ASSUME Typed, NEW r \in Requests
    PROVE  /\ request[r] \in ReqRow
           /\ request[r].stage # "idle" => request[r].user \in Users
           /\ request[r].stage = "update" => /\ request[r].of \in Users
                                             /\ request[r].change \in [role: Roles, status: Statuses]
           /\ request[r].stage \in {"refresh", "rotated"} =>
                  request[r].of \in Sessions /\ request[r].seen \in 0..MaxRotations
           /\ request[r].stage \in {"pairing", "claim"} => request[r].of \in Pairings
BY DEF Typed, ReqRow

\* A credential or a pairing that exists has a user.
LEMMA UserFacts ==
    ASSUME Typed
    PROVE  /\ \A k \in Credentials : cred[k] = NoCredential \/ (cred[k].state # "absent" /\ cred[k].user \in Users)
           /\ \A p \in Pairings : pairing[p] = NoPairing \/ (pairing[p].state # "absent" /\ pairing[p].user \in Users)
           /\ NoCredential.state = "absent" /\ NoCredential.generation = 0 /\ NoPairing.state = "absent"
BY DEF Typed, CredRow, PairRow, NoCredential, NoPairing

\* A login has found its user and the hash.
LEMMA FindLoginAccountAt ==
    ASSUME Typed, NEW r \in Requests, NEW u \in Users, FindLoginAccount(r, u)
    PROVE  At(r, "login") /\ request'[r].user = u /\ request'[r].seen = password[u]
<1> DEFINE q == LoginReq(u, password[u])
<1>1. password[u] \in Nat
    BY DEF Typed
<1>2. request' = [request EXCEPT ![r] = q]
    BY DEF FindLoginAccount, Goes, LoginReq
<1>3. /\ q \in ReqRow /\ q.stage = "login" /\ q.user = u /\ q.seen = password[u]
    BY <1>1, LoginRow
<1> HIDE DEF q
<1>4. At(r, "login") /\ request'[r] = q
    BY <1>2, <1>3, Written
<1> QED
    BY <1>1, <1>3, <1>4

\* A principal is the user of its credential.
LEMMA AuthenticateAt ==
    ASSUME Typed, NEW r \in Requests, NEW k \in Credentials, Authenticate(r, k)
    PROVE  At(r, "principal") /\ request'[r].user = cred[k].user /\ cred[k].user \in Users
<1> DEFINE u == cred[k].user
           x == IF k \in Keys THEN "agent" ELSE member[u].role
           q == PrincipalReq(u, k, x)
<1>1. u \in Users
    BY UserFacts DEF Authenticate
<1>2. x \in Roles \cup {"none", "agent"}
    BY <1>1 DEF Typed, Members, NoMember, Member
<1>3. request' = [request EXCEPT ![r] = q]
    BY Zenon DEF Authenticate, Goes, PrincipalReq
<1>4. /\ q \in ReqRow /\ q.stage = "principal" /\ q.user = u
    BY <1>1, <1>2, PrincipalRow
<1> HIDE DEF q
<1>5. At(r, "principal") /\ request'[r] = q
    BY <1>3, <1>4, Written
<1> QED
    BY <1>1, <1>4, <1>5

\* A refresh has found its session.
LEMMA RotateSessionAt ==
    ASSUME Typed, NEW r \in Requests, NEW s \in Sessions, NEW g \in 0..MaxRotations, RotateSession(r, s, g)
    PROVE  /\ At(r, "refresh") /\ request'[r].user = cred[s].user /\ request'[r].of = s /\ request'[r].seen = g
           /\ cred[s].user \in Users
<1> DEFINE q == RefreshReq(cred[s].user, s, g)
<1>1. cred[s].user \in Users
    BY UserFacts DEF RotateSession, Usable, Credentials
<1>2. request' = [request EXCEPT ![r] = q]
    BY Zenon DEF RotateSession, Goes, RefreshReq
<1>3. /\ q \in ReqRow /\ q.stage = "refresh" /\ q.user = cred[s].user /\ q.of = s /\ q.seen = g
    BY <1>1, RefreshRow
<1> HIDE DEF q
<1>4. At(r, "refresh") /\ request'[r] = q
    BY <1>2, <1>3, Written
<1> QED
    BY <1>1, <1>3, <1>4

\* It holds the row it has found.
LEMMA LockSessionAt ==
    ASSUME Typed, NEW r \in Requests, LockSession(r)
    PROVE  /\ At(r, "rotated") /\ request'[r].user = request[r].user
           /\ request'[r].of = request[r].of /\ request'[r].seen = request[r].seen
<1> DEFINE q == LockReq(request[r], "rotated")
<1>1. request' = [request EXCEPT ![r] = q]
    BY Zenon DEF LockSession, Goes, LockReq
<1>2. request[r] \in ReqRow /\ request[r].stage = "refresh"
    BY RequestFacts DEF LockSession
<1>3. /\ q \in ReqRow /\ q.stage = "rotated" /\ q.user = request[r].user
      /\ q.of = request[r].of /\ q.seen = request[r].seen
    BY <1>2, LockRow
<1> HIDE DEF q
<1>4. At(r, "rotated") /\ request'[r] = q
    BY <1>1, <1>3, Written
<1> QED
    BY <1>1, <1>3, <1>4

\* A claim has found its pairing.
LEMMA BeginClaimAt ==
    ASSUME Typed, NEW r \in Requests, NEW p \in Pairings, BeginClaim(r, p)
    PROVE  /\ At(r, "pairing") /\ request'[r].user = pairing[p].user /\ request'[r].of = p
           /\ pairing[p].user \in Users
<1> DEFINE q == ClaimReq(pairing[p].user, p)
<1>1. pairing[p].user \in Users
    BY UserFacts DEF BeginClaim
<1>2. request' = [request EXCEPT ![r] = q]
    BY Zenon DEF BeginClaim, Goes, ClaimReq
<1>3. /\ q \in ReqRow /\ q.stage = "pairing" /\ q.user = pairing[p].user /\ q.of = p
    BY <1>1, ClaimRow
<1> HIDE DEF q
<1>4. At(r, "pairing") /\ request'[r] = q
    BY <1>2, <1>3, Written
<1> QED
    BY <1>1, <1>3, <1>4

\* It holds the pairing it has found.
LEMMA LockPairingAt ==
    ASSUME Typed, NEW r \in Requests, LockPairing(r)
    PROVE  At(r, "claim") /\ request'[r].user = request[r].user /\ request'[r].of = request[r].of
<1> DEFINE q == LockReq(request[r], "claim")
<1>1. request' = [request EXCEPT ![r] = q]
    BY Zenon DEF LockPairing, Goes, LockReq
<1>2. request[r] \in ReqRow /\ request[r].stage = "pairing"
    BY RequestFacts DEF LockPairing
<1>3. /\ q \in ReqRow /\ q.stage = "claim" /\ q.user = request[r].user /\ q.of = request[r].of
    BY <1>2, LockRow
<1> HIDE DEF q
<1>4. At(r, "claim") /\ request'[r] = q
    BY <1>1, <1>3, Written
<1> QED
    BY <1>1, <1>3, <1>4

\* A change of password is the principal's.
LEMMA ReadPasswordAt ==
    ASSUME Typed, NEW r \in Requests, ReadPassword(r)
    PROVE  At(r, "password") /\ request'[r].user = request[r].user
<1> DEFINE m == password[request[r].user]
<1>1. request[r] \in ReqRow /\ request[r].stage = "principal" /\ m \in Nat
    BY RequestFacts DEF ReadPassword, Typed
<1>2. request' = [request EXCEPT ![r] = PasswordReq(request[r], m)]
    BY Zenon DEF ReadPassword, Goes, PasswordReq
<1> HIDE DEF m
<1> QED
    BY <1>1, <1>2, PasswordRow, Written

\* An update has locked the member and decided.
LEMMA BeginUpdateAt ==
    ASSUME Typed, NEW r \in Requests, NEW u \in Users, NEW c \in [role: Roles, status: Statuses],
           BeginUpdate(r, u, c)
    PROVE  /\ At(r, "update") /\ request'[r].user = request[r].user
           /\ request'[r].of = u /\ request'[r].change = c
<1> DEFINE q == UpdateReq(request[r], u, c)
<1>1. request[r] \in ReqRow /\ request[r].stage = "principal"
    BY RequestFacts DEF BeginUpdate, ManagesMembers
<1>2. request' = [request EXCEPT ![r] = q]
    BY Zenon DEF BeginUpdate, Goes, UpdateReq
<1>3. /\ q \in ReqRow /\ q.stage = "update" /\ q.user = request[r].user /\ q.of = u /\ q.change = c
    BY <1>1, UpdateRow
<1> HIDE DEF q
<1>4. At(r, "update") /\ request'[r] = q
    BY <1>2, <1>3, Written
<1> QED
    BY <1>1, <1>3, <1>4

\* The steps after which a request is idle.
Ends(r) ==
    \/ \E s \in Sessions : CreateSession(r, s) \/ FinishClaim(r, s) \/ RevokeDeviceSession(r, s)
    \/ CommitRotation(r)
    \/ \E k \in Keys : CreateKey(r, k) \/ RevokeKey(r, k)
    \/ \E u \in Users, role \in Roles : CreateMember(r, u, role)
    \/ CommitUpdate(r)
    \/ \E p \in Pairings : CreatePairingSession(r, p)
    \/ ChangePassword(r)
    \/ Abandon(r)

\* The steps by which a request goes on; they change nothing else.
GoesOn(r) ==
    \/ \E u \in Users : FindLoginAccount(r, u)
    \/ \E k \in Credentials : Authenticate(r, k)
    \/ \E s \in Sessions, g \in 0..MaxRotations : RotateSession(r, s, g)
    \/ LockSession(r)
    \/ \E u \in Users, c \in [role: Roles, status: Statuses] : BeginUpdate(r, u, c)
    \/ \E p \in Pairings : BeginClaim(r, p)
    \/ LockPairing(r)
    \/ ReadPassword(r)

\* The steps of no request.
Alone ==
    \/ \E s \in Sessions : Logout(s)
    \/ \E k \in Credentials : LapseCredential(k)
    \/ \E p \in Pairings : LapsePairing(p)

\* Every step is one of these.
LEMMA Kinds ==
    ASSUME Next
    PROVE  Alone \/ \E r \in Requests : Ends(r) \/ GoesOn(r)
<1>1. \A role \in Roles, status \in Statuses : Member(role, status) \in [role: Roles, status: Statuses]
    BY DEF Member
<1> QED
    BY <1>1, Zenon DEF Next, Alone, Ends, GoesOn

\* A request that ends is idle.
LEMMA EndsAt ==
    ASSUME Typed, NEW r \in Requests, Ends(r)
    PROVE  At(r, "idle")
<1>1. request' = [request EXCEPT ![r] = Idle]
    BY Zenon DEF Ends, CreateSession, FinishClaim, RevokeDeviceSession, CommitRotation, CreateKey, RevokeKey,
           CreateMember, CommitUpdate, CreatePairingSession, ChangePassword, Abandon, Makes, Done, CutsOff
<1> QED
    BY <1>1, Ended

\* A request that goes on changes no row of the database.
LEMMA GoesOnKeeps ==
    ASSUME NEW r \in Requests, GoesOn(r)
    PROVE  UNCHANGED <<member, password, cred, pairing, exchanged, paired, verified, late, stray>>
BY Zenon DEF GoesOn, FindLoginAccount, Authenticate, RotateSession, LockSession, BeginUpdate, BeginClaim,
       LockPairing, ReadPassword, Goes

\* A request that goes on does not become idle.
LEMMA GoesOnAt ==
    ASSUME Typed, NEW r \in Requests, GoesOn(r)
    PROVE  \E x \in Stages \ {"idle"} : At(r, x)
<1> USE DEF Stages
<1>1. CASE \E u \in Users : FindLoginAccount(r, u)
    BY <1>1, FindLoginAccountAt
<1>2. CASE \E k \in Credentials : Authenticate(r, k)
    BY <1>2, AuthenticateAt
<1>3. CASE \E s \in Sessions, g \in 0..MaxRotations : RotateSession(r, s, g)
    BY <1>3, RotateSessionAt
<1>4. CASE LockSession(r)
    BY <1>4, LockSessionAt
<1>5. CASE \E u \in Users, c \in [role: Roles, status: Statuses] : BeginUpdate(r, u, c)
    BY <1>5, BeginUpdateAt
<1>6. CASE \E p \in Pairings : BeginClaim(r, p)
    BY <1>6, BeginClaimAt
<1>7. CASE LockPairing(r)
    BY <1>7, LockPairingAt
<1>8. CASE ReadPassword(r)
    BY <1>8, ReadPasswordAt
<1> QED
    BY <1>1, <1>2, <1>3, <1>4, <1>5, <1>6, <1>7, <1>8, Zenon DEF GoesOn

----------------------------------------------------------------------------
(* What a step does to a credential. *)

Made(k, u) == /\ cred[k] = NoCredential
              /\ cred'[k] = [user |-> u, state |-> "live", generation |-> 0]
Same(k) == cred'[k].user = cred[k].user /\ cred'[k].generation = cred[k].generation
\* Whoever revokes a session has waited for the refresh that holds it.
Gone(k) == Same(k) /\ cred[k].state # "absent" /\ cred'[k].state = "revoked" /\ SessionsFree({k})
Aged(k) == Same(k) /\ Usable(k) /\ cred'[k].state \in {"lapsed", "expired"}
CredMove(k) == cred'[k] = cred[k] \/ (\E u \in Users : Made(k, u)) \/ Gone(k) \/ Aged(k)
CredsMove == cred' \in [Credentials -> CredRow] /\ \A k \in Credentials : CredMove(k)

\* A new credential replaces none.
LEMMA MakesMove ==
    ASSUME Typed, NEW k \in Credentials, NEW u \in Users, cred[k] = NoCredential, cred' = New(k, u)
    PROVE  CredsMove /\ Made(k, u) /\ \A c \in Credentials \ {k} : cred'[c] = cred[c]
<1>1. /\ cred' \in [Credentials -> CredRow] /\ Made(k, u)
      /\ \A c \in Credentials \ {k} : cred'[c] = cred[c]
    BY NewRow DEF Made
<1> QED
    BY <1>1, Zenon DEF CredsMove, CredMove

\* A set of credentials is revoked when no refresh holds one of them.
LEMMA RevokesMove ==
    ASSUME Typed, NEW K, SessionsFree(K), cred' = Revoked(K)
    PROVE  /\ CredsMove
           /\ \A k \in Credentials \cap K : ~Usable(k)'
           /\ \A k \in Credentials \cap K : cred'[k].state \in {"absent", "revoked"}
<1>1. /\ cred' \in [Credentials -> CredRow]
      /\ \A k \in Credentials :
             /\ Same(k)
             /\ k \notin K => cred'[k] = cred[k]
             /\ k \in K => cred'[k].state \in {"absent", "revoked"}
             /\ cred'[k].state = "absent" <=> cred[k].state = "absent"
             /\ cred[k] = NoCredential => cred'[k] = NoCredential
    BY RevokedRow, Zenon DEF Same
<1>2. \A k \in K : SessionsFree({k})
    BY DEF SessionsFree
<1>3. \A k \in Credentials : cred[k] = NoCredential \/ cred[k].state # "absent"
    BY UserFacts
<1>4. ASSUME NEW k \in Credentials PROVE CredMove(k)
    <2>1. CASE k \notin K
        BY <1>1, <2>1 DEF CredMove
    <2>2. CASE k \in K /\ cred[k] = NoCredential
        BY <1>1, <2>2 DEF CredMove
    <2>3. CASE k \in K /\ cred[k] # NoCredential
        <3>1. cred[k].state # "absent" /\ cred'[k].state = "revoked"
            BY <1>1, <1>3, <2>3
        <3> QED
            BY <1>1, <1>2, <2>3, <3>1 DEF CredMove, Gone
    <2> QED
        BY <2>1, <2>2, <2>3
<1> QED
    BY <1>1, <1>4 DEF CredsMove, Usable

\* A key is held by no refresh.
LEMMA KeysFree ==
    ASSUME Typed, NEW k \in Keys
    PROVE  SessionsFree({k})
BY RequestFacts, AccessAssumption DEF SessionsFree

\* Time wears a credential out.
LEMMA LapseMove ==
    ASSUME Typed, NEW k \in Credentials, LapseCredential(k)
    PROVE  CredsMove
<1> DEFINE x == IF k \in Sessions /\ cred[k].state = "live" THEN "lapsed" ELSE "expired"
           c == [cred[k] EXCEPT !.state = x]
<1>1. x \in {"lapsed", "expired"} /\ cred[k].state \in {"live", "lapsed"}
    BY DEF LapseCredential, Usable
<1>2. cred' = [cred EXCEPT ![k] = c]
    BY Zenon DEF LapseCredential, Typed
<1>3. cred[k] \in CredRow /\ cred[k].user \in Users
    BY <1>1, UserFacts DEF Typed
<1> HIDE DEF x
<1>4. c \in CredRow /\ c.state = x /\ c.user = cred[k].user /\ c.generation = cred[k].generation
    BY <1>1, <1>3 DEF CredRow, CredentialStates
<1> HIDE DEF c
<1>5. cred' \in [Credentials -> CredRow] /\ cred'[k] = c /\ \A d \in Credentials \ {k} : cred'[d] = cred[d]
    BY <1>2, <1>4 DEF Typed
<1>6. Aged(k)
    BY <1>1, <1>4, <1>5 DEF Aged, Same, Usable
<1> QED
    BY <1>5, <1>6 DEF CredsMove, CredMove

Rotated(c, x) == [c EXCEPT !.generation = @ + 1, !.state = x]

\* The row of the next generation of a session.
LEMMA RotatedRow ==
    ASSUME NEW c \in CredRow, c.state # "absent", NEW x \in CredentialStates, x # "absent"
    PROVE  /\ Rotated(c, x) \in CredRow /\ Rotated(c, x).user = c.user
           /\ Rotated(c, x).generation = c.generation + 1 /\ Rotated(c, x).state = x
<1>1. c \in [user: Users \cup {None}, state: CredentialStates, generation: Nat] /\ c.user \in Users
    BY DEF CredRow, NoCredential
<1>2. c.generation + 1 \in Nat
    BY <1>1
<1>3. /\ Rotated(c, x) \in [user: Users \cup {None}, state: CredentialStates, generation: Nat]
      /\ Rotated(c, x).user = c.user /\ Rotated(c, x).generation = c.generation + 1 /\ Rotated(c, x).state = x
    BY <1>1, <1>2, Zenon DEF Rotated
<1> QED
    BY <1>1, <1>3 DEF CredRow

\* A counter that is raised leaves the others alone.
LEMMA Raised ==
    ASSUME NEW S, NEW f \in [S -> Nat], NEW n \in S
    PROVE  /\ [f EXCEPT ![n] = @ + 1] \in [S -> Nat]
           /\ \A m \in S \ {n} : [f EXCEPT ![n] = @ + 1][m] = f[m]
OBVIOUS

\* A refresh that commits moves its session to the next generation.
LEMMA RotationEffect ==
    ASSUME Typed, NEW r \in Requests, CommitRotation(r), cred[request[r].of].state # "absent"
    PROVE  LET s == request[r].of IN
           /\ request[r].stage = "rotated" /\ s \in Sessions /\ request[r].seen \in 0..MaxRotations
           /\ cred' \in [Credentials -> CredRow]
           /\ cred'[s].user = cred[s].user /\ cred'[s].generation = cred[s].generation + 1
           /\ \/ cred'[s].state = cred[s].state
              \/ cred[s].state = "lapsed" /\ cred'[s].state = "live"
           /\ \A k \in Credentials \ {s} : cred'[k] = cred[k]
           /\ exchanged' \in [Sessions -> [0..MaxRotations -> Nat]]
           /\ \A z \in Sessions, g \in 0..MaxRotations :
                 ~(z = s /\ g = request[r].seen) => exchanged'[z][g] = exchanged[z][g]
<1> DEFINE s == request[r].of
           n == request[r].seen
           x == IF cred[s].state = "lapsed" THEN "live" ELSE cred[s].state
           c == Rotated(cred[s], x)
           e == [exchanged[s] EXCEPT ![n] = @ + 1]
<1>1. request[r].stage = "rotated" /\ s \in Sessions /\ n \in 0..MaxRotations /\ s \in Credentials
    BY RequestFacts DEF CommitRotation, Credentials
<1>2. cred[s] \in CredRow /\ cred[s].user \in Users /\ cred[s].state # "absent"
    BY <1>1, UserFacts DEF Typed
<1>3. cred' = [cred EXCEPT ![s] = c]
    BY <1>1, Zenon DEF CommitRotation, Typed, Rotated
<1>4. exchanged' = [exchanged EXCEPT ![s] = e]
    BY Zenon DEF CommitRotation
<1>5. /\ cred[s].state = x \/ (cred[s].state = "lapsed" /\ x = "live")
      /\ x \in CredentialStates /\ x # "absent"
    BY <1>2 DEF CredRow, CredentialStates
<1> HIDE DEF s, n, x
<1>6. c \in CredRow /\ c.user = cred[s].user /\ c.generation = cred[s].generation + 1 /\ c.state = x
    BY <1>2, <1>5, RotatedRow
<1>7. e \in [0..MaxRotations -> Nat] /\ \A g \in 0..MaxRotations \ {n} : e[g] = exchanged[s][g]
    <2>1. exchanged[s] \in [0..MaxRotations -> Nat]
        BY <1>1 DEF Typed
    <2> QED
        BY <1>1, <2>1, Raised
<1> HIDE DEF c, e
<1>8. cred' \in [Credentials -> CredRow] /\ cred'[s] = c /\ \A k \in Credentials \ {s} : cred'[k] = cred[k]
    BY <1>1, <1>3, <1>6 DEF Typed
<1>9. /\ exchanged' \in [Sessions -> [0..MaxRotations -> Nat]] /\ exchanged'[s] = e
      /\ \A z \in Sessions \ {s} : exchanged'[z] = exchanged[z]
    BY <1>1, <1>4, <1>7 DEF Typed
<1>10. \A z \in Sessions, g \in 0..MaxRotations : ~(z = s /\ g = n) => exchanged'[z][g] = exchanged[z][g]
    BY <1>7, <1>9
<1> QED
    BY <1>1, <1>6, <1>5, <1>8, <1>9, <1>10 DEF s, n

\* No other step exchanges a refresh token or writes a credential otherwise.
LEMMA CredStep ==
    ASSUME Typed, Next
    PROVE  \/ CredsMove /\ exchanged' = exchanged
           \/ \E r \in Requests : CommitRotation(r)
<1> SUFFICES ASSUME \A r \in Requests : ~CommitRotation(r)
             PROVE  CredsMove /\ exchanged' = exchanged
    OBVIOUS
<1>0. ASSUME cred' = cred PROVE CredsMove
    BY <1>0 DEF CredsMove, CredMove, Typed
<1>1. ASSUME NEW r \in Requests, Ends(r) PROVE CredsMove /\ exchanged' = exchanged
    <2>0. request[r].stage # "idle" => request[r].user \in Users
        BY RequestFacts
    <2>1. CASE \E s \in Sessions : CreateSession(r, s) \/ FinishClaim(r, s)
        BY <2>0, <2>1, MakesMove DEF CreateSession, FinishClaim, Credentials
    <2>2. CASE \E s \in Sessions : RevokeDeviceSession(r, s)
        BY <2>2, RevokesMove, Zenon DEF RevokeDeviceSession
    <2>3. CASE \E k \in Keys : CreateKey(r, k)
        BY <2>0, <2>3, MakesMove DEF CreateKey, Administers, Credentials
    <2>4. CASE \E k \in Keys : RevokeKey(r, k)
        BY <2>4, RevokesMove, KeysFree, Zenon DEF RevokeKey
    <2>5. CASE \E u \in Users, role \in Roles : CreateMember(r, u, role)
        BY <1>0, <2>5 DEF CreateMember
    <2>6. CASE CommitUpdate(r)
        <3>1. exchanged' = exchanged
            BY <2>6 DEF CommitUpdate
        <3>2. \/ cred' = cred
              \/ SessionsFree(Disabled(request[r].of)) /\ cred' = Revoked(Disabled(request[r].of))
            BY <2>6, Zenon DEF CommitUpdate
        <3> QED
            BY <1>0, <3>1, <3>2, RevokesMove, Zenon
    <2>7. CASE \E p \in Pairings : CreatePairingSession(r, p)
        BY <1>0, <2>7 DEF CreatePairingSession
    <2>8. CASE ChangePassword(r)
        BY <2>8, RevokesMove, Zenon DEF ChangePassword
    <2>9. CASE Abandon(r)
        BY <1>0, <2>9 DEF Abandon
    <2> QED
        BY <1>1, <2>1, <2>2, <2>3, <2>4, <2>5, <2>6, <2>7, <2>8, <2>9, Zenon DEF Ends
<1>2. ASSUME NEW r \in Requests, GoesOn(r) PROVE CredsMove /\ exchanged' = exchanged
    BY <1>0, <1>2, GoesOnKeeps
<1>3. ASSUME Alone PROVE CredsMove /\ exchanged' = exchanged
    <2>1. CASE \E s \in Sessions : Logout(s)
        BY <2>1, RevokesMove, Zenon DEF Logout
    <2>2. CASE \E k \in Credentials : LapseCredential(k)
        BY <2>2, LapseMove, Zenon DEF LapseCredential
    <2>3. CASE \E p \in Pairings : LapsePairing(p)
        BY <1>0, <2>3 DEF LapsePairing
    <2> QED
        BY <1>3, <2>1, <2>2, <2>3 DEF Alone
<1> QED
    BY <1>1, <1>2, <1>3, Kinds

----------------------------------------------------------------------------
(* What a step does to the members and the pairings. *)

\* A member is created or updated, or the members stay.
LEMMA MemberStep ==
    ASSUME Typed, Next
    PROVE  /\ member' \in [Users -> Members]
           /\ \/ member' = member
              \/ \E r \in Requests, u \in Users, role \in Roles : CreateMember(r, u, role)
              \/ \E r \in Requests : CommitUpdate(r)
<1>1. \/ member' = member
      \/ \E r \in Requests, u \in Users, role \in Roles : CreateMember(r, u, role)
      \/ \E r \in Requests : CommitUpdate(r)
    <2>1. ASSUME Alone PROVE member' = member
        BY <2>1 DEF Alone, Logout, LapseCredential, LapsePairing
    <2>2. ASSUME NEW r \in Requests, GoesOn(r) PROVE member' = member
        BY <2>2, GoesOnKeeps
    <2>3. ASSUME NEW r \in Requests, Ends(r)
          PROVE  \/ member' = member
                 \/ \E u \in Users, role \in Roles : CreateMember(r, u, role)
                 \/ CommitUpdate(r)
        BY <2>3, Zenon DEF Ends, CreateSession, FinishClaim, RevokeDeviceSession, CommitRotation, CreateKey,
               RevokeKey, CreatePairingSession, ChangePassword, Abandon
    <2> QED
        BY <2>1, <2>2, <2>3, Kinds, Zenon
<1>2. ASSUME NEW r \in Requests, NEW u \in Users, NEW role \in Roles, CreateMember(r, u, role)
      PROVE  member' \in [Users -> Members]
    <2>1. Member(role, "active") \in Members
        BY DEF Member, Members, Statuses
    <2> QED
        BY <1>2, <2>1 DEF CreateMember, Typed
<1>3. ASSUME NEW r \in Requests, CommitUpdate(r)
      PROVE  member' \in [Users -> Members]
    <2>1. request[r].of \in Users /\ request[r].change \in Members
        BY <1>3, RequestFacts DEF CommitUpdate, Members
    <2>2. member' = [member EXCEPT ![request[r].of] = request[r].change]
        BY <1>3, Zenon DEF CommitUpdate
    <2> QED
        BY <2>1, <2>2 DEF Typed
<1> QED
    BY <1>1, <1>2, <1>3 DEF Typed

\* A password changes, or the passwords stay; a session is logged in with a hash
\* that was read.
LEMMA PasswordStep ==
    ASSUME Typed, Next
    PROVE  /\ password' \in [Users -> Nat] /\ verified' \in [Sessions -> Nat \cup {None}]
           /\ password' = password \/ \E r \in Requests : ChangePassword(r)
           /\ verified' = verified \/ \E r \in Requests, s \in Sessions : CreateSession(r, s)
<1>1. /\ password' = password \/ \E r \in Requests : ChangePassword(r)
      /\ verified' = verified \/ \E r \in Requests, s \in Sessions : CreateSession(r, s)
    <2>1. ASSUME Alone PROVE password' = password /\ verified' = verified
        BY <2>1 DEF Alone, Logout, LapseCredential, LapsePairing
    <2>2. ASSUME NEW r \in Requests, GoesOn(r) PROVE password' = password /\ verified' = verified
        BY <2>2, GoesOnKeeps
    <2>3. ASSUME NEW r \in Requests, Ends(r)
          PROVE  /\ password' = password \/ ChangePassword(r)
                 /\ verified' = verified \/ \E s \in Sessions : CreateSession(r, s)
        BY <2>3, Zenon DEF Ends, CreateSession, FinishClaim, RevokeDeviceSession, CommitRotation, CreateKey,
               RevokeKey, CreateMember, CommitUpdate, CreatePairingSession, ChangePassword, Abandon
    <2> QED
        BY <2>1, <2>2, <2>3, Kinds, Zenon
<1>2. ASSUME NEW r \in Requests, ChangePassword(r) PROVE password' \in [Users -> Nat]
    BY <1>2, RequestFacts DEF ChangePassword, Typed
<1>3. ASSUME NEW r \in Requests, NEW s \in Sessions, CreateSession(r, s)
      PROVE  verified' \in [Sessions -> Nat \cup {None}]
    <2>1. request[r].seen \in Nat
        BY RequestFacts DEF ReqRow
    <2> QED
        BY <1>3, <2>1 DEF CreateSession, Typed
<1> QED
    BY <1>1, <1>2, <1>3 DEF Typed

\* A pairing is created.
LEMMA CreatePairingEffect ==
    ASSUME Typed, NEW r \in Requests, NEW p \in Pairings, CreatePairingSession(r, p)
    PROVE  LET u == request[r].user IN
           /\ u \in Users /\ pairing' \in [Pairings -> PairRow]
           /\ pairing[p] = NoPairing /\ pairing'[p].user = u /\ pairing'[p].state = "open"
           /\ \A q \in Unclaimed(u) : PairingFree(q) /\ pairing'[q].user = u /\ pairing'[q].state = "revoked"
           /\ \A q \in Pairings \ ({p} \cup Unclaimed(u)) : pairing'[q] = pairing[q]
           /\ paired' = paired
<1> DEFINE u == request[r].user
<1>1. u \in Users /\ pairing[p] = NoPairing /\ paired' = paired /\ \A q \in Unclaimed(u) : PairingFree(q)
    BY RequestFacts DEF CreatePairingSession
<1>2. pairing' = [Superseded(u) EXCEPT ![p] = [user |-> u, state |-> "open"]]
    BY DEF CreatePairingSession
<1> HIDE DEF u
<1>3. \A q \in Unclaimed(u) : q \in Pairings /\ q # p /\ pairing[q].user = u /\ pairing[q] \in PairRow
    BY <1>1 DEF Unclaimed, NoPairing, Typed
<1>4. ASSUME NEW c \in PairRow, c.user \in Users
      PROVE  LET d == [c EXCEPT !.state = "revoked"]
             IN  d \in PairRow /\ d.user = c.user /\ d.state = "revoked"
    BY <1>4 DEF PairRow
<1>5. /\ Superseded(u) \in [Pairings -> PairRow]
      /\ \A q \in Unclaimed(u) : Superseded(u)[q].user = u /\ Superseded(u)[q].state = "revoked"
      /\ \A q \in Pairings \ Unclaimed(u) : Superseded(u)[q] = pairing[q]
    BY <1>1, <1>3, <1>4 DEF Superseded, Typed
<1>6. [user |-> u, state |-> "open"] \in PairRow
    BY <1>1 DEF PairRow
<1>7. /\ pairing' \in [Pairings -> PairRow] /\ pairing'[p].user = u /\ pairing'[p].state = "open"
      /\ \A q \in Pairings \ {p} : pairing'[q] = Superseded(u)[q]
    BY <1>2, <1>5, <1>6
<1> QED
    BY <1>1, <1>3, <1>5, <1>7 DEF u

\* The state of one pairing is written.
LEMMA PairingWritten ==
    ASSUME Typed, NEW p \in Pairings, pairing[p].user \in Users, NEW x \in {"claimed", "expired"},
           pairing' = [pairing EXCEPT ![p].state = x]
    PROVE  /\ pairing' \in [Pairings -> PairRow] /\ pairing'[p].user = pairing[p].user /\ pairing'[p].state = x
           /\ \A q \in Pairings \ {p} : pairing'[q] = pairing[q]
<1>1. pairing[p] \in PairRow
    BY DEF Typed
<1>2. LET d == [pairing[p] EXCEPT !.state = x]
      IN  d \in PairRow /\ d.user = pairing[p].user /\ d.state = x
    BY <1>1 DEF PairRow
<1> QED
    BY <1>2 DEF Typed

\* A pairing is claimed.
LEMMA FinishClaimEffect ==
    ASSUME Typed, NEW r \in Requests, NEW s \in Sessions, FinishClaim(r, s), pairing[request[r].of].user \in Users
    PROVE  LET p == request[r].of IN
           /\ request[r].stage = "claim" /\ p \in Pairings /\ pairing' \in [Pairings -> PairRow]
           /\ pairing'[p].user = pairing[p].user /\ pairing'[p].state = "claimed"
           /\ \A q \in Pairings \ {p} : pairing'[q] = pairing[q] /\ paired'[q] = paired[q]
           /\ paired' \in [Pairings -> SUBSET Sessions] /\ paired'[p] = paired[p] \cup {s}
<1>1. request[r].stage = "claim" /\ request[r].of \in Pairings
    BY RequestFacts DEF FinishClaim
<1>2. pairing' = [pairing EXCEPT ![request[r].of].state = "claimed"]
    BY DEF FinishClaim, Consumed
<1>3. paired' = [paired EXCEPT ![request[r].of] = @ \cup {s}]
    BY DEF FinishClaim
<1>4. /\ paired' \in [Pairings -> SUBSET Sessions] /\ paired'[request[r].of] = paired[request[r].of] \cup {s}
      /\ \A q \in Pairings \ {request[r].of} : paired'[q] = paired[q]
    BY <1>1, <1>3 DEF Typed
<1> QED
    BY <1>1, <1>2, <1>4, PairingWritten

\* The steps that write pairings.
LEMMA PairingStep ==
    ASSUME Typed, Next
    PROVE  \/ pairing' = pairing /\ paired' = paired
           \/ \E r \in Requests, p \in Pairings : CreatePairingSession(r, p)
           \/ \E r \in Requests, s \in Sessions : FinishClaim(r, s)
           \/ \E p \in Pairings : LapsePairing(p)
<1>1. ASSUME Alone PROVE (pairing' = pairing /\ paired' = paired) \/ \E p \in Pairings : LapsePairing(p)
    BY <1>1, Zenon DEF Alone, Logout, LapseCredential
<1>2. ASSUME NEW r \in Requests, GoesOn(r) PROVE pairing' = pairing /\ paired' = paired
    BY <1>2, GoesOnKeeps
<1>3. ASSUME NEW r \in Requests, Ends(r)
      PROVE  \/ pairing' = pairing /\ paired' = paired
             \/ \E p \in Pairings : CreatePairingSession(r, p)
             \/ \E s \in Sessions : FinishClaim(r, s)
    BY <1>3, Zenon DEF Ends, CreateSession, RevokeDeviceSession, CommitRotation, CreateKey,
           RevokeKey, CreateMember, CommitUpdate, ChangePassword, Abandon
<1> QED
    BY <1>1, <1>2, <1>3, Kinds, Zenon

\* The rows requests write are typed.
LEMMA RequestStep ==
    ASSUME Typed, Next
    PROVE  request' \in [Requests -> ReqRow]
<1>1. ASSUME Alone PROVE request' = request
    BY <1>1 DEF Alone, Logout, LapseCredential, LapsePairing
<1> QED
    BY <1>1, Kinds, EndsAt, GoesOnAt DEF At, Typed

----------------------------------------------------------------------------
(* The invariant. *)

\* One update at a time has locked the workspace, and the owners it has counted are there.
Decided ==
    \A r \in Requests : request[r].stage = "update" =>
        /\ KeepsAnOwner(request[r].of, request[r].change)
        /\ \A q \in Requests : request[q].stage = "update" => q = r

\* What a refresh has found: a session whose user is active, unless it was revoked since.
\* It holds the session alone and not revoked, with the token it presents; tokens of
\* later generations have not been exchanged.
InForce ==
    /\ \A r \in Requests : request[r].stage \in {"refresh", "rotated"} =>
          /\ cred[request[r].of].state # "absent"
          /\ cred[request[r].of].state = "revoked" \/ Active(cred[request[r].of].user)
    /\ \A r \in Requests : request[r].stage = "rotated" =>
          /\ cred[request[r].of].state # "revoked" /\ cred[request[r].of].generation = request[r].seen
          /\ \A q \in Requests : request[q].stage = "rotated" /\ request[q].of = request[r].of => q = r
    /\ \A s \in Sessions, g \in 0..MaxRotations : g >= cred[s].generation => exchanged[s][g] = 0

\* A claim holds its pairing alone and unclaimed; a pairing that was not claimed has
\* made no session, one that was has made one, and a user has one pairing open.
OnceClaimed ==
    /\ \A r \in Requests : request[r].stage \in {"pairing", "claim"} =>
          pairing[request[r].of].user = request[r].user
    /\ \A r \in Requests : request[r].stage = "claim" =>
          /\ pairing[request[r].of].state \in {"open", "expired"}
          /\ \A q \in Requests : request[q].stage = "claim" /\ request[q].of = request[r].of => q = r
    /\ \A p \in Pairings : /\ pairing[p].state # "claimed" => paired[p] = {}
                           /\ \A s, z \in paired[p] : s = z
    /\ \A p, q \in Pairings :
          pairing[p].state = "open" /\ pairing[q].state = "open" /\ pairing[p].user = pairing[q].user => p = q

\* What a request that is not late has found is still so.
Timely ==
    /\ \A r \in Requests \ late : request[r].stage # "idle" =>
          /\ Active(request[r].user)
          /\ request[r].stage = "login" => request[r].seen = password[request[r].user]
    /\ \A s \in Sessions : cred[s] = NoCredential => verified[s] = None

AccessInv == Typed /\ SomeOwner /\ Decided /\ InForce /\ OnceClaimed /\ Timely /\ OnlyStraysSurvive

\* The rows stay typed: a refresh holds a session, and a claim a pairing, that exists.
LEMMA TypedStep ==
    ASSUME AccessInv, Next
    PROVE  Typed'
<1>0. Typed
    BY DEF AccessInv
<1>1. cred' \in [Credentials -> CredRow] /\ exchanged' \in [Sessions -> [0..MaxRotations -> Nat]]
    <2>1. ASSUME NEW r \in Requests, CommitRotation(r) PROVE cred[request[r].of].state # "absent"
        BY <2>1 DEF CommitRotation, AccessInv, InForce
    <2> QED
        BY <1>0, <2>1, CredStep, RotationEffect DEF CredsMove, Typed
<1>2. pairing' \in [Pairings -> PairRow] /\ paired' \in [Pairings -> SUBSET Sessions]
    <2>1. ASSUME NEW r \in Requests, NEW p \in Pairings, CreatePairingSession(r, p)
          PROVE  pairing' \in [Pairings -> PairRow] /\ paired' = paired
        BY <1>0, <2>1, CreatePairingEffect
    <2>2. ASSUME NEW r \in Requests, NEW s \in Sessions, FinishClaim(r, s)
          PROVE  pairing' \in [Pairings -> PairRow] /\ paired' \in [Pairings -> SUBSET Sessions]
        <3>1. pairing[request[r].of].user \in Users
            BY <1>0, <2>2, RequestFacts DEF FinishClaim, AccessInv, OnceClaimed
        <3> QED
            BY <1>0, <2>2, <3>1, FinishClaimEffect
    <2>3. ASSUME NEW p \in Pairings, LapsePairing(p)
          PROVE  pairing' \in [Pairings -> PairRow] /\ paired' = paired
        <3>1. pairing[p].user \in Users
            BY <1>0, <2>3, UserFacts DEF LapsePairing
        <3> QED
            BY <1>0, <2>3, <3>1, PairingWritten DEF LapsePairing
    <2> QED
        BY <1>0, <2>1, <2>2, <2>3, PairingStep DEF Typed
<1> QED
    BY <1>0, <1>1, <1>2, MemberStep, PasswordStep, RequestStep DEF Typed

\* How a request got where it is after a step.
LEMMA Arrival ==
    ASSUME Typed, Next, NEW q \in Requests
    PROVE  \/ request'[q] = request[q]
           \/ request'[q].stage = "idle" /\ Ends(q)
           \/ \E u \in Users : FindLoginAccount(q, u) /\ request'[q].stage = "login"
           \/ \E k \in Credentials : Authenticate(q, k) /\ request'[q].stage = "principal"
           \/ \E s \in Sessions, g \in 0..MaxRotations : RotateSession(q, s, g) /\ request'[q].stage = "refresh"
           \/ LockSession(q) /\ request'[q].stage = "rotated"
           \/ \E u \in Users, c \in [role: Roles, status: Statuses] :
                 BeginUpdate(q, u, c) /\ request'[q].stage = "update"
           \/ \E p \in Pairings : BeginClaim(q, p) /\ request'[q].stage = "pairing"
           \/ LockPairing(q) /\ request'[q].stage = "claim"
           \/ ReadPassword(q) /\ request'[q].stage = "password"
<1>1. CASE Alone
    BY <1>1 DEF Alone, Logout, LapseCredential, LapsePairing
<1>2. ASSUME NEW r \in Requests, r # q, Ends(r) \/ GoesOn(r) PROVE request'[q] = request[q]
    BY <1>2, EndsAt, GoesOnAt DEF At
<1>3. CASE Ends(q)
    BY <1>3, EndsAt DEF At
<1>4. CASE GoesOn(q)
    BY <1>4, FindLoginAccountAt, AuthenticateAt, RotateSessionAt, LockSessionAt, BeginUpdateAt, BeginClaimAt,
       LockPairingAt, ReadPasswordAt, Zenon DEF GoesOn, At
<1> QED
    BY <1>1, <1>2, <1>3, <1>4, Kinds, Zenon

\* No two requests step at once.
LEMMA OthersWait ==
    ASSUME Typed, NEW r \in Requests, Ends(r) \/ GoesOn(r), NEW q \in Requests, q # r
    PROVE  request'[q] = request[q]
BY EndsAt, GoesOnAt DEF At
=============================================================================

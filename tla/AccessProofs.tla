---------------------------- MODULE AccessProofs ----------------------------
(***************************************************************************)
(* Theorems about Access, for any users, sessions, keys, pairings and      *)
(* requests: an owner remains, a refresh token is exchanged once and only  *)
(* for a session in force, a pairing makes one session, and only what a    *)
(* request in flight made survives a revocation.                           *)
(***************************************************************************)
EXTENDS AccessSteps

----------------------------------------------------------------------------
(* A refresh token is exchanged once. *)

\* A user ceases to be active only by an update that revokes all the user has.
LEMMA DisabledBy ==
    ASSUME Typed, Next, NEW u \in Users, Active(u), ~Active(u)'
    PROVE  \E r \in Requests : /\ CommitUpdate(r) /\ CutsOff(r, u)
                                /\ SessionsFree(Disabled(u)) /\ cred' = Revoked(Disabled(u))
<1>1. ~(member' = member)
    BY DEF Active
<1>2. ASSUME NEW r \in Requests, NEW v \in Users, NEW role \in Roles, CreateMember(r, v, role) PROVE FALSE
    <2>1. member' = [member EXCEPT ![v] = Member(role, "active")] /\ Member(role, "active").status = "active"
        BY <1>2 DEF CreateMember, Member
    <2> QED
        BY <2>1 DEF Active, Typed
<1>3. PICK r \in Requests : CommitUpdate(r)
    BY <1>1, <1>2, MemberStep
<1> DEFINE v == request[r].of
           new == request[r].change
<1>4. v \in Users /\ new.status \in Statuses
    BY <1>3, RequestFacts DEF CommitUpdate
<1>5. /\ member' = [member EXCEPT ![v] = new]
      /\ Active(v) /\ new.status = "disabled" =>
             CutsOff(r, v) /\ SessionsFree(Disabled(v)) /\ cred' = Revoked(Disabled(v))
    BY <1>3, Zenon DEF CommitUpdate
<1> HIDE DEF v, new
<1>6. v = u /\ new.status = "disabled"
    BY <1>4, <1>5 DEF Active, Typed, Statuses
<1> QED
    BY <1>3, <1>5, <1>6, Zenon

\* What a user had who is no longer active is revoked.
LEMMA RevokedWith ==
    ASSUME Typed, Next, NEW k \in Credentials, NEW u \in Users, cred[k].user = u, Active(u), ~Active(u)'
    PROVE  CredsMove /\ cred'[k].state \in {"absent", "revoked"}
<1>1. SessionsFree(Disabled(u)) /\ cred' = Revoked(Disabled(u))
    BY DisabledBy
<1>2. k \in Disabled(u)
    BY DEF Disabled, Of
<1> QED
    BY <1>1, <1>2, RevokesMove

\* A credential that exists goes on existing, with its user.
LEMMA MoveFacts ==
    ASSUME Typed, NEW k \in Credentials, CredMove(k), cred[k].state # "absent"
    PROVE  /\ cred'[k].state # "absent" /\ cred'[k].user = cred[k].user /\ cred[k].user \in Users
           /\ cred'[k].generation = cred[k].generation
           /\ cred[k].state = "revoked" => cred'[k].state = "revoked"
           /\ cred'[k].state = "revoked" => cred[k].state = "revoked" \/ SessionsFree({k})
<1>1. cred[k] # NoCredential /\ cred[k].user \in Users
    BY UserFacts
<1> QED
    BY <1>1 DEF CredMove, Made, Gone, Aged, Same, Usable

\* What a refresh has found is revoked or remains in force, and what it holds is not
\* revoked; a refresh that commits raises the generation of the session it holds.
LEMMA InForceStep ==
    ASSUME AccessInv, Next
    PROVE  InForce'
<1>0. Typed /\ InForce /\ Sessions \subseteq Credentials
    BY DEF AccessInv, Credentials
<1>1. CASE CredsMove /\ exchanged' = exchanged
    <2>1. ASSUME NEW r \in Requests, request'[r] = request[r], request[r].stage \in {"refresh", "rotated"}
          PROVE  LET s == request[r].of IN
                 /\ s \in Sessions /\ cred'[s].state # "absent"
                 /\ cred'[s].state = "revoked" \/ member'[cred'[s].user].status = "active"
                 /\ request[r].stage = "rotated" => /\ cred'[s].state # "revoked"
                                                   /\ cred'[s].generation = request[r].seen
        <3> DEFINE s == request[r].of
                   u == cred[s].user
        <3>1. s \in Sessions /\ s \in Credentials
            BY <1>0, <2>1, RequestFacts
        <3>2. /\ cred[s].state # "absent"
              /\ cred[s].state = "revoked" \/ Active(u)
              /\ request[r].stage = "rotated" => /\ cred[s].state # "revoked" /\ cred[s].generation = request[r].seen
                                                /\ ~SessionsFree({s})
            BY <1>0, <2>1 DEF InForce, SessionsFree
        <3> HIDE DEF s
        <3>3. /\ cred'[s].state # "absent" /\ cred'[s].user = u /\ u \in Users
              /\ cred'[s].generation = cred[s].generation
              /\ cred[s].state = "revoked" => cred'[s].state = "revoked"
              /\ cred'[s].state = "revoked" => cred[s].state = "revoked" \/ SessionsFree({s})
            BY <1>0, <1>1, <3>1, <3>2, MoveFacts DEF CredsMove
        <3>4. cred'[s].state = "revoked" \/ member'[u].status = "active"
            <4>1. ASSUME NEW v \in Users, v = u, Active(v), ~Active(v)' PROVE cred'[s].state = "revoked"
                BY <1>0, <3>1, <3>3, <4>1, RevokedWith
            <4> QED
                BY <3>2, <3>3, <4>1 DEF Active
        <3> QED
            BY <3>1, <3>2, <3>3, <3>4 DEF s
    <2>2. ASSUME NEW s \in Sessions, NEW g \in 0..MaxRotations, g >= cred'[s].generation
          PROVE  exchanged'[s][g] = 0
        <3>1. cred'[s].generation = cred[s].generation
            <4>1. CredMove(s) /\ NoCredential.generation = 0
                BY <1>0, <1>1, UserFacts DEF CredsMove
            <4>2. ASSUME NEW u \in Users, Made(s, u) PROVE cred'[s].generation = 0 /\ cred[s].generation = 0
                BY <4>1, <4>2 DEF Made
            <4>3. (cred'[s] = cred[s]) \/ (\E u \in Users : Made(s, u)) \/ Same(s)
                BY <4>1, Zenon DEF CredMove, Gone, Aged
            <4> QED
                BY <4>2, <4>3, Zenon DEF Same
        <3> QED
            BY <1>0, <1>1, <2>2, <3>1 DEF InForce
    <2>3. ASSUME NEW r \in Requests, request'[r].stage \in {"refresh", "rotated"}
          PROVE  /\ cred'[request'[r].of].state # "absent"
                 /\ \/ cred'[request'[r].of].state = "revoked"
                    \/ member'[cred'[request'[r].of].user].status = "active"
        <3>1. CASE request'[r] = request[r]
            BY <2>1, <2>3, <3>1
        <3>2. CASE \E s \in Sessions, g \in 0..MaxRotations : RotateSession(r, s, g)
            <4>1. PICK s \in Sessions, g \in 0..MaxRotations : RotateSession(r, s, g)
                BY <3>2
            <4>2. request'[r].of = s /\ cred' = cred /\ member' = member
                BY <1>0, <4>1, RotateSessionAt DEF RotateSession
            <4> QED
                BY <4>1, <4>2 DEF RotateSession, Usable, Active
        <3>3. CASE LockSession(r)
            <4>1. request'[r].of = request[r].of /\ cred' = cred /\ member' = member
                BY <1>0, <3>3, LockSessionAt DEF LockSession
            <4> QED
                BY <1>0, <3>3, <4>1 DEF LockSession, InForce, Active
        <3> QED
            BY <1>0, <2>3, <3>1, <3>2, <3>3, Arrival
    <2>4. ASSUME NEW r \in Requests, request'[r].stage = "rotated"
          PROVE  /\ cred'[request'[r].of].state # "revoked" /\ cred'[request'[r].of].generation = request'[r].seen
                 /\ \A q \in Requests : request'[q].stage = "rotated" /\ request'[q].of = request'[r].of => q = r
        <3>1. ASSUME NEW q \in Requests, LockSession(q)
              PROVE  /\ request'[q].of = request[q].of /\ request'[q].seen = request[q].seen
                     /\ cred' = cred /\ Matches(request[q].of, request[q].seen) /\ SessionsFree({request[q].of})
                     /\ \A x \in Requests \ {q} : request'[x] = request[x]
            BY <1>0, <3>1, LockSessionAt DEF LockSession, At
        <3>2. \A q \in Requests : request'[q].stage = "rotated" => request'[q] = request[q] \/ LockSession(q)
            BY <1>0, Arrival
        <3>3. /\ cred'[request'[r].of].state # "revoked" /\ cred'[request'[r].of].generation = request'[r].seen
            BY <2>1, <2>4, <3>1, <3>2 DEF Matches
        <3>4. ASSUME NEW q \in Requests, request'[q].stage = "rotated", request'[q].of = request'[r].of PROVE q = r
            <4>1. CASE request'[r] = request[r] /\ request'[q] = request[q]
                BY <1>0, <2>4, <3>4, <4>1 DEF InForce
            <4>2. CASE LockSession(r) /\ q # r
                BY <2>4, <3>1, <3>4, <4>2 DEF SessionsFree
            <4>3. CASE LockSession(q) /\ q # r
                BY <2>4, <3>1, <3>4, <4>3 DEF SessionsFree
            <4> QED
                BY <2>4, <3>2, <3>4, <4>1, <4>2, <4>3
        <3> QED
            BY <3>3, <3>4
    <2> QED
        BY <2>2, <2>3, <2>4 DEF InForce, Active
<1>2. ASSUME NEW q \in Requests, CommitRotation(q) PROVE InForce'
    <2> DEFINE s == request[q].of
               n == request[q].seen
    <2>1. request[q].stage = "rotated" /\ cred[s].state # "absent" /\ cred[s].generation = n
        BY <1>0, <1>2 DEF CommitRotation, InForce
    <2>2. /\ s \in Sessions /\ n \in 0..MaxRotations
          /\ cred'[s].user = cred[s].user /\ cred'[s].generation = cred[s].generation + 1
          /\ cred'[s].state = cred[s].state \/ (cred[s].state = "lapsed" /\ cred'[s].state = "live")
          /\ \A k \in Credentials \ {s} : cred'[k] = cred[k]
          /\ \A z \in Sessions, g \in 0..MaxRotations : ~(z = s /\ g = n) => exchanged'[z][g] = exchanged[z][g]
        BY <1>0, <1>2, <2>1, RotationEffect
    <2>3. Ends(q) /\ member' = member
        BY <1>2 DEF Ends, CommitRotation
    <2>4. request'[q].stage = "idle" /\ \A x \in Requests \ {q} : request'[x] = request[x]
        BY <1>0, <2>3, EndsAt DEF At
    <2>5. \A r \in Requests \ {q} : request[r].stage = "rotated" => request[r].of # s
        BY <1>0, <2>1 DEF InForce
    <2>6. \A r \in Requests : request[r].stage \in {"refresh", "rotated"} =>
              request[r].of \in Sessions /\ request[r].of \in Credentials
        BY <1>0, RequestFacts
    <2> HIDE DEF s, n
    <2>7. ASSUME NEW z \in Sessions, NEW g \in 0..MaxRotations, g >= cred'[z].generation
          PROVE  exchanged'[z][g] = 0
        <3>1. cred[z].generation \in Nat /\ n \in Nat /\ g \in Nat
            BY <1>0, <2>2, AccessAssumption DEF Typed, CredRow
        <3>2. ~(z = s /\ g = n) /\ g >= cred[z].generation
            BY <1>0, <2>1, <2>2, <2>7, <3>1
        <3> QED
            BY <1>0, <2>2, <3>2 DEF InForce
    <2>8. ASSUME NEW r \in Requests, request'[r].stage \in {"refresh", "rotated"}
          PROVE  /\ cred'[request'[r].of].state # "absent"
                 /\ \/ cred'[request'[r].of].state = "revoked"
                    \/ member'[cred'[request'[r].of].user].status = "active"
        BY <1>0, <2>2, <2>3, <2>4, <2>6, <2>8 DEF InForce, Active
    <2>9. ASSUME NEW r \in Requests, request'[r].stage = "rotated"
          PROVE  /\ cred'[request'[r].of].state # "revoked" /\ cred'[request'[r].of].generation = request'[r].seen
                 /\ \A x \in Requests : request'[x].stage = "rotated" /\ request'[x].of = request'[r].of => x = r
        BY <1>0, <2>2, <2>4, <2>5, <2>6, <2>9 DEF InForce
    <2> QED
        BY <2>7, <2>8, <2>9 DEF InForce, Active
<1> QED
    BY <1>0, <1>1, <1>2, CredStep

----------------------------------------------------------------------------
(* A pairing makes one session. *)

\* A claim that holds a pairing keeps it from being revoked or claimed by others.
LEMMA OnceClaimedStep ==
    ASSUME AccessInv, Next
    PROVE  OnceClaimed'
<1>0. Typed /\ OnceClaimed
    BY DEF AccessInv
<1>1. \A r \in Requests : request[r].stage \in {"pairing", "claim"} =>
          /\ request[r].of \in Pairings /\ request[r].user \in Users
          /\ pairing[request[r].of].user = request[r].user
    BY <1>0, RequestFacts DEF OnceClaimed
<1>2. NoPairing.state = "absent" /\ NoPairing.user \notin Users
    BY AccessAssumption DEF NoPairing
<1>3. CASE pairing' = pairing /\ paired' = paired
    <2>1. ASSUME NEW r \in Requests, LockPairing(r)
          PROVE  /\ request[r].stage = "pairing" /\ request'[r].user = request[r].user
                 /\ request'[r].of = request[r].of /\ PairingFree(request[r].of)
                 /\ pairing[request[r].of].state \in {"open", "expired"}
                 /\ \A x \in Requests \ {r} : request'[x] = request[x]
        BY <1>0, <2>1, LockPairingAt DEF LockPairing, Unclaimed, At
    <2>2. ASSUME NEW r \in Requests, NEW p \in Pairings, BeginClaim(r, p)
          PROVE  request'[r].user = pairing[p].user /\ request'[r].of = p
        BY <1>0, <2>2, BeginClaimAt
    <2>3. ASSUME NEW r \in Requests, request'[r].stage \in {"pairing", "claim"}
          PROVE  pairing[request'[r].of].user = request'[r].user
        <3>1. request'[r] = request[r] \/ LockPairing(r) \/ \E p \in Pairings : BeginClaim(r, p)
            BY <1>0, <2>3, Arrival
        <3> QED
            BY <1>1, <2>1, <2>2, <2>3, <3>1
    <2>4. \A q \in Requests : request'[q].stage = "claim" => request'[q] = request[q] \/ LockPairing(q)
        BY <1>0, Arrival
    <2>5. ASSUME NEW r \in Requests, request'[r].stage = "claim"
          PROVE  /\ pairing[request'[r].of].state \in {"open", "expired"}
                 /\ \A q \in Requests : request'[q].stage = "claim" /\ request'[q].of = request'[r].of => q = r
        <3>1. pairing[request'[r].of].state \in {"open", "expired"}
            BY <1>0, <2>1, <2>4, <2>5 DEF OnceClaimed
        <3>2. ASSUME NEW q \in Requests, request'[q].stage = "claim", request'[q].of = request'[r].of PROVE q = r
            <4>1. CASE request'[r] = request[r] /\ request'[q] = request[q]
                BY <1>0, <2>5, <3>2, <4>1 DEF OnceClaimed
            <4>2. CASE LockPairing(r) /\ q # r
                BY <2>1, <2>5, <3>2, <4>2 DEF PairingFree
            <4>3. CASE LockPairing(q) /\ q # r
                BY <2>1, <2>5, <3>2, <4>3 DEF PairingFree
            <4> QED
                BY <2>4, <2>5, <3>2, <4>1, <4>2, <4>3
        <3> QED
            BY <3>1, <3>2
    <2> QED
        BY <1>0, <1>3, <2>3, <2>5 DEF OnceClaimed
<1>4. ASSUME NEW r \in Requests, NEW p \in Pairings, CreatePairingSession(r, p) PROVE OnceClaimed'
    <2> DEFINE u == request[r].user
    <2>1. /\ u \in Users /\ pairing[p] = NoPairing /\ pairing'[p].user = u /\ pairing'[p].state = "open"
          /\ \A q \in Unclaimed(u) : PairingFree(q) /\ pairing'[q].user = u /\ pairing'[q].state = "revoked"
          /\ \A q \in Pairings \ ({p} \cup Unclaimed(u)) : pairing'[q] = pairing[q]
          /\ paired' = paired
        BY <1>0, <1>4, CreatePairingEffect
    <2>2. Ends(r)
        BY <1>4 DEF Ends
    <2>3. request'[r].stage = "idle" /\ \A x \in Requests \ {r} : request'[x] = request[x]
        BY <1>0, <2>2, EndsAt DEF At
    <2> HIDE DEF u
    <2>4. \A q \in Pairings : q \in Unclaimed(u) <=> pairing[q].user = u /\ pairing[q].state \in {"open", "expired"}
        BY DEF Unclaimed
    <2>5. ASSUME NEW q \in Requests, request'[q].stage \in {"pairing", "claim"}
          PROVE  /\ request'[q] = request[q] /\ pairing'[request'[q].of].user = request'[q].user
                 /\ request'[q].stage = "claim" => pairing'[request'[q].of] = pairing[request[q].of]
        <3>1. request'[q] = request[q]
            BY <2>3, <2>5
        <3>2. request[q].of # p
            BY <1>1, <1>2, <2>1, <2>5, <3>1
        <3>3. request[q].stage = "claim" => request[q].of \notin Unclaimed(u)
            BY <2>1 DEF PairingFree
        <3>4. request[q].of \in Pairings /\ pairing[request[q].of].user = request[q].user
            BY <1>1, <2>5, <3>1
        <3>5. request[q].of \notin Unclaimed(u) => pairing'[request[q].of] = pairing[request[q].of]
            BY <2>1, <3>2, <3>4
        <3>6. request[q].of \in Unclaimed(u) => pairing'[request[q].of].user = pairing[request[q].of].user
            BY <2>1, <2>4, <3>4
        <3> QED
            BY <3>1, <3>3, <3>4, <3>5, <3>6
    <2>6. ASSUME NEW q \in Pairings
          PROVE  /\ pairing'[q].state # "claimed" => paired[q] = {}
                 /\ \A s, z \in paired[q] : s = z
        BY <1>0, <1>2, <2>1, <2>4 DEF OnceClaimed
    <2>7. ASSUME NEW x \in Pairings, NEW y \in Pairings, pairing'[x].state = "open", pairing'[y].state = "open",
                 pairing'[x].user = pairing'[y].user
          PROVE  x = y
        BY <1>0, <2>1, <2>4, <2>7 DEF OnceClaimed
    <2>8. ASSUME NEW q \in Requests, request'[q].stage = "claim"
          PROVE  /\ pairing'[request'[q].of].state \in {"open", "expired"}
                 /\ \A x \in Requests : request'[x].stage = "claim" /\ request'[x].of = request'[q].of => x = q
        BY <1>0, <2>5, <2>8 DEF OnceClaimed
    <2> QED
        BY <2>1, <2>5, <2>6, <2>7, <2>8 DEF OnceClaimed
<1>5. ASSUME NEW r \in Requests, NEW s \in Sessions, FinishClaim(r, s) PROVE OnceClaimed'
    <2> DEFINE p == request[r].of
    <2>1. request[r].stage = "claim" /\ pairing[p].user \in Users
        BY <1>1, <1>5 DEF FinishClaim
    <2>2. /\ p \in Pairings /\ pairing'[p].user = pairing[p].user /\ pairing'[p].state = "claimed"
          /\ \A q \in Pairings \ {p} : pairing'[q] = pairing[q] /\ paired'[q] = paired[q]
          /\ paired'[p] = paired[p] \cup {s}
        BY <1>0, <1>5, <2>1, FinishClaimEffect
    <2>3. paired[p] = {} /\ \A q \in Requests \ {r} : request[q].stage = "claim" => request[q].of # p
        BY <1>0, <2>1, <2>2 DEF OnceClaimed
    <2>4. Ends(r)
        BY <1>5 DEF Ends
    <2>5. request'[r].stage = "idle" /\ \A x \in Requests \ {r} : request'[x] = request[x]
        BY <1>0, <2>4, EndsAt DEF At
    <2> HIDE DEF p
    <2>6. ASSUME NEW q \in Requests, request'[q].stage \in {"pairing", "claim"}
          PROVE  pairing'[request'[q].of].user = request'[q].user
        BY <1>1, <2>2, <2>5, <2>6
    <2>7. ASSUME NEW q \in Requests, request'[q].stage = "claim"
          PROVE  /\ pairing'[request'[q].of].state \in {"open", "expired"}
                 /\ \A x \in Requests : request'[x].stage = "claim" /\ request'[x].of = request'[q].of => x = q
        BY <1>0, <1>1, <2>2, <2>3, <2>5, <2>7 DEF OnceClaimed
    <2>8. ASSUME NEW q \in Pairings
          PROVE  /\ pairing'[q].state # "claimed" => paired'[q] = {}
                 /\ \A x, z \in paired'[q] : x = z
        BY <1>0, <2>2, <2>3 DEF OnceClaimed
    <2>9. ASSUME NEW x \in Pairings, NEW y \in Pairings, pairing'[x].state = "open", pairing'[y].state = "open",
                 pairing'[x].user = pairing'[y].user
          PROVE  x = y
        BY <1>0, <2>2, <2>9 DEF OnceClaimed
    <2> QED
        BY <2>6, <2>7, <2>8, <2>9 DEF OnceClaimed
<1>6. ASSUME NEW p \in Pairings, LapsePairing(p) PROVE OnceClaimed'
    <2>1. request' = request /\ paired' = paired /\ pairing[p].state = "open" /\ pairing[p].user \in Users
        BY <1>0, <1>6, UserFacts DEF LapsePairing
    <2>2. /\ pairing'[p].user = pairing[p].user /\ pairing'[p].state = "expired"
          /\ \A q \in Pairings \ {p} : pairing'[q] = pairing[q]
        BY <1>0, <1>6, <2>1, PairingWritten DEF LapsePairing
    <2> QED
        BY <1>0, <1>1, <2>1, <2>2 DEF OnceClaimed
<1> QED
    BY <1>0, <1>3, <1>4, <1>5, <1>6, PairingStep

----------------------------------------------------------------------------
(* Only strays survive. *)

\* A request ceases to be late when it ends, and a stray credential never does.
LEMMA LateStep ==
    ASSUME Typed, Next
    PROVE  /\ \A r \in Requests : r \in late => r \in late' \/ request'[r].stage = "idle"
           /\ stray \subseteq stray'
<1>1. CASE Alone
    BY <1>1 DEF Alone, Logout, LapseCredential, LapsePairing
<1>2. ASSUME NEW r \in Requests, GoesOn(r) PROVE late' = late /\ stray' = stray
    BY <1>2, GoesOnKeeps
<1>3. ASSUME NEW r \in Requests, Ends(r)
      PROVE  late \ {r} \subseteq late' /\ stray \subseteq stray' /\ request'[r].stage = "idle"
    <2>1. late' = late \ {r} \/ \E u : late' = (late \cup {q \in Requests : request[q].user = u}) \ {r}
        BY <1>3, Zenon DEF Ends, CreateSession, FinishClaim, RevokeDeviceSession, CommitRotation, CreateKey, RevokeKey,
               CreateMember, CommitUpdate, CreatePairingSession, ChangePassword, Abandon, Makes, Done, CutsOff
    <2>2. stray' = stray \/ \E k : stray' = IF r \in late THEN stray \cup {k} ELSE stray
        BY <1>3, Zenon DEF Ends, CreateSession, FinishClaim, RevokeDeviceSession, CommitRotation, CreateKey, RevokeKey,
               CreateMember, CommitUpdate, CreatePairingSession, ChangePassword, Abandon, Makes
    <2> QED
        BY <1>3, <2>1, <2>2, EndsAt DEF At
<1> QED
    BY <1>1, <1>2, <1>3, Kinds

MadeIn(r, k) ==
    \/ k \in Sessions /\ (CreateSession(r, k) \/ FinishClaim(r, k))
    \/ k \in Keys /\ CreateKey(r, k)

\* A credential is made by a login, a claim or the creation of a key.
LEMMA MadeBy ==
    ASSUME AccessInv, Next, NEW k \in Credentials, cred[k] = NoCredential, cred'[k] # NoCredential
    PROVE  \E r \in Requests : MadeIn(r, k)
<1>0. Typed /\ NoCredential.state = "absent"
    BY UserFacts DEF AccessInv
<1>1. \A K : cred' # Revoked(K)
    BY <1>0, RevokedRow
<1>2. ASSUME NEW c \in Credentials, NEW u \in Users, cred' = New(c, u) PROVE c = k
    <2>1. \A d \in Credentials \ {c} : New(c, u)[d] = cred[d]
        BY <1>0, NewRow
    <2> QED
        BY <1>2, <2>1
<1>3. ASSUME NEW r \in Requests, Ends(r)
      PROVE  MadeIn(r, k)
    <2>0. request[r].stage # "idle" => request[r].user \in Users
        BY <1>0, RequestFacts
    <2>1. CASE \E s \in Sessions : CreateSession(r, s) \/ FinishClaim(r, s)
        <3>1. PICK s \in Sessions : CreateSession(r, s) \/ FinishClaim(r, s)
            BY <2>1
        <3>2. s = k
            BY <1>2, <2>0, <3>1 DEF CreateSession, FinishClaim, Credentials
        <3> QED
            BY <3>1, <3>2 DEF MadeIn
    <2>2. CASE \E s \in Keys : CreateKey(r, s)
        <3>1. PICK s \in Keys : CreateKey(r, s)
            BY <2>2
        <3>2. s = k
            BY <1>2, <2>0, <3>1 DEF CreateKey, Administers, Credentials
        <3> QED
            BY <3>1, <3>2 DEF MadeIn
    <2>3. CASE CommitRotation(r)
        <3>1. cred[request[r].of].state # "absent"
            BY <2>3 DEF CommitRotation, AccessInv, InForce
        <3>2. request[r].of # k
            BY <1>0, <3>1
        <3> QED
            BY <1>0, <2>3, <3>1, <3>2, RotationEffect
    <2>4. CASE \/ \E s \in Sessions : RevokeDeviceSession(r, s)
               \/ \E s \in Keys : RevokeKey(r, s)
               \/ \E u \in Users, role \in Roles : CreateMember(r, u, role)
               \/ CommitUpdate(r)
               \/ \E p \in Pairings : CreatePairingSession(r, p)
               \/ ChangePassword(r)
               \/ Abandon(r)
        <3>1. cred' = cred \/ \E K : cred' = Revoked(K)
            BY <2>4, Zenon DEF RevokeDeviceSession, RevokeKey, CreateMember, CommitUpdate, CreatePairingSession,
                   ChangePassword, Abandon
        <3> QED
            BY <1>1, <3>1
    <2> QED
        BY <1>3, <2>1, <2>2, <2>3, <2>4, Zenon DEF Ends
<1>4. ASSUME NEW r \in Requests, GoesOn(r) PROVE FALSE
    BY <1>4, GoesOnKeeps
<1>5. ASSUME Alone PROVE FALSE
    <2>1. \A s \in Sessions : ~Logout(s)
        BY <1>1 DEF Logout
    <2>2. ASSUME NEW c \in Credentials, LapseCredential(c) PROVE FALSE
        <3>1. c # k
            BY <1>0, <2>2 DEF LapseCredential, Usable
        <3> QED
            BY <1>0, <2>2, <3>1 DEF LapseCredential, Typed
    <2>3. \A p \in Pairings : ~LapsePairing(p)
        BY DEF LapsePairing
    <2> QED
        BY <1>5, <2>1, <2>2, <2>3 DEF Alone
<1> QED
    BY <1>3, <1>4, <1>5, Kinds

\* A request whose user is cut off is late, or ends.
LEMMA CutOff ==
    ASSUME Typed, NEW r \in Requests, NEW u, Ends(r), CutsOff(r, u), NEW q \in Requests, request[q].user = u
    PROVE  q \in late' \/ request'[q].stage = "idle"
BY EndsAt DEF CutsOff, At

\* What requests that are not late have found stays so.
LEMMA TimelyStep ==
    ASSUME AccessInv, Next
    PROVE  Timely'
<1>0. Typed /\ Timely /\ Sessions \subseteq Credentials
    BY DEF AccessInv, Credentials
<1>1. ASSUME NEW r \in Requests, r \notin late', request'[r].stage # "idle", request'[r] = request[r]
      PROVE  /\ member'[request[r].user].status = "active"
             /\ request[r].stage = "login" => request[r].seen = password'[request[r].user]
    <2>1. r \notin late /\ request[r].stage # "idle" /\ request[r].user \in Users
        BY <1>0, <1>1, LateStep, RequestFacts
    <2>2. PICK u \in Users : u = request[r].user
        BY <2>1
    <2>3. Active(u) /\ (request[r].stage = "login" => request[r].seen = password[u])
        BY <1>0, <2>1, <2>2 DEF Timely
    <2>4. Active(u)'
        <3>1. ASSUME NEW q \in Requests, CommitUpdate(q), CutsOff(q, u) PROVE FALSE
            <4>1. Ends(q)
                BY <3>1 DEF Ends
            <4> QED
                BY <1>0, <1>1, <2>2, <3>1, <4>1, CutOff
        <3> QED
            BY <1>0, <2>3, <3>1, DisabledBy
    <2>5. ASSUME NEW q \in Requests, ChangePassword(q) PROVE password'[u] = password[u]
        <3>1. Ends(q) /\ CutsOff(q, request[q].user)
            BY <2>5 DEF Ends, ChangePassword
        <3>2. request[q].user # u
            BY <1>0, <1>1, <2>2, <3>1, CutOff
        <3> QED
            BY <1>0, <2>5, <3>2 DEF ChangePassword, Typed
    <2> QED
        BY <1>0, <2>2, <2>3, <2>4, <2>5, PasswordStep DEF Active
<1>2. ASSUME NEW r \in Requests, r \notin late', GoesOn(r)
      PROVE  /\ member'[request'[r].user].status = "active"
             /\ request'[r].stage = "login" => request'[r].seen = password'[request'[r].user]
    <2>1. UNCHANGED <<member, password, late>>
        BY <1>2, GoesOnKeeps
    <2>2. \A u \in Users : FindLoginAccount(r, u) =>
              request'[r].user = u /\ request'[r].seen = password[u] /\ Active(u)
        BY <1>0, FindLoginAccountAt DEF FindLoginAccount
    <2>3. \A k \in Credentials : Authenticate(r, k) =>
              request'[r].stage = "principal" /\ Active(request'[r].user)
        BY <1>0, AuthenticateAt DEF Authenticate, At
    <2>4. \A s \in Sessions, g \in 0..MaxRotations : RotateSession(r, s, g) =>
              request'[r].stage = "refresh" /\ Active(request'[r].user)
        BY <1>0, RotateSessionAt DEF RotateSession, At
    <2>5. \A p \in Pairings : BeginClaim(r, p) => request'[r].stage = "pairing" /\ Active(request'[r].user)
        BY <1>0, BeginClaimAt DEF BeginClaim, At
    <2>6. \/ LockSession(r) \/ LockPairing(r) \/ ReadPassword(r)
          \/ \E u \in Users, c \in [role: Roles, status: Statuses] : BeginUpdate(r, u, c)
          => /\ request'[r].user = request[r].user /\ request'[r].stage # "login" /\ request[r].stage # "idle"
        BY <1>0, LockSessionAt, LockPairingAt, ReadPasswordAt, BeginUpdateAt
        DEF At, LockSession, LockPairing, ReadPassword, BeginUpdate, ManagesMembers
    <2>7. request[r].stage # "idle" => Active(request[r].user)
        BY <1>0, <1>2, <2>1 DEF Timely
    <2> QED
        BY <1>2, <2>1, <2>2, <2>3, <2>4, <2>5, <2>6, <2>7 DEF GoesOn, Active
<1>3. ASSUME NEW s \in Sessions, cred'[s] = NoCredential PROVE verified'[s] = None
    <2>1. cred[s] = NoCredential
        <3>1. NoCredential.state = "absent"
            BY <1>0, UserFacts
        <3>2. cred[s].state = "absent"
            <4>1. ASSUME CredsMove, cred[s].state # "absent" PROVE FALSE
                BY <1>0, <1>3, <3>1, <4>1, MoveFacts DEF CredsMove
            <4>2. ASSUME NEW r \in Requests, CommitRotation(r), cred[s].state # "absent" PROVE FALSE
                <5>1. cred[request[r].of].state # "absent"
                    BY <4>2 DEF CommitRotation, AccessInv, InForce
                <5> QED
                    BY <1>0, <1>3, <3>1, <4>2, <5>1, RotationEffect
            <4> QED
                BY <1>0, <4>1, <4>2, CredStep
        <3> QED
            BY <1>0, <3>2, UserFacts
    <2>2. ASSUME NEW r \in Requests, NEW z \in Sessions, CreateSession(r, z) PROVE verified'[s] = verified[s]
        <3>1. request[r].user \in Users
            BY <1>0, <2>2, RequestFacts DEF CreateSession
        <3>2. cred'[z].state = "live"
            <4>1. cred' = New(z, request[r].user) /\ z \in Credentials
                BY <1>0, <2>2 DEF CreateSession
            <4>2. New(z, request[r].user)[z] = [user |-> request[r].user, state |-> "live", generation |-> 0]
                BY <1>0, <3>1, <4>1, NewRow
            <4> QED
                BY <4>1, <4>2
        <3>3. z # s
            BY <1>0, <1>3, <3>2, UserFacts
        <3> QED
            BY <1>0, <2>2, <3>3 DEF CreateSession, Typed
    <2> QED
        BY <1>0, <2>1, <2>2, PasswordStep DEF Timely
<1>4. ASSUME NEW r \in Requests, r \notin late', request'[r].stage # "idle"
      PROVE  /\ member'[request'[r].user].status = "active"
             /\ request'[r].stage = "login" => request'[r].seen = password'[request'[r].user]
    <2>1. request'[r] = request[r] \/ GoesOn(r)
        BY <1>0, <1>4, Arrival, Zenon DEF GoesOn
    <2> QED
        BY <1>1, <1>2, <1>4, <2>1
<1> QED
    BY <1>3, <1>4 DEF Timely, Active

\* What is usable after a step was usable before with the same user, or was made by it.
LEMMA UsableBefore ==
    ASSUME AccessInv, Next, NEW k \in Credentials, Usable(k)'
    PROVE  \/ Usable(k) /\ cred'[k].user = cred[k].user /\ cred[k].user \in Users
           \/ cred[k] = NoCredential /\ cred'[k] # NoCredential
<1>0. Typed /\ NoCredential.state = "absent" /\ cred'[k].state \in {"live", "lapsed"}
    BY UserFacts DEF AccessInv, Usable
<1>1. CASE CredsMove
    <2>1. CASE cred[k] = NoCredential
        BY <1>0, <2>1
    <2>2. CASE cred[k] # NoCredential
        <3>1. cred[k].state # "absent" /\ CredMove(k)
            BY <1>0, <1>1, <2>2, UserFacts DEF CredsMove
        <3>2. cred'[k].user = cred[k].user /\ cred[k].user \in Users
            BY <1>0, <3>1, MoveFacts
        <3>3. \A u : ~Made(k, u)
            BY <2>2 DEF Made
        <3>4. cred[k].state \in {"live", "lapsed"}
            BY <1>0, <3>1, <3>3 DEF CredMove, Gone, Aged, Usable
        <3> QED
            BY <3>2, <3>4 DEF Usable
    <2> QED
        BY <2>1, <2>2
<1>2. ASSUME NEW r \in Requests, CommitRotation(r)
      PROVE  Usable(k) /\ cred'[k].user = cred[k].user /\ cred[k].user \in Users
    <2>1. cred[request[r].of].state # "absent"
        BY <1>2 DEF CommitRotation, AccessInv, InForce
    <2>2. /\ cred'[k].user = cred[k].user
          /\ cred'[k].state = cred[k].state \/ cred[k].state = "lapsed"
        BY <1>0, <1>2, <2>1, RotationEffect
    <2>3. cred[k].state \in {"live", "lapsed"}
        BY <1>0, <2>2
    <2> QED
        BY <1>0, <2>2, <2>3, UserFacts DEF Usable
<1> QED
    BY <1>0, <1>1, <1>2, CredStep

\* A credential made by a request that is not late is its user's, who is active, and a
\* session was logged in with the password or paired.
LEMMA MadeInTime ==
    ASSUME AccessInv, Next, NEW r \in Requests, NEW k \in Credentials, MadeIn(r, k), k \notin stray'
    PROVE  /\ member'[cred'[k].user].status = "active"
           /\ k \in Sessions => verified'[k] \in {None, password'[cred'[k].user]}
<1> DEFINE u == request[r].user
<1>0. Typed /\ Timely
    BY DEF AccessInv
<1>1. request[r].stage # "idle" /\ cred[k] = NoCredential /\ cred' = New(k, u) /\ Makes(r, k)
    BY DEF MadeIn, CreateSession, FinishClaim, CreateKey, Administers
<1>2. u \in Users /\ r \notin late
    BY <1>0, <1>1, RequestFacts DEF Makes
<1>3. Active(u) /\ (request[r].stage = "login" => request[r].seen = password[u])
    BY <1>0, <1>1, <1>2 DEF Timely
<1>4. member' = member /\ password' = password
    BY DEF MadeIn, CreateSession, FinishClaim, CreateKey
<1>5. cred'[k].user = u
    <2> HIDE DEF u
    <2>1. Made(k, u)
        BY <1>0, <1>1, <1>2, MakesMove
    <2> QED
        BY <2>1 DEF Made
<1>6. ASSUME k \in Sessions PROVE verified'[k] \in {None, password[u]}
    <2>1. CASE CreateSession(r, k)
        BY <1>0, <1>3, <1>6, <2>1 DEF CreateSession, Typed
    <2>2. CASE FinishClaim(r, k)
        BY <1>0, <1>1, <1>6, <2>2 DEF FinishClaim, Timely
    <2> QED
        BY <1>6, <2>1, <2>2, AccessAssumption DEF MadeIn
<1> HIDE DEF u
<1> QED
    BY <1>3, <1>4, <1>5, <1>6 DEF Active

\* A usable credential that is not stray stays with an active user and the current
\* password, or is revoked.
LEMMA StraysStep ==
    ASSUME AccessInv, Next
    PROVE  OnlyStraysSurvive'
<1>0. Typed /\ OnlyStraysSurvive
    BY DEF AccessInv
<1>1. ASSUME NEW k \in Credentials, k \notin stray', Usable(k)'
      PROVE  /\ member'[cred'[k].user].status = "active"
             /\ k \in Sessions => verified'[k] \in {None, password'[cred'[k].user]}
    <2>1. CASE cred[k] = NoCredential /\ cred'[k] # NoCredential
        BY <1>1, <2>1, MadeBy, MadeInTime
    <2>2. CASE Usable(k) /\ cred'[k].user = cred[k].user /\ cred[k].user \in Users
        <3>1. PICK u \in Users : u = cred[k].user
            BY <2>2
        <3>2. Active(u) /\ (k \in Sessions => verified[k] \in {None, password[u]})
            BY <1>0, <1>1, <2>2, <3>1, LateStep DEF OnlyStraysSurvive
        <3>3. cred'[k].state \in {"live", "lapsed"} /\ cred[k].state \in {"live", "lapsed"}
            BY <1>1, <2>2 DEF Usable
        <3>4. Active(u)'
            BY <1>0, <3>1, <3>2, <3>3, RevokedWith
        <3>5. ASSUME k \in Sessions PROVE verified'[k] = verified[k]
            <4>1. ASSUME NEW r \in Requests, NEW s \in Sessions, CreateSession(r, s) PROVE verified'[k] = verified[k]
                <5>1. s # k
                    BY <1>0, <3>3, <4>1, UserFacts DEF CreateSession
                <5> QED
                    BY <1>0, <3>5, <4>1, <5>1 DEF CreateSession, Typed
            <4> QED
                BY <1>0, <4>1, PasswordStep
        <3>6. ASSUME k \in Sessions PROVE password'[u] = password[u]
            <4>1. ASSUME NEW r \in Requests, ChangePassword(r) PROVE password'[u] = password[u]
                <5>1. request[r].user # u
                    <6>1. SUFFICES ASSUME request[r].user = u PROVE FALSE
                        OBVIOUS
                    <6>2. SessionsFree(Of(u, Sessions)) /\ cred' = Revoked(Of(u, Sessions)) /\ k \in Of(u, Sessions)
                        BY <3>1, <3>6, <4>1, <6>1 DEF ChangePassword, Of
                    <6> QED
                        BY <1>0, <3>3, <6>2, RevokesMove
                <5> QED
                    BY <1>0, <4>1, <5>1 DEF ChangePassword, Typed
            <4> QED
                BY <1>0, <4>1, PasswordStep
        <3> QED
            BY <2>2, <3>1, <3>2, <3>4, <3>5, <3>6 DEF Active
    <2> QED
        BY <1>1, <2>1, <2>2, UsableBefore
<1> QED
    BY <1>1 DEF OnlyStraysSurvive, Active

----------------------------------------------------------------------------
(* An owner remains. *)

\* An update decides on what is there, and nothing changes that until it commits.
LEMMA DecidedStep ==
    ASSUME AccessInv, Next
    PROVE  Decided'
<1>0. Typed /\ Decided
    BY DEF AccessInv
<1> SUFFICES ASSUME NEW r \in Requests, request'[r].stage = "update"
             PROVE  /\ KeepsAnOwner(request[r].of, request[r].change)'
                    /\ \A q \in Requests : request'[q].stage = "update" => q = r
    BY DEF Decided
<1>1. CASE request'[r] = request[r]
    <2>1. /\ request[r].stage = "update" /\ KeepsAnOwner(request[r].of, request[r].change) /\ ~WorkspaceFree
          /\ \A q \in Requests : request[q].stage = "update" => q = r
        BY <1>0, <1>1 DEF Decided, WorkspaceFree
    <2>2. ASSUME NEW q \in Requests, request'[q].stage = "update" PROVE q = r
        <3>1. request'[q] = request[q]
            BY <1>0, <2>1, <2>2, Arrival DEF BeginUpdate
        <3> QED
            BY <2>1, <2>2, <3>1
    <2>3. member' = member
        <3>1. ASSUME NEW q \in Requests, CommitUpdate(q) PROVE FALSE
            <4>1. q = r /\ Ends(r)
                BY <2>1, <3>1 DEF CommitUpdate, Ends
            <4> QED
                BY <1>0, <4>1, EndsAt DEF At
        <3>2. \A q \in Requests, u \in Users, role \in Roles : ~CreateMember(q, u, role)
            BY <2>1 DEF CreateMember
        <3> QED
            BY <1>0, <3>1, <3>2, MemberStep
    <2> QED
        BY <1>1, <2>1, <2>2, <2>3 DEF KeepsAnOwner, ActiveOwners
<1>2. ASSUME NEW u \in Users, NEW c \in [role: Roles, status: Statuses], BeginUpdate(r, u, c)
      PROVE  /\ KeepsAnOwner(request[r].of, request[r].change)'
             /\ \A q \in Requests : request'[q].stage = "update" => q = r
    <2>1. GoesOn(r) /\ member' = member /\ KeepsAnOwner(u, c) /\ WorkspaceFree
        BY <1>2 DEF BeginUpdate, GoesOn
    <2>2. request'[r].of = u /\ request'[r].change = c
        BY <1>0, <1>2, BeginUpdateAt
    <2> QED
        BY <1>0, <2>1, <2>2, OthersWait DEF KeepsAnOwner, ActiveOwners, WorkspaceFree
<1> QED
    BY <1>0, <1>1, <1>2, Arrival

INSTANCE FiniteSetTheorems

\* A set with more than one element has another one.
LEMMA AnotherOne ==
    ASSUME NEW S, Cardinality(S) > 1, NEW x \in S
    PROVE  \E y \in S : y # x
<1> SUFFICES ASSUME \A y \in S : y = x PROVE FALSE
    OBVIOUS
<1>1. S = {x}
    OBVIOUS
<1>2. Cardinality({x}) = 1
    BY FS_Singleton
<1> QED
    BY <1>1, <1>2

\* The update of a member leaves an active owner.
LEMMA OwnerStep ==
    ASSUME AccessInv, Next
    PROVE  SomeOwner'
<1>0. Typed /\ Decided /\ SomeOwner
    BY DEF AccessInv
<1>1. PICK w \in Users : member[w] = Member("owner", "active")
    BY <1>0 DEF SomeOwner, ActiveOwners
<1>2. CASE member' = member
    BY <1>0, <1>2 DEF SomeOwner, ActiveOwners
<1>3. ASSUME NEW r \in Requests, NEW u \in Users, NEW role \in Roles, CreateMember(r, u, role)
      PROVE  SomeOwner'
    <2>1. w # u
        BY <1>1, <1>3 DEF CreateMember, NoMember, Member
    <2> QED
        BY <1>0, <1>1, <1>3, <2>1 DEF CreateMember, SomeOwner, ActiveOwners, Typed
<1>4. ASSUME NEW r \in Requests, CommitUpdate(r)
      PROVE  SomeOwner'
    <2> DEFINE u == request[r].of
               new == request[r].change
    <2>1. u \in Users /\ KeepsAnOwner(u, new)
        BY <1>0, <1>4, RequestFacts DEF CommitUpdate, Decided
    <2>2. member' = [member EXCEPT ![u] = new]
        BY <1>4, Zenon DEF CommitUpdate
    <2> HIDE DEF u, new
    <2>3. member'[u] = new /\ \A v \in Users \ {u} : member'[v] = member[v]
        BY <1>0, <2>1, <2>2 DEF Typed
    <2>4. CASE new = Member("owner", "active")
        BY <2>1, <2>3, <2>4 DEF SomeOwner, ActiveOwners
    <2>5. CASE u \notin ActiveOwners
        BY <1>1, <2>1, <2>3, <2>5 DEF SomeOwner, ActiveOwners
    <2>6. CASE u \in ActiveOwners /\ new # Member("owner", "active")
        <3>1. PICK v \in ActiveOwners : v # u
            BY <2>1, <2>6, AnotherOne DEF KeepsAnOwner
        <3> QED
            BY <2>3, <3>1 DEF SomeOwner, ActiveOwners
    <2> QED
        BY <2>4, <2>5, <2>6
<1> QED
    BY <1>0, <1>2, <1>3, <1>4, MemberStep

----------------------------------------------------------------------------
(* Theorems. *)

\* The database as adminctl leaves it satisfies the invariant.
LEMMA InvInit == Init => AccessInv
<1> SUFFICES ASSUME Init PROVE AccessInv
    OBVIOUS
<1>1. /\ \A r \in Requests : request[r] = Idle
      /\ \A k \in Credentials : cred[k] = NoCredential
      /\ \A p \in Pairings : pairing[p] = NoPairing /\ paired[p] = {}
      /\ \A s \in Sessions : verified[s] = None /\ \A g \in 0..MaxRotations : exchanged[s][g] = 0
      /\ Idle.stage = "idle" /\ NoCredential.state = "absent" /\ NoPairing.state = "absent"
    BY DEF Init, Idle, NoCredential, NoPairing
<1>2. Typed
    <2>1. Idle \in ReqRow
        BY IdleRow
    <2>2. NoCredential \in CredRow /\ NoPairing \in PairRow
        BY DEF NoCredential, CredRow, CredentialStates, NoPairing, PairRow
    <2>3. Member("owner", "active") \in Members /\ NoMember \in Members
        BY AccessAssumption DEF Member, Members, Statuses
    <2>4. exchanged \in [Sessions -> [0..MaxRotations -> Nat]]
        BY DEF Init
    <2> QED
        BY <2>1, <2>2, <2>3, <2>4 DEF Init, Typed
<1>3. SomeOwner
    BY AccessAssumption DEF Init, SomeOwner, ActiveOwners
<1>4. Decided
    BY <1>1 DEF Decided
<1>5. InForce
    BY <1>1 DEF InForce
<1>6. OnceClaimed
    BY <1>1 DEF OnceClaimed
<1>7. Timely
    BY <1>1 DEF Timely
<1>8. OnlyStraysSurvive
    BY <1>1 DEF OnlyStraysSurvive, Usable
<1> QED
    BY <1>2, <1>3, <1>4, <1>5, <1>6, <1>7, <1>8 DEF AccessInv

\* Every step keeps the invariant.
LEMMA InvStep == AccessInv /\ [Next]_vars => AccessInv'
<1> SUFFICES ASSUME AccessInv, [Next]_vars PROVE AccessInv'
    OBVIOUS
<1>1. CASE Next
    BY <1>1, TypedStep, OwnerStep, DecidedStep, InForceStep, OnceClaimedStep, TimelyStep, StraysStep DEF AccessInv
<1>2. CASE UNCHANGED vars
    <2>1. Typed'
        BY <1>2 DEF vars, AccessInv, Typed
    <2>2. SomeOwner' /\ Decided'
        BY <1>2 DEF vars, AccessInv, SomeOwner, Decided, ActiveOwners, KeepsAnOwner
    <2>3. InForce'
        BY <1>2 DEF vars, AccessInv, InForce, Active
    <2>4. OnceClaimed'
        BY <1>2 DEF vars, AccessInv, OnceClaimed
    <2>5. Timely' /\ OnlyStraysSurvive'
        BY <1>2 DEF vars, AccessInv, Timely, OnlyStraysSurvive, Active, Usable
    <2> QED
        BY <2>1, <2>2, <2>3, <2>4, <2>5 DEF AccessInv
<1> QED
    BY <1>1, <1>2

\* The invariant holds in every reachable state.
LEMMA Invariance == Spec => []AccessInv
BY InvInit, InvStep, PTL DEF Spec

\* The workspace always has an active owner, however many owners demote or disable
\* each other at the same time: the update of a member counts them under the
\* workspace's lock.
THEOREM OwnerRemains == Spec => []SomeOwner
<1>1. AccessInv => SomeOwner
    BY DEF AccessInv
<1> QED
    BY <1>1, Invariance, PTL

\* However many refreshes, logouts, changes of password and updates of members meet on
\* a session, a refresh token is exchanged for the first time or not at all, for
\* a session that is not revoked and whose user is active.
THEOREM RefreshedOnce == Spec => RefreshOnce
<1> DEFINE Step == \A s \in Sessions, g \in 0..MaxRotations :
                      exchanged'[s][g] # exchanged[s][g] =>
                          exchanged[s][g] = 0 /\ cred[s].state # "revoked" /\ Active(cred[s].user)
<1>1. AccessInv /\ [Next]_vars => [Step]_vars
    <2> SUFFICES ASSUME AccessInv, Next, NEW s \in Sessions, NEW g \in 0..MaxRotations,
                        exchanged'[s][g] # exchanged[s][g]
                 PROVE  exchanged[s][g] = 0 /\ cred[s].state # "revoked" /\ Active(cred[s].user)
        OBVIOUS
    <2>0. Typed /\ InForce
        BY DEF AccessInv
    <2>1. PICK r \in Requests : CommitRotation(r)
        BY <2>0, CredStep
    <2>2. /\ request[r].stage = "rotated" /\ cred[request[r].of].state # "absent"
          /\ cred[request[r].of].state # "revoked" /\ cred[request[r].of].generation = request[r].seen
          /\ Active(cred[request[r].of].user)
        BY <2>0, <2>1 DEF CommitRotation, InForce
    <2>3. s = request[r].of /\ g = request[r].seen
        BY <2>0, <2>1, <2>2, RotationEffect
    <2>4. g \in Nat /\ cred[s].generation = g
        BY <2>2, <2>3, AccessAssumption
    <2>5. g >= cred[s].generation
        BY <2>4
    <2>6. exchanged[s][g] = 0
        BY <2>0, <2>5 DEF InForce
    <2> QED
        BY <2>2, <2>3, <2>6
<1>2. RefreshOnce <=> [][Step]_vars
    BY DEF RefreshOnce
<1> HIDE DEF Step
<1> QED
    BY <1>1, <1>2, Invariance, PTL DEF Spec

\* However many claims have found a pairing, it makes at most one session, and a user
\* has at most one pairing open.
THEOREM PairedOnce == Spec => []PairingIsOneTime
<1>1. ASSUME NEW S, \A x, y \in S : x = y PROVE Cardinality(S) <= 1
    <2>1. CASE S = {}
        BY <2>1, FS_EmptySet
    <2>2. ASSUME NEW x \in S PROVE Cardinality(S) <= 1
        <3>1. S = {x}
            BY <1>1, <2>2
        <3> QED
            BY <3>1, FS_Singleton
    <2> QED
        BY <2>1, <2>2
<1>2. AccessInv => PairingIsOneTime
    <2> SUFFICES ASSUME OnceClaimed PROVE PairingIsOneTime
        BY DEF AccessInv
    <2>1. \A p \in Pairings : \A x, y \in paired[p] : x = y
        BY DEF OnceClaimed
    <2>2. \A u \in Users : \A x, y \in OpenPairings(u) : x = y
        BY DEF OnceClaimed, OpenPairings
    <2> QED
        BY <1>1, <2>1, <2>2 DEF PairingIsOneTime
<1> QED
    BY <1>2, Invariance, PTL

\* A member who was disabled, or whose password changed, is left with nothing usable
\* but what a request made that was in flight: no login, pairing, refresh or key that
\* begins later escapes the revocation.
THEOREM StraysOnly == Spec => []OnlyStraysSurvive
<1>1. AccessInv => OnlyStraysSurvive
    BY DEF AccessInv
<1> QED
    BY <1>1, Invariance, PTL
=============================================================================

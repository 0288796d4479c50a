------------------------------- MODULE Access -------------------------------
(***************************************************************************)
(* Who may act in one workspace: memberships, sessions and API keys, the   *)
(* pairing of devices and passwords.  A request runs in up to three steps: *)
(* its credential is resolved to a principal, a transaction reads and      *)
(* locks, and the transaction writes.  Only the rows a transaction locks   *)
(* are safe from the others in between.  A statement that waits for a row  *)
(* evaluates its condition on that row again, and on no other.  A conflict *)
(* or a refusal changes nothing and is no step.  Times are left out: a     *)
(* credential or a pairing may lapse at any moment, a session in two       *)
(* steps, first its access token and then its refresh token.               *)
(***************************************************************************)
EXTENDS Integers, FiniteSets

CONSTANTS Users,
          Founder,       \* the owner that adminctl creates
          Sessions,      \* sessions rows
          Keys,          \* api_keys rows
          Pairings,      \* pairing_sessions rows
          Requests,      \* requests being served
          Roles,         \* the roles in use
          MaxRotations,  \* bound on the refreshes of a session
          MaxPasswords,  \* bound on the changes of a password
          None

Credentials == Sessions \cup Keys

ASSUME AccessAssumption ==
    /\ Founder \in Users
    /\ Sessions \cap Keys = {}
    /\ None \notin Users \cup Credentials \cup Pairings \cup Requests
    /\ "owner" \in Roles /\ Roles \subseteq {"owner", "admin", "editor", "viewer"}
    /\ MaxRotations \in Nat /\ MaxPasswords \in Nat

VARIABLES member,     \* memberships
          password,   \* which password hash a user has
          cred,       \* sessions and api_keys
          pairing,    \* pairing_sessions
          request,    \* what each request is doing
          exchanged,  \* history: how often each refresh token was exchanged
          paired,     \* history: the sessions each pairing made
          verified,   \* history: the password hash a session was logged in with
          late,       \* history: requests in flight when their user was cut off
          stray       \* history: credentials made by late requests

vars == <<member, password, cred, pairing, request, exchanged, paired, verified, late, stray>>

Admins == {"owner", "admin"}
Statuses == {"active", "disabled"}
Member(role, status) == [role |-> role, status |-> status]
NoMember == Member("none", "none")
NoCredential == [user |-> None, state |-> "absent", generation |-> 0]
CredentialStates == {"absent", "live", "lapsed", "expired", "revoked"}
NoPairing == [user |-> None, state |-> "absent"]
Idle == [stage |-> "idle", user |-> None, role |-> "none", by |-> None, of |-> None,
         change |-> NoMember, seen |-> 0]

\* Every variable has its type.
TypeOK ==
    /\ member \in [Users -> [role: Roles, status: Statuses] \cup {NoMember}]
    /\ password \in [Users -> 0..MaxPasswords]
    /\ cred \in [Credentials -> [user: Users \cup {None}, state: CredentialStates, generation: Nat]]
    /\ pairing \in [Pairings -> [user: Users \cup {None},
                                 state: {"absent", "open", "claimed", "revoked", "expired"}]]
    /\ \A r \in Requests :
          /\ request[r].stage \in {"idle", "principal", "login", "refresh", "rotated",
                                  "update", "pairing", "claim", "password"}
          /\ request[r].stage # "idle" => request[r].user \in Users
          /\ request[r].stage = "update" => member[request[r].of] # NoMember
    /\ exchanged \in [Sessions -> [0..MaxRotations -> Nat]]
    /\ paired \in [Pairings -> SUBSET Sessions]
    /\ verified \in [Sessions -> 0..MaxPasswords \cup {None}]
    /\ late \subseteq Requests
    /\ stray \subseteq Credentials

\* CreateOwner, once and before anything else.
Init ==
    /\ member = [u \in Users |-> IF u = Founder THEN Member("owner", "active") ELSE NoMember]
    /\ password = [u \in Users |-> 0]
    /\ cred = [k \in Credentials |-> NoCredential]
    /\ pairing = [p \in Pairings |-> NoPairing]
    /\ request = [r \in Requests |-> Idle]
    /\ exchanged = [s \in Sessions |-> [g \in 0..MaxRotations |-> 0]]
    /\ paired = [p \in Pairings |-> {}]
    /\ verified = [s \in Sessions |-> None]
    /\ late = {}
    /\ stray = {}

Active(u) == member[u].status = "active"
Usable(k) == cred[k].state \in {"live", "lapsed"}
New(k, u) == [cred EXCEPT ![k] = [user |-> u, state |-> "live", generation |-> 0]]
\* Every UPDATE that revokes has the condition revoked_at IS NULL.
Revoked(K) == [k \in Credentials |-> IF k \in K /\ cred[k] # NoCredential
                                     THEN [cred[k] EXCEPT !.state = "revoked"] ELSE cred[k]]
Of(u, K) == {k \in K : cred[k].user = u}

Done(r) == request' = [request EXCEPT ![r] = Idle] /\ late' = late \ {r}
Goes(r, to) == request' = [request EXCEPT ![r] = to] /\ UNCHANGED late
\* The request ends and has made credential k.
Makes(r, k) == Done(r) /\ stray' = IF r \in late THEN stray \cup {k} ELSE stray
\* The request ends and has cut off user u.
CutsOff(r, u) ==
    /\ request' = [request EXCEPT ![r] = Idle]
    /\ late' = (late \cup {q \in Requests : request[q].user = u}) \ {r}

\* Rows another transaction has locked.  The update of a member locks the
\* workspace and the member; sessions, keys and audit records refer to them,
\* so whoever inserts one waits.
WorkspaceFree == \A r \in Requests : request[r].stage # "update"
PairingFree(p) == \A r \in Requests : ~(request[r].stage = "claim" /\ request[r].of = p)
SessionsFree(S) == \A r \in Requests : ~(request[r].stage = "rotated" /\ request[r].of \in S)

----------------------------------------------------------------------------
(* Credentials. *)

\* The account is found and the password verified against the hash read.
FindLoginAccount(r, u) ==
    /\ request[r] = Idle
    /\ Active(u)
    /\ Goes(r, [Idle EXCEPT !.stage = "login", !.user = u, !.seen = password[u]])
    /\ UNCHANGED <<member, password, cred, pairing, exchanged, paired, verified, stray>>

\* The session is inserted in a transaction of its own.
CreateSession(r, s) ==
    /\ request[r].stage = "login"
    /\ WorkspaceFree
    /\ cred[s] = NoCredential
    /\ cred' = New(s, request[r].user)
    /\ verified' = [verified EXCEPT ![s] = request[r].seen]
    /\ Makes(r, s)
    /\ UNCHANGED <<member, password, pairing, exchanged, paired>>

\* ResolveSession and ResolveAPIKey: one statement, which also writes the row.
\* A key acts as an agent.
Authenticate(r, k) ==
    /\ request[r] = Idle
    /\ cred[k].state = "live"
    /\ SessionsFree({k})
    /\ Active(cred[k].user)
    /\ Goes(r, [Idle EXCEPT
          !.stage = "principal", !.user = cred[k].user, !.by = k,
          !.role = IF k \in Keys THEN "agent" ELSE member[cred[k].user].role])
    /\ UNCHANGED <<member, password, cred, pairing, exchanged, paired, verified, stray>>

\* What RotateSession asks of the session's row for the refresh token of generation g,
\* apart from the time, which is the caller's and does not move.
Matches(s, g) == g = cred[s].generation /\ cred[s].state \notin {"absent", "revoked"}

\* The UPDATE finds the row, the user and the member as they are when it starts.
RotateSession(r, s, g) ==
    /\ request[r] = Idle
    /\ Matches(s, g) /\ g < MaxRotations
    /\ Usable(s)
    /\ Active(cred[s].user)
    /\ Goes(r, [Idle EXCEPT !.stage = "refresh", !.user = cred[s].user, !.of = s, !.seen = g])
    /\ UNCHANGED <<member, password, cred, pairing, exchanged, paired, verified, stray>>

\* Mutant: the row is found in one statement and written by its id in another.
LockSession_NoRecheck(r) ==
    /\ request[r].stage = "refresh"
    /\ SessionsFree({request[r].of})
    /\ Goes(r, [request[r] EXCEPT !.stage = "rotated"])
    /\ UNCHANGED <<member, password, cred, pairing, exchanged, paired, verified, stray>>

\* It waits for the row, looks at the row again, and holds it once written.
LockSession(r) ==
    /\ request[r].stage = "refresh"
    /\ SessionsFree({request[r].of})
    /\ Matches(request[r].of, request[r].seen)
    /\ Goes(r, [request[r] EXCEPT !.stage = "rotated"])
    /\ UNCHANGED <<member, password, cred, pairing, exchanged, paired, verified, stray>>

\* The audit record is inserted and both committed; the access token lives again.
CommitRotation(r) ==
    LET s == request[r].of IN
    /\ request[r].stage = "rotated"
    /\ WorkspaceFree
    /\ cred' = [cred EXCEPT ![s].generation = @ + 1, ![s].state = IF @ = "lapsed" THEN "live" ELSE @]
    /\ exchanged' = [exchanged EXCEPT ![s][request[r].seen] = @ + 1]
    /\ Done(r)
    /\ UNCHANGED <<member, password, pairing, paired, verified, stray>>

\* Logout with the access token of the session; a token that a refresh has
\* replaced matches no row.  The row is locked and the audit record inserted.
Logout(s) ==
    /\ cred[s] # NoCredential
    /\ SessionsFree({s}) /\ WorkspaceFree
    /\ cred' = Revoked({s})
    /\ UNCHANGED <<member, password, pairing, request, exchanged, paired, verified, late, stray>>

RevokeDeviceSession(r, s) ==
    /\ request[r].stage = "principal"
    /\ request[r].by \in Sessions
    /\ cred[s].user = request[r].user
    /\ SessionsFree({s}) /\ WorkspaceFree
    /\ cred' = Revoked({s})
    /\ Done(r)
    /\ UNCHANGED <<member, password, pairing, exchanged, paired, verified, stray>>

\* Administration is open to owners and administrators, and to keys with that scope.
Administers(r) ==
    request[r].stage = "principal" /\ request[r].role \in Admins \cup {"agent"}

CreateKey(r, k) ==
    /\ Administers(r)
    /\ WorkspaceFree
    /\ cred[k] = NoCredential
    /\ cred' = New(k, request[r].user)
    /\ Makes(r, k)
    /\ UNCHANGED <<member, password, pairing, exchanged, paired, verified>>

RevokeKey(r, k) ==
    /\ Administers(r)
    /\ WorkspaceFree
    /\ cred[k] # NoCredential
    /\ cred' = Revoked({k})
    /\ Done(r)
    /\ UNCHANGED <<member, password, pairing, exchanged, paired, verified, stray>>

----------------------------------------------------------------------------
(* Members. *)

\* Only the session of an owner manages members.
ManagesMembers(r) == request[r].stage = "principal" /\ request[r].role = "owner"

CreateMember(r, u, role) ==
    /\ ManagesMembers(r)
    /\ WorkspaceFree
    /\ member[u] = NoMember
    /\ member' = [member EXCEPT ![u] = Member(role, "active")]
    /\ Done(r)
    /\ UNCHANGED <<password, cred, pairing, exchanged, paired, verified, stray>>

ActiveOwners == {u \in Users : member[u] = Member("owner", "active")}

\* Mutant: the count forgets that the member itself is one of the owners.
KeepsAnOwner_Off(u, new) ==
    u \in ActiveOwners /\ new # Member("owner", "active") => Cardinality(ActiveOwners) > 0
KeepsAnOwner(u, new) ==
    u \in ActiveOwners /\ new # Member("owner", "active") => Cardinality(ActiveOwners) > 1

\* Mutant: a user who is no member is not refused.
BeginUpdate_Unknown(r, u, new) ==
    /\ ManagesMembers(r)
    /\ WorkspaceFree
    /\ KeepsAnOwner(u, new)
    /\ Goes(r, [request[r] EXCEPT !.stage = "update", !.of = u, !.change = new])
    /\ UNCHANGED <<member, password, cred, pairing, exchanged, paired, verified, stray>>

\* Update locks the workspace and the member, and decides.
BeginUpdate(r, u, new) ==
    /\ ManagesMembers(r)
    /\ WorkspaceFree
    /\ member[u] # NoMember
    /\ new # member[u]
    /\ KeepsAnOwner(u, new)
    /\ Goes(r, [request[r] EXCEPT !.stage = "update", !.of = u, !.change = new])
    /\ UNCHANGED <<member, password, cred, pairing, exchanged, paired, verified, stray>>

\* Mutant: keys are forgotten when a member is disabled.
Disabled_SessionsOnly(u) == Of(u, Sessions)
\* What a member loses when it is disabled.
Disabled(u) == Of(u, Credentials)

\* The member is written and, when it is disabled, loses its credentials,
\* once the refreshes that hold one of its sessions are over.
CommitUpdate(r) ==
    /\ request[r].stage = "update"
    /\ LET u == request[r].of
           new == request[r].change
       IN  /\ member' = [member EXCEPT ![u] = new]
           /\ IF Active(u) /\ new.status = "disabled"
              THEN SessionsFree(Disabled(u)) /\ cred' = Revoked(Disabled(u)) /\ CutsOff(r, u)
              ELSE cred' = cred /\ Done(r)
    /\ UNCHANGED <<password, pairing, exchanged, paired, verified, stray>>

----------------------------------------------------------------------------
(* Pairing of a device. *)

\* Neither claimed nor revoked, expired or not.
Unclaimed(u) == {p \in Pairings : pairing[p].user = u /\ pairing[p].state \in {"open", "expired"}}

\* An unclaimed pairing is revoked by the next one.
Superseded(u) ==
    [p \in Pairings |-> IF p \in Unclaimed(u) THEN [pairing[p] EXCEPT !.state = "revoked"]
                        ELSE pairing[p]]

\* The member's row is locked, and so are the pairings that are revoked.
CreatePairingSession(r, p) ==
    LET u == request[r].user IN
    /\ request[r].stage = "principal"
    /\ request[r].by \in Sessions
    /\ Active(u) /\ WorkspaceFree
    /\ \A q \in Unclaimed(u) : PairingFree(q)
    /\ pairing[p] = NoPairing
    /\ pairing' = [Superseded(u) EXCEPT ![p] = [user |-> u, state |-> "open"]]
    /\ Done(r)
    /\ UNCHANGED <<member, password, cred, exchanged, paired, verified, stray>>

\* A claim finds pairing, user and member ...
BeginClaim(r, p) ==
    /\ request[r] = Idle
    /\ pairing[p].state = "open"
    /\ Active(pairing[p].user)
    /\ Goes(r, [Idle EXCEPT !.stage = "pairing", !.user = pairing[p].user, !.of = p])
    /\ UNCHANGED <<member, password, cred, pairing, exchanged, paired, verified, stray>>

\* Mutant: the pairing is found in one statement and locked by its id in another.
LockPairing_NoRecheck(r) ==
    /\ request[r].stage = "pairing"
    /\ PairingFree(request[r].of)
    /\ Goes(r, [request[r] EXCEPT !.stage = "claim"])
    /\ UNCHANGED <<member, password, cred, pairing, exchanged, paired, verified, stray>>

\* ... waits for the pairing, looks at it again and locks it ...
LockPairing(r) ==
    LET p == request[r].of IN
    /\ request[r].stage = "pairing"
    /\ PairingFree(p)
    /\ p \in Unclaimed(request[r].user)
    /\ Goes(r, [request[r] EXCEPT !.stage = "claim"])
    /\ UNCHANGED <<member, password, cred, pairing, exchanged, paired, verified, stray>>

Consumed(p) == [pairing EXCEPT ![p].state = "claimed"]

\* ... inserts the session and consumes the pairing.
FinishClaim(r, s) ==
    LET p == request[r].of IN
    /\ request[r].stage = "claim"
    /\ WorkspaceFree
    /\ cred[s] = NoCredential
    /\ cred' = New(s, request[r].user)
    /\ pairing' = Consumed(p)
    /\ paired' = [paired EXCEPT ![p] = @ \cup {s}]
    /\ Makes(r, s)
    /\ UNCHANGED <<member, password, exchanged, verified>>

----------------------------------------------------------------------------
(* Passwords. *)

\* The hash is read and the current password verified against it.
ReadPassword(r) ==
    /\ request[r].stage = "principal"
    /\ request[r].by \in Sessions
    /\ Active(request[r].user)
    /\ Goes(r, [request[r] EXCEPT !.stage = "password", !.seen = password[request[r].user]])
    /\ UNCHANGED <<member, password, cred, pairing, exchanged, paired, verified, stray>>

\* The hash must still be the one that was verified; every session ends.
ChangePassword(r) ==
    LET u == request[r].user IN
    /\ request[r].stage = "password"
    /\ Active(u) /\ WorkspaceFree
    /\ password[u] = request[r].seen
    /\ password[u] < MaxPasswords
    /\ password' = [password EXCEPT ![u] = @ + 1]
    /\ SessionsFree(Of(u, Sessions))
    /\ cred' = Revoked(Of(u, Sessions))
    /\ CutsOff(r, u)
    /\ UNCHANGED <<member, pairing, exchanged, paired, verified, stray>>

----------------------------------------------------------------------------
\* A request ends without a change: an error, a conflict, a rollback.  A refresh
\* that holds a session and an update that has locked the workspace may wait
\* for each other; PostgreSQL then rolls one of them back.
Abandon(r) ==
    /\ request[r] # Idle
    /\ Done(r)
    /\ UNCHANGED <<member, password, cred, pairing, exchanged, paired, verified, stray>>

\* Time passes.
LapseCredential(k) ==
    /\ Usable(k)
    /\ cred' = [cred EXCEPT ![k].state = IF k \in Sessions /\ @ = "live" THEN "lapsed" ELSE "expired"]
    /\ UNCHANGED <<member, password, pairing, request, exchanged, paired, verified, late, stray>>

\* A claim that has begun took its time before the pairing lapsed.
LapsePairing(p) ==
    /\ pairing[p].state = "open"
    /\ pairing' = [pairing EXCEPT ![p].state = "expired"]
    /\ UNCHANGED <<member, password, cred, request, exchanged, paired, verified, late, stray>>

Next ==
    \/ \E r \in Requests :
          \/ \E u \in Users : FindLoginAccount(r, u)
          \/ \E s \in Sessions : CreateSession(r, s) \/ FinishClaim(r, s) \/ RevokeDeviceSession(r, s)
          \/ \E k \in Credentials : Authenticate(r, k)
          \/ \E s \in Sessions, g \in 0..MaxRotations : RotateSession(r, s, g)
          \/ LockSession(r) \/ CommitRotation(r)
          \/ \E k \in Keys : CreateKey(r, k) \/ RevokeKey(r, k)
          \/ \E u \in Users, role \in Roles : CreateMember(r, u, role)
          \/ \E u \in Users, role \in Roles, status \in Statuses : BeginUpdate(r, u, Member(role, status))
          \/ CommitUpdate(r)
          \/ \E p \in Pairings : CreatePairingSession(r, p) \/ BeginClaim(r, p)
          \/ LockPairing(r)
          \/ ReadPassword(r) \/ ChangePassword(r) \/ Abandon(r)
    \/ \E s \in Sessions : Logout(s)
    \/ \E k \in Credentials : LapseCredential(k)
    \/ \E p \in Pairings : LapsePairing(p)

Spec == Init /\ [][Next]_vars

----------------------------------------------------------------------------
\* The workspace always has an active owner, although two owners may demote
\* or disable each other at the same time.
SomeOwner == ActiveOwners # {}

\* A refresh token is exchanged for the first time or not at all, while its session
\* is not revoked and its user a member, although the UPDATE has found all this in an
\* earlier state: another refresh, a logout, a change of password or of the member
\* may have come first.
RefreshOnce ==
    [][\A s \in Sessions, g \in 0..MaxRotations :
          exchanged'[s][g] # exchanged[s][g] =>
              exchanged[s][g] = 0 /\ cred[s].state # "revoked" /\ Active(cred[s].user)]_vars

OpenPairings(u) == {p \in Pairings : pairing[p] = [user |-> u, state |-> "open"]}

\* A pairing makes at most one session, although two claims may have found it, and a
\* user has at most one pairing open.
PairingIsOneTime ==
    /\ \A p \in Pairings : Cardinality(paired[p]) <= 1
    /\ \A u \in Users : Cardinality(OpenPairings(u)) <= 1

\* A disabled member has no usable credential, and no session that was logged in with an
\* earlier password is usable, but for what a request made that was in flight
\* at that moment: neither a login, a pairing, a refresh nor a key made by a key
\* brings a member back afterwards, and being active again revives nothing.
OnlyStraysSurvive ==
    \A k \in Credentials \ stray :
        Usable(k) =>
            /\ Active(cred[k].user)
            /\ k \in Sessions => verified[k] \in {None, password[cred[k].user]}
=============================================================================

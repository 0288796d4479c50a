----------------------------- MODULE MCAccess -----------------------------
(***************************************************************************)
(* Instances of Access for TLC.  A behaviour is about members (two users,  *)
(* two roles, two sessions, a key or a pairing), about refreshes (two      *)
(* owners, two sessions, one rotation and a change of password) or about   *)
(* devices (one owner, three sessions, two pairings and a change of        *)
(* password).                                                              *)
(***************************************************************************)
EXTENDS Access, TLC

CONSTANT Scenarios
VARIABLE scenario

SessionsMade == {s \in Sessions : cred[s] # NoCredential}
PairingsMade == {p \in Pairings : pairing[p] # NoPairing}
NoKeys == \A k \in Keys : cred[k] = NoCredential
Refreshing == \E r \in Requests : request[r].stage = "refresh"
ChangesPassword == \E r \in Requests : request[r].stage = "password"

AboutMembers ==
    /\ Cardinality(SessionsMade) <= 2 /\ Cardinality(PairingsMade) <= 1
    /\ NoKeys \/ PairingsMade = {}
    /\ ~Refreshing /\ ~ChangesPassword

AboutRefreshes ==
    /\ Cardinality(SessionsMade) <= 2 /\ PairingsMade = {} /\ NoKeys
    /\ \A u \in Users : member[u].role \in {"owner", "none"}
    /\ \A r \in Requests : request[r].change.role \in {"owner", "none"}

AboutDevices ==
    /\ NoKeys /\ ~Refreshing
    /\ \A u \in Users \ {Founder} : member[u] = NoMember

Within ==
    /\ scenario = "members" => AboutMembers
    /\ scenario = "refreshes" => AboutRefreshes
    /\ scenario = "devices" => AboutDevices

MCInit == Init /\ scenario \in Scenarios
MCNext == Next /\ UNCHANGED scenario /\ Within'
MCSpec == MCInit /\ [][MCNext]_<<vars, scenario>>

AccessSymmetry ==
    Permutations(Requests) \cup Permutations(Sessions) \cup Permutations(Keys)
        \cup Permutations(Pairings)
===========================================================================

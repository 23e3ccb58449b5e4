---------------------------- MODULE RoomLifecycle ----------------------------
(***************************************************************************)
(* What the room service promises, without transactions, locks or rows: a  *)
(* room is opened by its host, people come and go, the host hands over, and *)
(* the room ends with its last member.  Who is kicked stays out, and who    *)
(* has withdrawn calls no more.                                            *)
(*                                                                         *)
(* A withdrawal takes no part in this: it may come between the decision of *)
(* a handler and its commit.  The actions say what is left of the promise  *)
(* then: a call that came before the withdrawal is still carried out, and  *)
(* the member that the room should pass to may be gone as well.            *)
(***************************************************************************)
CONSTANTS Users, Rooms

VARIABLES
  phase,   \* "absent", "open" or "deleted", per room
  role,    \* what each user is in each room; "out" and "kicked" are not in it
  gone,    \* users whose account is withdrawn
  calling  \* users with a call under way

vars == <<phase, role, gone, calling>>

Inside == {"HOST", "MEMBER"}

NobodyIn(m, us) == \A u \in us : role[m][u] \notin Inside

\* u is in room m with role r, or has withdrawn, perhaps out of that role.
IsOrGone(m, u, r) == role[m][u] = r \/ (u \in gone /\ role[m][u] \notin Inside)

\* Who is not in any more is left alone.
Becomes(old, new) == IF old \in Inside THEN new ELSE old

\* u acts: the call that does it ends now or later.
Acts(u) == u \in calling /\ calling' \subseteq calling

-----------------------------------------------------------------------------
(* Calls                                                                   *)

Call(u) ==
  /\ u \notin gone
  /\ calling' = calling \cup {u}
  /\ UNCHANGED <<phase, role, gone>>

\* Calls end without effect.
HangUp == calling' \subseteq calling /\ UNCHANGED <<phase, role, gone>>

-----------------------------------------------------------------------------
(* Rooms and their members                                                 *)

Open(m, u) ==
  /\ Acts(u)
  /\ phase[m] = "absent"
  /\ phase' = [phase EXCEPT ![m] = "open"]
  /\ role' = [role EXCEPT ![m][u] = "HOST"]
  /\ UNCHANGED gone

Join(m, u) ==
  /\ Acts(u)
  /\ phase[m] = "open"
  /\ role[m][u] = "out"
  /\ role' = [role EXCEPT ![m][u] = "MEMBER"]
  /\ UNCHANGED <<phase, gone>>

Leave(m, u) ==
  /\ Acts(u)
  /\ phase[m] = "open"
  /\ role[m][u] = "MEMBER"
  /\ role' = [role EXCEPT ![m][u] = "out"]
  /\ UNCHANGED <<phase, gone>>

\* The only host leaves and v takes over, unless v is gone.
HandOver(m, u, v) ==
  /\ Acts(u) /\ u # v
  /\ phase[m] = "open"
  /\ IsOrGone(m, u, "HOST") /\ IsOrGone(m, v, "MEMBER")
  /\ \A w \in Users \ {u} : role[m][w] # "HOST"
  /\ role' = [role EXCEPT ![m] = [w \in Users |->
                 IF w = u THEN Becomes(@[w], "out")
                 ELSE IF w = v THEN Becomes(@[w], "HOST") ELSE @[w]]]
  /\ UNCHANGED <<phase, gone>>

\* The last one who is in leaves.
Close(m, u) ==
  /\ Acts(u)
  /\ phase[m] = "open"
  /\ IsOrGone(m, u, "HOST") /\ NobodyIn(m, Users \ {u})
  /\ phase' = [phase EXCEPT ![m] = "deleted"]
  /\ role' = [role EXCEPT ![m][u] = Becomes(@, "out")]
  /\ UNCHANGED gone

Kick(m, u, v) ==
  /\ Acts(u) /\ u # v
  /\ phase[m] = "open"
  /\ IsOrGone(m, u, "HOST") /\ IsOrGone(m, v, "MEMBER")
  /\ role' = [role EXCEPT ![m][v] = "kicked"]
  /\ UNCHANGED <<phase, gone>>

\* A withdrawal ends the memberships it has found.
Withdraw(u, ms) ==
  /\ Acts(u)
  /\ u \notin gone
  /\ \A m \in ms : role[m][u] \in Inside
  /\ role' = [m \in Rooms |-> [role[m] EXCEPT ![u] = IF m \in ms THEN "out" ELSE @]]
  /\ gone' = gone \cup {u}
  /\ UNCHANGED phase

-----------------------------------------------------------------------------
(* Specification                                                           *)

\* A room has no members before it is opened, and then a host and others.
Init ==
  /\ phase \in [Rooms -> {"absent", "open"}]
  /\ role \in [Rooms -> [Users -> Inside \cup {"out"}]]
  /\ \A m \in Rooms :
       IF phase[m] = "absent" THEN NobodyIn(m, Users)
       ELSE \E u \in Users : \A v \in Users : role[m][v] = "HOST" <=> v = u
  /\ gone = {} /\ calling = {}

Next ==
  \/ HangUp
  \/ \E u \in Users : Call(u)
  \/ \E m \in Rooms, u \in Users : Open(m, u) \/ Join(m, u) \/ Leave(m, u) \/ Close(m, u)
  \/ \E m \in Rooms, u, v \in Users : HandOver(m, u, v) \/ Kick(m, u, v)
  \/ \E u \in Users, ms \in SUBSET Rooms : Withdraw(u, ms)

Spec == Init /\ [][Next]_vars

=============================================================================

----------------------------- MODULE FramePool -----------------------------
(***************************************************************************)
(* What the free frame list of a memory device (src/mm-memphy.c) promises  *)
(* its users: a frame is handed to one of them at most, for good, and as   *)
(* long as there is a free frame a request for one succeeds.               *)
(***************************************************************************)
CONSTANTS Frame, User

VARIABLES owner,       \* owner[f]: the users frame f was handed to
          refused      \* some request was refused

Init ==
  /\ owner = [f \in Frame |-> {}]
  /\ refused = FALSE

Take(u) == \E f \in Frame :
  /\ owner[f] = {}
  /\ owner' = [owner EXCEPT ![f] = {u}]
  /\ UNCHANGED refused

Refuse ==
  /\ \A f \in Frame : owner[f] # {}
  /\ refused' = TRUE
  /\ UNCHANGED owner

Next == Refuse \/ \E u \in User : Take(u)

Spec == Init /\ [][Next]_<<owner, refused>>

=============================================================================

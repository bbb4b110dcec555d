-------------------------------- MODULE Calls -------------------------------
(***************************************************************************)
(* Sequential composition of method calls: call is applied to the value v. *)
(* (Choosing from a singleton makes TLC evaluate v once.)                  *)
(***************************************************************************)
Then(v, call(_)) == CHOOSE result \in {call(x) : x \in {v}} : TRUE
=============================================================================

------------------------------- MODULE MCEditor -------------------------------
(* An instance of Editor for TLC: two entities, whose colliders differ from level
   to level in the model and in the kind of the body. *)
EXTENDS Editor, TLC

CONSTANTS crate, rock, none

Plain(model, kind) == [model |-> model, kind |-> kind, auto |-> FALSE]
Fitted(model, kind) == [model |-> model, kind |-> kind, auto |-> TRUE]

\* A static and a moving body of one model; the former become a moving one, alone;
\* another model, and a collider without one.
ThreeLevels ==
  {1 :> Fitted(crate, "static") @@ 2 :> Fitted(crate, "moving"),
   1 :> Fitted(crate, "moving"),
   1 :> Plain(rock, "static") @@ 2 :> Plain(none, "static")}
===============================================================================

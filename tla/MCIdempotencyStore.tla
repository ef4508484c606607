---- MODULE MCIdempotencyStore ----
(* IdempotencyStore on the small instance of its .cfg file. *)
EXTENDS IdempotencyStore
====

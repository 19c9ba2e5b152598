----------------------------- MODULE MCSessions -----------------------------
(***************************************************************************)
(* Sessions for TLC, with the refinement mapping to CommandService.        *)
(***************************************************************************)
EXTENDS Sessions

\* What the caller of c sees of its progress.
Status(c) ==
  CASE pc[c] = "new" -> "new"
    [] pc[c] \in {"return", "returned"} -> IF outcome[c] = "ok" THEN "ok" ELSE "failed"
    [] OTHER -> "running"

Abstract == INSTANCE CommandService WITH
  status  <- [c \in Calls |-> Status(c)],
  kind    <- op,
  genuine <- [c \in Calls |-> pin[c] = "valid"],
  torn    <- stale

\* The threads, events, lock and queues implement the one-at-a-time service.
ImplementsCommandService == Abstract!Spec
=============================================================================

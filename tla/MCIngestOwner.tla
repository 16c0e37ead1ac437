--------------------------- MODULE MCIngestOwner ---------------------------
(* IngestOwner with two concurrent callers: optimistic changes that conflict, *)
(* a directory change that renews every row, a sweep and a credential check.  *)
EXTENDS IngestOwnerProperties

MCOperations ==
    {[kind |-> "credential", member |-> "m"],
     [kind |-> "change", member |-> "m", row |-> "d1", target |-> "retired", expected |-> 0],
     [kind |-> "change", member |-> "a", row |-> "d1", target |-> "retired", expected |-> 1],
     [kind |-> "change", member |-> "a", row |-> "d2", target |-> "retired", expected |-> 0],
     [kind |-> "directory", expected |-> 0, active |-> {"a"}],
     [kind |-> "sweep"]}
=============================================================================

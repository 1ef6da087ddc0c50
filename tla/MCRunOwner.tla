---- MODULE MCRunOwner ----
(* The instance of RunOwner for TLC. *)
EXTENDS RunOwner

\* A run with a completion task or with a blocked send, not with both.
OneKind ==
  \/ \A t \in Tasks : task[t].state = "none"
  \/ /\ \A l \in Leases : lease[l] = "idle"
     /\ \A w \in Workers : held[w] = "none"

MCSpec == Init /\ [][Next /\ OneKind']_vars /\ WF_vars(Progress)
====

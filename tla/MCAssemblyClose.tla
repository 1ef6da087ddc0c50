---- MODULE MCAssemblyClose ----
(* The instance of AssemblyClose for TLC. *)
EXTENDS AssemblyClose, FiniteSets

\* At most three users: runs, calls of Close, and kinds of work.
FewUsers ==
    Cardinality({r \in Runs : call[r] # "new"})
      + Cardinality({k \in Closers : at[k] # "new"})
      + Cardinality({k \in Kinds : work[k] # "none"} \union (owned \intersect HandedOver))
    <= 3

MCSpec ==
    /\ AssemblyInit
    /\ [][AssemblyNext /\ FewUsers']_assemblyVars
    /\ WF_assemblyVars(AssemblyProgress)
====

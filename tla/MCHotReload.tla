----------------------------- MODULE MCHotReload -----------------------------
EXTENDS HotReload

\* The two reloaders of NewDefaultHotReloader and of the assembly.
BothModes == {[config |-> FALSE, revision |-> FALSE], [config |-> TRUE, revision |-> TRUE]}
==============================================================================

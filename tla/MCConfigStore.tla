----------------------------- MODULE MCConfigStore -----------------------------
(* Small instances of ConfigStore. *)
EXTENDS ConfigStore, TLC

CONSTANTS v1, v2

Legacy(v)  == [schema |-> 0, data |-> v]
Current(v) == [schema |-> SchemaVersion, data |-> v]

\* What a machine with nbshell may hold: a file that is not JSON, an unversioned
\* document, a current one; and one of them alone.
FoundConfigs == {Broken, Legacy(v1), Current(v2)}
LegacyOnly  == {Legacy(v1)}
=============================================================================

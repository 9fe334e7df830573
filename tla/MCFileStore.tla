------------------------------ MODULE MCFileStore ------------------------------
(* Instances of FileStore for TLC. *)
EXTENDS FileStore

CONSTANTS alice, bob, s1, s2

\* alice shares with bob in s1, bob with alice in s2.
MCSender == [s \in Sessions |-> IF s = s1 THEN alice ELSE bob]
MCReceiver == [s \in Sessions |-> IF s = s1 THEN bob ELSE alice]

=============================================================================

----------------------------- MODULE MCStapling -----------------------------
(***************************************************************************)
(* Stapling for TLC: two server statuses (a good and a revoked one) and   *)
(* three handshakes.                                                       *)
(***************************************************************************)
EXTENDS Stapling, TLC

MCTokens == {"good", "revoked"}

\* Connections are interchangeable.
Symmetry == Permutations(Conns)

=============================================================================

------------------------------ MODULE MCLease ------------------------------
(* Small instances of Lease.                                               *)
EXTENDS Lease

CONSTANTS a, b, c

=============================================================================

--------------------------- MODULE ExclusiveLease ---------------------------
(***************************************************************************)
(* What one row of coord_locks or coord_elections promises to its users:   *)
(* a lease that has at most one owner, is taken from nobody before it has  *)
(* run out, and is given up only by its owner or after it has run out.     *)
(*                                                                         *)
(* Time is kept as the time LEFT: `left' is expires_at - now in whole      *)
(* ticks, or -1 once expires_at < now.  No absolute clock is needed, so    *)
(* time may pass for ever in a finite model.                               *)
(***************************************************************************)
EXTENDS Integers

CONSTANTS
  Clients,   \* holder ids / candidate ids
  NoOne,     \* there is no row
  MaxLease   \* the longest time a caller may ask for, in ticks

VARIABLES
  owner,     \* holder_id / leader_id of the row, NoOne when there is no row
  left       \* time left of the row, -1 when it has run out

leaseVars == <<owner, left>>

LeaseTypeOK ==
  /\ owner \in Clients \cup {NoOne}
  /\ left \in -1..MaxLease

LeaseInit == owner = NoOne /\ left = -1

(* A client obtains the lease, or extends the one it owns. *)
Take(c) ==
  /\ owner \in {NoOne, c} \/ left < 0
  /\ owner' = c
  /\ left' \in 0..MaxLease

(* The row disappears: its owner gives it up, or it has run out. *)
Drop ==
  /\ owner # NoOne
  /\ owner' = NoOne
  /\ left' = -1

Pass(t) == IF t < 0 THEN -1 ELSE t - 1

LeaseTick ==
  /\ left' = Pass(left)
  /\ UNCHANGED owner

LeaseNext ==
  \/ \E c \in Clients : Take(c)
  \/ Drop
  \/ LeaseTick

LeaseSpec == LeaseInit /\ [][LeaseNext]_leaseVars
=============================================================================

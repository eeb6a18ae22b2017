------------------------------ MODULE ChordUuid ------------------------------
(***************************************************************************)
(* Identifiers of the chord ring: class chord::uuid (chord.uuid.h) and the *)
(* start of a finger interval (Router::calc_successor_uuid_for_index).     *)
(* BITS is 256 in the program; every run takes a small one.                *)
(***************************************************************************)
EXTENDS Integers

CONSTANT BITS

(* The unsigned type wraps at 2^BITS; MaxUuid is numeric_limits::max().    *)
Ring == 2^BITS
MaxUuid == Ring - 1
Uuid == 0 .. MaxUuid
Index == 0 .. (BITS - 1)

(* What the provers need to know of powers of two (they know nothing of    *)
(* the exponentiation operator); TLC evaluates it.                         *)
ASSUME BitsAssumption ==
    /\ BITS \in Nat
    /\ BITS >= 2
    /\ \A i \in 0 .. BITS : 2^i \in Nat /\ 2^i >= 1
    /\ \A i, j \in 0 .. BITS : i < j => 2 * 2^i <= 2^j

(* Mutant: the lower bound taken for a member.                             *)
BetweenClosed(lower, element, upper) ==
    IF lower < upper THEN lower <= element /\ element < upper
                     ELSE lower <= element \/ element < upper

(* uuid::between: the open interval (lower, upper) going clockwise.        *)
Between(lower, element, upper) ==
    IF lower < upper THEN lower < element /\ element < upper
                     ELSE lower < element \/ element < upper

(* (self + 2^i) wraps at the width of the type, and is then reduced modulo *)
(* the LARGEST value of the type: an interval that should start at MaxUuid *)
(* starts at 0.                                                            *)
calc_successor_uuid_for_index(self, i) == ((self + 2^i) % Ring) % MaxUuid

(* Clockwise distance: the reference the runs and the proofs compare with. *)
Distance(from, to) == IF from <= to THEN to - from ELSE to - from + Ring
=============================================================================

---------------------------- MODULE EloopTime ----------------------------
(***************************************************************************)
(* The arithmetic on struct os_reltime that eloop's timers rest on         *)
(* (eloop/src/eloop.c).  A time is a record of seconds and microseconds,   *)
(* and the functions compare, subtract and advance the two fields          *)
(* separately.  The module has no state.                                   *)
(***************************************************************************)
EXTENDS Integers

CONSTANTS
    USEC,    \* microseconds in a second: 1000000 in the code, less in TLC
    IntMax   \* the largest int: 2^31 - 1 in the code, less in TLC

ASSUME TimeAssumption == /\ USEC \in Nat \ {0}
                         /\ IntMax \in Nat \ {0}

UIntMax == 2 * IntMax + 1

(* What a variable of type struct os_reltime can hold; os_time_t is a 64-bit *)
(* long, which no sum below overflows.                                       *)
RelTime == [sec : Int, usec : Int]

(* What os_get_reltime returns: microseconds below one second. *)
ClockTime == [sec : Nat, usec : 0 .. USEC - 1]

Zero == [sec |-> 0, usec |-> 0]

(* os_reltime_before: the lexicographic order of the two fields. *)
Before(a, b) == \/ a.sec < b.sec
                \/ a.sec = b.sec /\ a.usec < b.usec

(* Mutant of Sub: no borrow. *)
SubNoBorrow(a, b) == [sec |-> a.sec - b.sec, usec |-> a.usec - b.usec]

(* os_reltime_sub: borrows one second, once, when the microseconds go below 0. *)
Sub(a, b) ==
    LET s == a.sec - b.sec
        u == a.usec - b.usec
    IN  IF u < 0 THEN [sec |-> s - 1, usec |-> u + USEC]
                 ELSE [sec |-> s, usec |-> u]

(* The conversion (int)u of an unsigned int. *)
CInt(u) == IF u > IntMax THEN u - (UIntMax + 1) ELSE u

(* Mutant of Carry: the while loop is missing. *)
NoCarry(t) == t

(* The while loop of eloop_register_timeout that carries microseconds into    *)
(* seconds.  It leaves negative microseconds as they are.                     *)
Carry(t) == IF t.usec < 0 THEN t
            ELSE [sec |-> t.sec + (t.usec \div USEC), usec |-> t.usec % USEC]

(* How long select() may sleep at clock c before a timer at t is due: the      *)
(* difference, or zero for a timer that is due already.                       *)
Remaining(t, c) == IF Before(c, t) THEN Sub(t, c) ELSE Zero

(* The number of microseconds a time stands for. *)
Instant(t) == t.sec * USEC + t.usec

(* The clock reading one microsecond after c. *)
NextInstant(c) == IF c.usec = USEC - 1 THEN [sec |-> c.sec + 1, usec |-> 0]
                  ELSE [c EXCEPT !.usec = @ + 1]
==========================================================================

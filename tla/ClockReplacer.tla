--------------------------- MODULE ClockReplacer ---------------------------
(***************************************************************************)
(* The clock of src/replacer/clock_replacer.h.  Its methods run under the  *)
(* latch of the buffer pool that owns it, so they are operators on its     *)
(* state: which frames are candidates, their reference bits, the hand, and *)
(* the number of candidates.                                               *)
(***************************************************************************)
EXTENDS Integers

CONSTANT pool_size

Frames == 0 .. pool_size - 1

Replacer == [in_replacer : [Frames -> BOOLEAN], ref : [Frames -> BOOLEAN],
             hand : Frames, size : Int]

NewReplacer == [in_replacer |-> [f \in Frames |-> FALSE],
                ref |-> [f \in Frames |-> FALSE], hand |-> 0, size |-> 0]

(* The frame under the hand after k turns *)
At(rep, k) == (rep.hand + k) % pool_size

(* Where the hand stops: at a candidate without reference bit.  The first  *)
(* round clears the bits, so the second one stops at any candidate.        *)
StopsAt(rep, k) ==
    /\ rep.in_replacer[At(rep, k)]
    /\ rep.ref[At(rep, k)] => k >= pool_size

Stops(rep) == {k \in 0 .. 2 * pool_size - 1 : StopsAt(rep, k)}

CanEvict(rep) == rep.size # 0 /\ Stops(rep) # {}

FirstStop(rep) == CHOOSE k \in Stops(rep) : \A j \in Stops(rep) : k <= j

victim_frame(rep) == At(rep, FirstStop(rep))

victim(rep) ==
    LET n      == FirstStop(rep)
        passed == {At(rep, k) : k \in 0 .. n - 1}
    IN  [in_replacer |-> [rep.in_replacer EXCEPT ![At(rep, n)] = FALSE],
         ref  |-> [f \in Frames |-> /\ rep.ref[f]
                                    /\ ~(f \in passed /\ rep.in_replacer[f])],
         hand |-> At(rep, n + 1),
         size |-> rep.size - 1]

pin(rep, f) ==
    IF rep.in_replacer[f]
      THEN [rep EXCEPT !.in_replacer[f] = FALSE, !.ref[f] = FALSE, !.size = @ - 1]
      ELSE rep

unpin(rep, f) ==
    [rep EXCEPT !.in_replacer[f] = TRUE, !.ref[f] = TRUE,
                !.size = IF rep.in_replacer[f] THEN @ ELSE @ + 1]
=============================================================================

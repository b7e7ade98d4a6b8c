------------------------------ MODULE Transfer ------------------------------
(***************************************************************************)
(* What pipeline() of stream.js promises whoever calls it: chunks reach the *)
(* last stream one by one, in the order of the source; the callback answers *)
(* once; and it answers "ok" only when every chunk is there, unless someone *)
(* has destroyed a stream meanwhile.                                       *)
(***************************************************************************)
EXTENDS Naturals, Sequences

CONSTANT Chunks   \* how many there are

VARIABLES moved,     \* the chunks the last stream has been given
          result,    \* "open" until the callback is called
          givenUp    \* a stream was destroyed by the application

transferVars == <<moved, result, givenUp>>

Complete == Len(moved) = Chunks

Init == moved = <<>> /\ result = "open" /\ givenUp = FALSE

Move ==
    /\ ~ Complete
    /\ moved' = Append(moved, Len(moved) + 1)
    /\ UNCHANGED <<result, givenUp>>

Answer ==
    /\ result = "open"
    /\ \/ result' = "failed"
       \/ (Complete \/ givenUp) /\ result' = "ok"
    /\ UNCHANGED <<moved, givenUp>>

GiveUp == givenUp' = TRUE /\ UNCHANGED <<moved, result>>

Next == Move \/ Answer \/ GiveUp

Spec == Init /\ [][Next]_transferVars
=============================================================================

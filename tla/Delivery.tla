------------------------------ MODULE Delivery ------------------------------
(***************************************************************************)
(* What a conversion of an upstream's stream promises to the client,       *)
(* whatever the two protocols are: the client hears the pieces of the      *)
(* answer in the order in which the upstream said them, none twice, none   *)
(* skipped, and is told that the answer is over only once and only when    *)
(* it has heard all that was said.  StreamConverters and Node are shown to *)
(* implement it.                                                           *)
(***************************************************************************)
EXTENDS Naturals, Sequences

CONSTANT Piece

VARIABLES
    said,    \* the pieces the upstream has said
    heard,   \* the pieces the client has received
    over     \* how often the client has been told that the answer is over

vars == <<said, heard, over>>

Init == said = <<>> /\ heard = <<>> /\ over = 0

Say(p) ==
    /\ said' = Append(said, p)
    /\ UNCHANGED <<heard, over>>

Hear ==
    /\ over = 0
    /\ Len(heard) < Len(said)
    /\ heard' = Append(heard, said[Len(heard) + 1])
    /\ UNCHANGED <<said, over>>

Close ==
    /\ over = 0 /\ heard = said
    /\ over' = 1
    /\ UNCHANGED <<said, heard>>

Next == (\E p \in Piece : Say(p)) \/ Hear \/ Close

Spec == Init /\ [][Next]_vars
=============================================================================

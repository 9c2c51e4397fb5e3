------------------------------ MODULE MC_Account ------------------------------
(* One machine and those elsewhere, two phrases; either name has one address *)
(* left, so that a rename may have to give the discriminator up.             *)
EXTENDS Account, TLC

CONSTANTS ann, bob, zero, one

TakenAddresses == {<<ann, zero>>, <<bob, one>>}

(* The keys are interchangeable, and so are the two addresses left: Taken    *)
(* stays what it is when both the names and the discriminators change place. *)
ChangePlaces == ann :> bob @@ bob :> ann @@ zero :> one @@ one :> zero
StayInPlace == [x \in DOMAIN ChangePlaces |-> x]
Symmetry == {p @@ q : p \in Permutations(Keys), q \in {ChangePlaces, StayInPlace}}
=============================================================================

------------------------------- MODULE MCLibrary -------------------------------
(* The hash functions and the sampling of vectors, which share no state: a    *)
(* behaviour is one of the one or one of the other.  Lanes have two bytes     *)
(* instead of eight, and the permutation is none but mixes the bytes so that  *)
(* any slip shows.                                                            *)
EXTENDS Hashing, FixedWeight

MCPermute(s) ==
    << >> \o [i \in DOMAIN s |->
        LET next == s[(i % Len(s)) + 1]
        IN  (3 * next + s[i] * (next % 16) + i) % 256]

MCText(k) == (37 * k + 11) % 256

(* Pieces that end before, at and behind the end of a block.                *)
MCLengths(r) == {0, 1, r - 1, r, r + 1}

MCStarts == {[k \in Lanes |-> {}],
             [k \in Lanes |-> {(7 * k + 3 * b) % 64 : b \in 0 .. k + 4}]}

(* The tables of rotations and of the rounds' constants.                     *)
ASSUME TablesAssumption == TablesAgree

-----------------------------------------------------------------------------
LibraryInit == Init /\ SamplerInit

NothingSampled == weight = 0

\* One of the jobs, so that vectors are sampled once and not beside each.
NothingHashed == job = "permute" /\ A = [k \in Lanes |-> {}] /\ round = 0

LibraryNext ==
    \/ NothingSampled /\ Next /\ UNCHANGED samplerVars
    \/ NothingHashed /\ SamplerNext /\ UNCHANGED vars

LibrarySpec == LibraryInit /\ [][LibraryNext]_<<vars, samplerVars>>
===============================================================================

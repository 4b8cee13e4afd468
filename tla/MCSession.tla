------------------------------ MODULE MCSession ------------------------------
(* Seeds, characters and damaged bits for the sessions, and a stand-in for    *)
(* SHAKE-256 whose bytes have two bits.                                      *)
EXTENDS Session

MCParameters ==
    [l \in {"1", "3", "5"} |->
        CASE l = "1" -> [n |-> 19, n1n2 |-> 16, omega |-> 2, omega_r |-> 2, omega_e |-> 2]
          [] l = "3" -> [n |-> 29, n1n2 |-> 24, omega |-> 2, omega_r |-> 2, omega_e |-> 2]
          [] l = "5" -> [n |-> 37, n1n2 |-> 32, omega |-> 2, omega_r |-> 2, omega_e |-> 3]]

MCSeeds == {<<a, b>> : a \in {0, 3}, b \in 0..3}

(* A number that depends on every byte of a string, and the byte k made of it. *)
Digest(string) ==
    LET d[k \in 0..Len(string)] == IF k = 0 THEN 1 ELSE (d[k - 1] * 167 + 31 * string[k] + k) % 46337
    IN  d[Len(string)]

MCshake256(string, k) ==
    LET x == (Digest(string) + 7919 * k) % 46337
    IN  ((((x * x) % 46337) * x) % 46337) \div 11 % 4

(* Bytes of the first and of the second part of a ciphertext, the spare bit   *)
(* above the last coefficient of the first (19 = 2*9 + 1, ...), and the salt, *)
(* at each level.                                                             *)
MCDamagedBits == {<<0, 0>>, <<9, 1>>, <<14, 1>>, <<11, 0>>, <<18, 1>>, <<17, 0>>,
                  <<27, 0>>, <<36, 1>>}
==============================================================================

------------------------ MODULE MCBaileysConnection -------------------------
(* Instances of BaileysConnection for TLC. *)
EXTENDS BaileysConnection

CONSTANTS s1, s2, s3

ThreeSockets == {s1, s2, s3}

=============================================================================

---------------------------- MODULE MCIbssMerge ----------------------------
(* Small instances of IbssMerge: BSSIDs of two bytes. *)
EXTENDS IbssMerge, TLC

CONSTANTS s1, s2, s3

\* The bigger of two BSSIDs has a smaller second byte.
Crossed == (s1 :> <<1, 1>>) @@ (s2 :> <<2, 0>>) @@ (s3 :> <<0, 0>>)
=============================================================================

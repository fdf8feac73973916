------------------------- MODULE MCArtifactVerifier -------------------------
(***************************************************************************)
(* The verifiers on two artifact contents A1 and A2, one accepted scheme, *)
(* one the scheme switch rejects and one url.Parse rejects.              *)
(***************************************************************************)
EXTENDS ArtifactVerifier

CONSTANTS A1, A2

MCArtifacts == {A1, A2}
MCSchemes == {"https", "s3", "unparsable"}
MCOkSchemes == {"https"}

====

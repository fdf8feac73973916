-------------------------- MODULE AbstractVerifier --------------------------
(***************************************************************************)
(* What an ArtifactVerifier promises (src/pkg/auth/artifact_verifier.go,  *)
(* the comments of ArtifactVerifier and CompositeVerifier): a call of      *)
(* VerifyHoistArtifact ends once, and it returns no error only if the     *)
(* artifact was created by a trusted entity under the configured policy.  *)
(* It may always fail (a download or a read can fail).                     *)
(*                                                                         *)
(* The world a call sees: the policy, the scheme of the artifact's        *)
(* location, the artifact's content, whether its build manifest carries a *)
(* valid signature and which content that manifest certifies, and which   *)
(* content the artifact's own detached signature signs.                   *)
(***************************************************************************)

CONSTANTS
  Artifacts,   \* possible contents of the downloaded artifact
  Schemes,     \* location schemes, including one url.Parse rejects
  OkSchemes,   \* the schemes the verifiers accept: http, https, file
  NoSig        \* no artifact signature, or one over no artifact

VARIABLES
  mode, scheme, file, manSigned, manDigest, buildSig,
  result       \* "pending", "ok" or "rejected"

world == <<mode, scheme, file, manSigned, manDigest, buildSig>>

(* The four policies: VerifyNone, VerifyManifest, VerifyBuild, VerifyEither. *)
None == "none"
Manifest == "manifest"
Build == "build"
Either == "either"
Modes == {None, Manifest, Build, Either}

(* A signed build manifest certifies the artifact's content. *)
ManifestOK == scheme \in OkSchemes /\ manSigned /\ manDigest = file

(* The artifact's detached signature signs its content. *)
BuildOK == scheme \in OkSchemes /\ buildSig = file

Trusted ==
  \/ mode = None
  \/ mode = Manifest /\ ManifestOK
  \/ mode = Build /\ BuildOK
  \/ mode = Either /\ (ManifestOK \/ BuildOK)

WorldInit ==
  /\ mode \in Modes
  /\ scheme \in Schemes
  /\ file \in Artifacts
  /\ manSigned \in BOOLEAN
  /\ manDigest \in Artifacts
  /\ buildSig \in Artifacts \cup {NoSig}

Init == WorldInit /\ result = "pending"

Decide ==
  /\ result = "pending"
  /\ result' \in {"rejected"} \cup (IF Trusted THEN {"ok"} ELSE {})
  /\ UNCHANGED world

Spec == Init /\ [][Decide]_<<world, result>>

====

-------------------------- MODULE ArtifactVerifier --------------------------
(***************************************************************************)
(* The artifact verifiers of src/pkg/auth/artifact_verifier.go: the noop  *)
(* verifier, BuildManifestVerifier, BuildVerifier and CompositeVerifier,  *)
(* which tries the manifest verifier and, when it fails, rewinds the      *)
(* local copy with Seek(0) and tries the build verifier.                  *)
(*                                                                         *)
(* The local copy is an *os.File: both verifiers read it to the end, so   *)
(* its read position is part of the state.  Downloads, temporary files    *)
(* and reads can fail; url.Parse and the scheme switch reject a location. *)
(***************************************************************************)

EXTENDS Naturals

CONSTANTS
  Artifacts,   \* possible contents of the downloaded artifact
  Schemes,     \* location schemes, including one url.Parse rejects
  OkSchemes,   \* "http", "https", "file"
  NoSig,       \* no artifact signature, or one over no artifact
  Empty,       \* what ReadAll returns at the end of the file
  Partial      \* what ReadAll returns from the middle of the file

ASSUME SchemesAssumption == OkSchemes \subseteq Schemes
ASSUME BytesAssumption ==
  /\ Empty \notin Artifacts \cup {NoSig}
  /\ Partial \notin Artifacts \cup {NoSig, Empty}

VARIABLES
  mode, scheme, file, manSigned, manDigest, buildSig,  \* as in AbstractVerifier
  pos,      \* read position of localCopy: "start", "mid" or "end"
  pc,       \* "call", "man", "seek", "build" or "done"
  err,      \* the error returned so far
  faulted   \* some I/O step failed during the call (history, for properties)

world == <<mode, scheme, file, manSigned, manDigest, buildSig>>
vars == <<world, pos, pc, err, faulted>>

(* The policies named by the constants VerifyNone ... VerifyEither. *)
VerifyNone == "none"
VerifyManifest == "manifest"
VerifyBuild == "build"
VerifyEither == "either"

(* What ioutil.ReadAll(localCopy) returns from the current position. *)
Bytes == IF pos = "start" THEN file ELSE IF pos = "end" THEN Empty ELSE Partial

(***************************************************************************)
(* I/O faults of one verifier call: "io" is a failed TempDir, CopyLocal or *)
(* ReadFile (before the local copy is touched), "readlocal" a ReadAll of  *)
(* the local copy failing part way.                                       *)
(***************************************************************************)
Faults == {"none", "io", "readlocal"}

(***************************************************************************)
(* BuildManifestVerifier.VerifyHoistArtifact: the scheme, the downloads of *)
(* the manifest and its signature, verifySigned, then checkMatchingDigest, *)
(* which reads the local copy to the end and compares its SHA-256 with the *)
(* manifest's artifact_sha.                                                *)
(***************************************************************************)
ManifestCheck(f) ==
  IF scheme \notin OkSchemes \/ f = "io" \/ ~manSigned THEN [err |-> TRUE, pos |-> pos]
  ELSE IF f = "readlocal" THEN [err |-> TRUE, pos |-> "mid"]
  ELSE [err |-> manDigest # Bytes, pos |-> "end"]

(***************************************************************************)
(* BuildVerifier.VerifyHoistArtifact: the scheme, the download of the     *)
(* signature, then ReadAll of the local copy and verifySigned over it.    *)
(***************************************************************************)
BuildCheck(f) ==
  IF scheme \notin OkSchemes \/ f = "io" THEN [err |-> TRUE, pos |-> pos]
  ELSE IF f = "readlocal" THEN [err |-> TRUE, pos |-> "mid"]
  ELSE [err |-> buildSig # Bytes, pos |-> "end"]

-----------------------------------------------------------------------------
(* The configured verifier is called; noopVerifier returns nil at once. *)
Call ==
  /\ pc = "call"
  /\ pc' = CASE mode = VerifyNone -> "done"
             [] mode \in {VerifyManifest, VerifyEither} -> "man"
             [] mode = VerifyBuild -> "build"
  /\ err' = FALSE
  /\ UNCHANGED <<world, pos, faulted>>

(* The manifest verifier runs; CompositeVerifier falls back on an error. *)
ManifestVerify(f) ==
  /\ pc = "man"
  /\ LET o == ManifestCheck(f) IN
       /\ err' = o.err
       /\ pos' = o.pos
       /\ pc' = IF mode = VerifyEither /\ o.err THEN "seek" ELSE "done"
  /\ faulted' = (faulted \/ f # "none")
  /\ UNCHANGED world

(* Mutant: the local copy is not rewound before the fallback. *)
RewindNoSeek(ok) ==
  /\ pc = "seek"
  /\ pc' = IF ok THEN "build" ELSE "done"
  /\ err' = ~ok
  /\ faulted' = (faulted \/ ~ok)
  /\ UNCHANGED <<world, pos>>

(* Mutant: a failed Seek is taken for a successful verification. *)
RewindIgnoreError(ok) ==
  /\ pc = "seek"
  /\ pos' = IF ok THEN "start" ELSE pos
  /\ pc' = IF ok THEN "build" ELSE "done"
  /\ err' = FALSE
  /\ faulted' = (faulted \/ ~ok)
  /\ UNCHANGED world

(* CompositeVerifier: localCopy.Seek(0, os.SEEK_SET); its error is returned. *)
Rewind(ok) ==
  /\ pc = "seek"
  /\ pos' = IF ok THEN "start" ELSE pos
  /\ pc' = IF ok THEN "build" ELSE "done"
  /\ err' = ~ok
  /\ faulted' = (faulted \/ ~ok)
  /\ UNCHANGED world

(* The build verifier runs, alone or as the composite's fallback. *)
BuildVerify(f) ==
  /\ pc = "build"
  /\ LET o == BuildCheck(f) IN
       /\ err' = o.err
       /\ pos' = o.pos
  /\ pc' = "done"
  /\ faulted' = (faulted \/ f # "none")
  /\ UNCHANGED world

(* VerifyHoistArtifact has returned to the caller. *)
Returned ==
  /\ pc = "done"
  /\ UNCHANGED vars

-----------------------------------------------------------------------------
Init ==
  /\ mode \in {VerifyNone, VerifyManifest, VerifyBuild, VerifyEither}
  /\ scheme \in Schemes
  /\ file \in Artifacts
  /\ manSigned \in BOOLEAN
  /\ manDigest \in Artifacts
  /\ buildSig \in Artifacts \cup {NoSig}
  /\ pos = "start"
  /\ pc = "call"
  /\ err = FALSE
  /\ faulted = FALSE

Next ==
  \/ Call
  \/ \E f \in Faults : ManifestVerify(f)
  \/ \E ok \in BOOLEAN : Rewind(ok)
  \/ \E f \in Faults : BuildVerify(f)
  \/ Returned

Spec == Init /\ [][Next]_vars

(* The verdict the caller sees, once the call has returned. *)
Verdict == IF pc = "done" THEN IF err THEN "rejected" ELSE "ok" ELSE "pending"

AV == INSTANCE AbstractVerifier WITH result <- Verdict

-----------------------------------------------------------------------------
(* Every variable holds a value of its type. *)
TypeOK ==
  /\ mode \in {VerifyNone, VerifyManifest, VerifyBuild, VerifyEither}
  /\ scheme \in Schemes
  /\ file \in Artifacts
  /\ manSigned \in BOOLEAN
  /\ manDigest \in Artifacts
  /\ buildSig \in Artifacts \cup {NoSig}
  /\ pos \in {"start", "mid", "end"}
  /\ pc \in {"call", "man", "seek", "build", "done"}
  /\ err \in BOOLEAN
  /\ faulted \in BOOLEAN

(***************************************************************************)
(* Soundness, as refinement: every call of the configured verifier        *)
(* implements AbstractVerifier, so it returns nil only for an artifact a  *)
(* trusted entity vouched for under the policy, and its answer is final.  *)
(***************************************************************************)
ImplementsAbstract == AV!Spec

(***************************************************************************)
(* Completeness of the fallback: when no download, read or seek fails,   *)
(* the verdict is exactly the policy's, even after the manifest verifier *)
(* has read the local copy to the end before failing.                    *)
(***************************************************************************)
FaultFreeVerdict ==
  pc = "done" /\ ~faulted => (err <=> ~AV!Trusted)

====

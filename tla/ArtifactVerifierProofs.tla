------------------------ MODULE ArtifactVerifierProofs ------------------------
(***************************************************************************)
(* Proofs that the verifiers implement AbstractVerifier, and that without *)
(* I/O faults their verdict is exactly the policy's, for every set of     *)
(* artifacts and schemes.                                                  *)
(***************************************************************************)
EXTENDS ArtifactVerifier, TLAPS

USE SchemesAssumption, BytesAssumption

(* The control point and the policy agree: each verifier runs only under a *)
(* policy that calls it.                                                   *)
PcMode ==
  /\ pc = "man" => mode \in {VerifyManifest, VerifyEither}
  /\ pc = "build" => mode \in {VerifyBuild, VerifyEither}
  /\ pc = "seek" => mode = VerifyEither

Inv == TypeOK /\ PcMode

(* What ReadAll returns is the artifact only from the start of the file. *)
LEMMA BytesArtifact ==
  ASSUME TypeOK, Bytes \in Artifacts \cup {NoSig}
  PROVE  Bytes = file
  BY DEF Bytes, TypeOK

LEMMA InvInit == Init => Inv
  BY DEF Init, Inv, TypeOK, PcMode

LEMMA InvStep == Inv /\ [Next]_vars => Inv'
<1> SUFFICES ASSUME Inv, [Next]_vars PROVE Inv'
  OBVIOUS
<1> USE DEF VerifyNone, VerifyManifest, VerifyBuild, VerifyEither, Faults, world
<1>1. CASE Call
  BY <1>1 DEF Call, Inv, TypeOK, PcMode
<1>2. ASSUME NEW f \in Faults, ManifestVerify(f) PROVE Inv'
  BY <1>2 DEF ManifestVerify, ManifestCheck, Inv, TypeOK, PcMode
<1>3. ASSUME NEW ok \in BOOLEAN, Rewind(ok) PROVE Inv'
  BY <1>3 DEF Rewind, Inv, TypeOK, PcMode
<1>4. ASSUME NEW f \in Faults, BuildVerify(f) PROVE Inv'
  BY <1>4 DEF BuildVerify, BuildCheck, Inv, TypeOK, PcMode
<1>5. CASE Returned \/ UNCHANGED vars
  BY <1>5 DEF Returned, vars, world, Inv, TypeOK, PcMode
<1>6. QED
  BY <1>1, <1>2, <1>3, <1>4, <1>5 DEF Next

(* Every variable of the verifiers keeps a value of its type. *)
THEOREM TypeCorrect == Spec => []TypeOK
  BY InvInit, InvStep, PTL DEF Spec, Inv

-----------------------------------------------------------------------------
LEMMA InitRefines == Init => AV!Init
  BY DEF Init, AV!Init, AV!WorldInit, AV!Modes, AV!None, AV!Manifest,
         AV!Build, AV!Either, Verdict, VerifyNone, VerifyManifest,
         VerifyBuild, VerifyEither

(* Every step is a Decide of the abstract verifier, or leaves its state   *)
(* alone.                                                                  *)
LEMMA StepRefines == Inv /\ [Next]_vars => [AV!Decide]_<<AV!world, Verdict>>
<1> SUFFICES ASSUME Inv, [Next]_vars, <<world, Verdict>>' # <<world, Verdict>>
             PROVE  AV!Decide
  BY DEF AV!world, world
<1> USE DEF Inv, TypeOK, PcMode, VerifyNone, VerifyManifest, VerifyBuild,
            VerifyEither, Faults
<1>1. UNCHANGED world /\ pc # "done" /\ pc' = "done"
  <2>1. CASE Call
    BY <2>1 DEF Call, Verdict, world
  <2>2. ASSUME NEW f \in Faults, ManifestVerify(f) PROVE UNCHANGED world /\ pc # "done" /\ pc' = "done"
    BY <2>2 DEF ManifestVerify, Verdict, world
  <2>3. ASSUME NEW ok \in BOOLEAN, Rewind(ok) PROVE UNCHANGED world /\ pc # "done" /\ pc' = "done"
    BY <2>3 DEF Rewind, Verdict, world
  <2>4. ASSUME NEW f \in Faults, BuildVerify(f) PROVE UNCHANGED world /\ pc # "done" /\ pc' = "done"
    BY <2>4 DEF BuildVerify, Verdict, world
  <2>5. CASE Returned \/ UNCHANGED vars
    BY <2>5 DEF Returned, vars, Verdict, world
  <2>6. QED
    BY <2>1, <2>2, <2>3, <2>4, <2>5 DEF Next
<1>2. Verdict = "pending"
  BY <1>1 DEF Verdict
<1>3. ~err' => AV!Trusted
  <2> SUFFICES ASSUME ~err' PROVE AV!Trusted
    OBVIOUS
  <2>1. CASE Call
    BY <2>1, <1>1 DEF Call, AV!Trusted, AV!None
  <2>2. ASSUME NEW f \in Faults, ManifestVerify(f) PROVE AV!Trusted
    <3>1. scheme \in OkSchemes /\ manSigned /\ manDigest = Bytes /\ mode \in {VerifyManifest, VerifyEither}
      BY <2>2 DEF ManifestVerify, ManifestCheck
    <3>2. Bytes = file
      BY <3>1, BytesArtifact
    <3>3. QED
      BY <3>1, <3>2 DEF AV!Trusted, AV!ManifestOK, AV!Manifest, AV!Either,
                        VerifyManifest, VerifyEither
  <2>3. ASSUME NEW ok \in BOOLEAN, Rewind(ok) PROVE AV!Trusted
    BY <2>3, <1>1 DEF Rewind
  <2>4. ASSUME NEW f \in Faults, BuildVerify(f) PROVE AV!Trusted
    <3>1. scheme \in OkSchemes /\ buildSig = Bytes /\ mode \in {VerifyBuild, VerifyEither}
      BY <2>4 DEF BuildVerify, BuildCheck
    <3>2. Bytes = file
      BY <3>1, BytesArtifact
    <3>3. QED
      BY <3>1, <3>2 DEF AV!Trusted, AV!BuildOK, AV!Build, AV!Either,
                        VerifyBuild, VerifyEither
  <2>5. CASE Returned \/ UNCHANGED vars
    BY <2>5, <1>1 DEF Returned, vars
  <2>6. QED
    BY <2>1, <2>2, <2>3, <2>4, <2>5 DEF Next
<1>4. QED
  BY <1>1, <1>2, <1>3 DEF AV!Decide, AV!world, world, Verdict

(***************************************************************************)
(* Every call of the configured verifier implements AbstractVerifier: it  *)
(* returns nil only for an artifact a trusted entity vouched for, and its *)
(* answer does not change.                                                *)
(***************************************************************************)
THEOREM Refinement == Spec => ImplementsAbstract
<1>1. Spec => []Inv
  BY InvInit, InvStep, PTL DEF Spec
<1>2. QED
  BY <1>1, InitRefines, StepRefines, PTL DEF Spec, AV!Spec, ImplementsAbstract

-----------------------------------------------------------------------------
(***************************************************************************)
(* Without faults, the local copy is at its start whenever a verifier is  *)
(* about to read it, the fallback is taken only when the manifest does not *)
(* vouch for the artifact, and a returned verdict is the policy's.        *)
(***************************************************************************)
FaultFree ==
  ~faulted =>
    /\ pc \in {"call", "man", "build"} => pos = "start"
    /\ pc = "seek" \/ (pc = "build" /\ mode = VerifyEither) => ~AV!ManifestOK
    /\ pc = "done" => (err <=> ~AV!Trusted)

LEMMA FaultFreeStep == Inv /\ FaultFree /\ [Next]_vars => FaultFree'
<1> SUFFICES ASSUME Inv, FaultFree, [Next]_vars, ~faulted' PROVE FaultFree'
  BY DEF FaultFree
<1> USE DEF Inv, TypeOK, PcMode, VerifyNone, VerifyManifest, VerifyBuild,
            VerifyEither, Faults, world
<1>0. ~faulted
  BY DEF ManifestVerify, BuildVerify, Rewind, Call, Returned, vars, Next
<1>1. CASE Call
  BY <1>0, <1>1 DEF Call, FaultFree, AV!Trusted, AV!None, AV!Manifest,
                   AV!Build, AV!Either
<1>2. ASSUME NEW f \in Faults, ManifestVerify(f) PROVE FaultFree'
  <2>1. f = "none" /\ pos = "start"
    BY <1>0, <1>2 DEF ManifestVerify, FaultFree
  <2>2. ManifestCheck(f).err <=> ~AV!ManifestOK
    BY <2>1 DEF ManifestCheck, Bytes, AV!ManifestOK
  <2>3. QED
    BY <1>2, <2>2 DEF ManifestVerify, FaultFree, AV!Trusted, AV!ManifestOK,
                      AV!BuildOK, AV!None, AV!Manifest, AV!Build, AV!Either
<1>3. ASSUME NEW ok \in BOOLEAN, Rewind(ok) PROVE FaultFree'
  BY <1>0, <1>3 DEF Rewind, FaultFree, AV!ManifestOK
<1>4. ASSUME NEW f \in Faults, BuildVerify(f) PROVE FaultFree'
  <2>1. f = "none" /\ pos = "start" /\ (mode = VerifyEither => ~AV!ManifestOK)
    BY <1>0, <1>4 DEF BuildVerify, FaultFree
  <2>2. BuildCheck(f).err <=> ~AV!BuildOK
    BY <2>1 DEF BuildCheck, Bytes, AV!BuildOK
  <2>3. QED
    BY <1>4, <2>1, <2>2 DEF BuildVerify, FaultFree, AV!Trusted, AV!ManifestOK,
                            AV!BuildOK, AV!None, AV!Manifest, AV!Build, AV!Either
<1>5. CASE Returned \/ UNCHANGED vars
  BY <1>5 DEF Returned, vars, FaultFree, AV!Trusted, AV!ManifestOK, AV!BuildOK
<1>6. QED
  BY <1>1, <1>2, <1>3, <1>4, <1>5 DEF Next

(***************************************************************************)
(* When no download, read or seek fails, CompositeVerifier and the single *)
(* verifiers return nil exactly for the artifacts the policy trusts: the  *)
(* Seek(0) before the fallback makes the build verifier read the whole    *)
(* artifact although the manifest verifier has read it to the end.        *)
(***************************************************************************)
THEOREM FaultFreeVerdictInvariant == Spec => []FaultFreeVerdict
<1>1. Init => FaultFree
  BY DEF Init, FaultFree
<1>2. Inv /\ FaultFree => FaultFreeVerdict
  BY DEF FaultFree, FaultFreeVerdict
<1>3. QED
  BY <1>1, <1>2, InvInit, InvStep, FaultFreeStep, PTL DEF Spec

====

---------------------------- MODULE CleanupGuard ----------------------------
(***************************************************************************)
(* The decision whether local files may be removed                         *)
(* (src/ytb_vps_v2/application/cleanup.py, adapters/filesystem/cleanup.py  *)
(* and the proof it judges, domain/restore.py).  Nothing in the code       *)
(* deletes on it yet: the guard only answers.                              *)
(*                                                                         *)
(* Evidence is gathered object by object while the remote store may lose   *)
(* or change what was read, and clocks need not agree; the proof and what  *)
(* the caller requires are then put before the guard, at most one part of  *)
(* either being wrong.  An entry pairs a key with a digest; a digest is    *)
(* the content, for the manifest the manifest itself.  A path is the       *)
(* sequence of its names.                                                  *)
(***************************************************************************)
EXTENDS Integers, Sequences, FiniteSets

CONSTANTS
    MaxAge,       \* max_age: how old evidence may be
    MaxClock,     \* bound of the model: the last moment
    MaxChanges,   \* bound of the model: how often the store and the evidence are disturbed
    Links,        \* the paths that are symbolic links or junctions
    RootChoices,  \* the sequences of roots a caller may allow
    TargetChoices, \* the sequences of paths a caller may want to delete
    RightRoots, RightTargets  \* the ones it should

ASSUME AgeAssumption == MaxAge \in Nat /\ MaxClock \in Nat /\ MaxChanges \in Nat
ASSUME RootsAssumption == RootChoices \union {RightRoots} \subseteq Seq(Seq(STRING))

VARIABLES
    held,      \* the store: what each key holds, "lost" when nothing
    lastRight, \* history: when each key was last known to hold the right bytes
    evidence,  \* RemoteObjectEvidence by key, for the keys there is any of
    clock,
    changes,
    decision   \* the last answer, with what it was asked

cgVars == <<held, lastRight, evidence, clock, changes, decision>>

-----------------------------------------------------------------------------
Entry(key, digest) == [key |-> key, digest |-> digest]
Bytes(name) == [name |-> name]
Archive == Entry(<<"checkpoint", "input">>, Bytes("archive"))
Snapshot == Entry(<<"checkpoint", "state", "db">>, Bytes("snapshot"))
ArtifactEntry == Entry(<<"checkpoint", "artifact">>, Bytes("artifact"))
PublishedPart == Entry(<<"output", "part">>, Bytes("part"))
Validation == Entry(<<"output", "validation">>, Bytes("validation"))
Manifest == [input_archive |-> Archive, state_snapshot |-> Snapshot, artifacts |-> {ArtifactEntry}]
ManifestEntry == Entry(<<"checkpoint", "manifest-v1.json">>, Manifest)

Stored == {ManifestEntry, Archive, Snapshot, ArtifactEntry, PublishedPart, Validation}
Stray == Entry(<<"output", "stray">>, Bytes("stray"))
Keys == {e.key : e \in Stored \union {Stray}}
Right(key) == CHOOSE e \in Stored \union {Stray} : e.key = key

canonical_manifest_bytes(manifest) == manifest

\* CleanupProof as a caller holds it, and as it may be wrong.
Proof == [manifest_entry |-> ManifestEntry, manifest |-> Manifest,
          published_parts |-> <<PublishedPart>>, validation_artifacts |-> <<Validation>>,
          remote_work_keys |-> <<"publish">>, required_work_keys |-> <<"publish">>,
          snapshot_restorable |-> TRUE]
Proofs ==
    {Proof,
     [Proof EXCEPT !.manifest_entry.digest.artifacts = {}],
     [Proof EXCEPT !.manifest_entry.key = <<"other", "manifest-v1.json">>],
     [Proof EXCEPT !.manifest.artifacts = {}],
     [Proof EXCEPT !.manifest.artifacts = {ArtifactEntry, PublishedPart}],
     [Proof EXCEPT !.published_parts = <<>>],
     [Proof EXCEPT !.validation_artifacts = <<>>],
     [Proof EXCEPT !.remote_work_keys = <<>>],
     [Proof EXCEPT !.snapshot_restorable = FALSE]}

\* What the caller knows must be safe before anything is deleted.
Required == [parts |-> <<PublishedPart>>, validations |-> <<Validation>>, work |-> <<"publish">>]
Requirements ==
    {Required,
     [Required EXCEPT !.parts = <<PublishedPart, Stray>>],
     [Required EXCEPT !.work = <<"publish", "upload">>]}

-----------------------------------------------------------------------------
\* LocalDeletionTargetPolicy.
Prefixes(path) == {SubSeq(path, 1, n) : n \in 1 .. Len(path)}
Under(path, root) == root \in Prefixes(path) \ {path}
_nested(paths) == \E i, j \in DOMAIN paths : i # j /\ paths[i] \in Prefixes(paths[j])
Confined(path) == Prefixes(path) \cap Links = {}

preflight(targets, roots, swapped) ==
    /\ targets # <<>> /\ roots # <<>>
    /\ \A i \in DOMAIN roots : Confined(roots[i])
    /\ ~ _nested(roots)
    /\ \A i \in DOMAIN targets :
         /\ Confined(targets[i])
         /\ Cardinality({k \in DOMAIN roots : Under(targets[i], roots[k])}) = 1
    /\ ~ _nested(targets)
    /\ ~ swapped

-----------------------------------------------------------------------------
Elements(list) == {list[i] : i \in DOMAIN list}

\* The entries a deletion rests on; one key may be named twice.
ExpectedEntries(proof, required) ==
    <<proof.manifest_entry, proof.manifest.input_archive, proof.manifest.state_snapshot>>
    \o (CHOOSE list \in [1 .. Cardinality(proof.manifest.artifacts) -> proof.manifest.artifacts] :
          Elements(list) = proof.manifest.artifacts)
    \o required.parts \o required.validations

_exact_evidence(expected) ==
    expected.key \in DOMAIN evidence /\ evidence[expected.key].entry = expected

\* SLIP (breaks AllowedLosesNothing): off by one.
StaleLate(now) == \E key \in DOMAIN evidence : now - evidence[key].observed_at > MaxAge + 1


Stale(now) == \E key \in DOMAIN evidence : now - evidence[key].observed_at > MaxAge

FromTheFuture(now) == \E key \in DOMAIN evidence : evidence[key].observed_at > now

\* assess: the reasons against the deletion.
Reasons(proof, required, targets, roots, swapped, now, operator_enabled) ==
    LET entries == ExpectedEntries(proof, required)
        expected == {e.key : e \in Elements(entries)}
        because(reason, condition) == IF condition THEN {reason} ELSE {} IN
    because("operator_disabled", ~ operator_enabled)
    \union because("missing_evidence", ~ expected \subseteq DOMAIN evidence)
    \union because("mismatching_evidence",
             \/ Cardinality(expected) # Len(entries)
             \/ \E e \in Elements(entries) : e.key \in DOMAIN evidence /\ ~ _exact_evidence(e)
             \/ ~ DOMAIN evidence \subseteq expected
             \/ proof.manifest_entry.digest # canonical_manifest_bytes(proof.manifest)
             \/ proof.manifest_entry.key
                  # <<proof.manifest.state_snapshot.key[1], "manifest-v1.json">>
             \/ \E key \in DOMAIN evidence : evidence[key].method # "sha256-readback")
    \union because("input_not_durable", ~ _exact_evidence(proof.manifest.input_archive))
    \union because("parts_not_verified",
             \/ proof.published_parts # required.parts
             \/ \E part \in Elements(required.parts) : ~ _exact_evidence(part))
    \union because("validations_not_verified",
             \/ proof.validation_artifacts # required.validations
             \/ \E item \in Elements(required.validations) : ~ _exact_evidence(item))
    \union because("future_evidence", FromTheFuture(now))
    \union because("stale_evidence", Stale(now))
    \union because("snapshot_not_restorable", ~ proof.snapshot_restorable)
    \union because("work_not_durable",
             proof.required_work_keys # required.work \/ proof.remote_work_keys # required.work)
    \union because("unsafe_deletion_target", ~ preflight(targets, roots, swapped))

-----------------------------------------------------------------------------
NoDecision == [allowed |-> FALSE]

CGInit ==
    /\ held = [key \in Keys |-> "right"]
    /\ lastRight = [key \in Keys |-> 0]
    /\ evidence = [key \in {e.key : e \in Stored} |->
                    [entry |-> Right(key), observed_at |-> 0, method |-> "sha256-readback"]]
    /\ clock = 0 /\ changes = 0
    /\ decision = NoDecision

\* AdditiveBackupStore.verify, object by object: no evidence of anything but the
\* bytes that were read, so what is lost keeps the evidence it had.
ReadBack ==
    /\ evidence' = [key \in DOMAIN evidence \union {key \in {e.key : e \in Stored} : held[key] = "right"} |->
                     IF held[key] = "right"
                     THEN [entry |-> Right(key), observed_at |-> clock,
                           method |-> "sha256-readback"]
                     ELSE evidence[key]]
    /\ UNCHANGED <<held, lastRight, clock, changes, decision>>

\* Evidence made without reading the object.
Claimed(key) ==
    /\ changes < MaxChanges /\ changes' = changes + 1
    /\ evidence' = [k \in DOMAIN evidence \union {key} |->
                     IF k = key THEN [entry |-> Right(key), observed_at |-> clock,
                                      method |-> "listing"]
                     ELSE evidence[k]]
    /\ UNCHANGED <<held, lastRight, clock, decision>>

Forget(key) ==
    /\ changes < MaxChanges /\ changes' = changes + 1
    /\ key \in DOMAIN evidence
    /\ evidence' = [k \in DOMAIN evidence \ {key} |-> evidence[k]]
    /\ UNCHANGED <<held, lastRight, clock, decision>>

Damage(key) ==
    /\ changes < MaxChanges /\ changes' = changes + 1
    /\ held[key] = "right"
    /\ held' = [held EXCEPT ![key] = "lost"]
    /\ UNCHANGED <<lastRight, evidence, clock, decision>>

Tick ==
    /\ clock < MaxClock
    /\ clock' = clock + 1
    /\ lastRight' = [key \in Keys |-> IF held[key] = "right" THEN clock' ELSE lastRight[key]]
    /\ UNCHANGED <<held, evidence, changes, decision>>

\* What is asked: all as it should be, or one thing wrong.  The clock of the one
\* who asks may be behind the clock of the one who read.
Question == [proof |-> Proof, required |-> Required, targets |-> RightTargets,
             roots |-> RightRoots, operator_enabled |-> TRUE, swapped |-> FALSE, late |-> 0]
Questions ==
    {[Question EXCEPT !.proof = proof] : proof \in Proofs}
    \union {[Question EXCEPT !.required = required] : required \in Requirements}
    \union {[Question EXCEPT !.targets = targets] : targets \in TargetChoices}
    \union {[Question EXCEPT !.roots = roots] : roots \in RootChoices}
    \union {[Question EXCEPT !.operator_enabled = FALSE], [Question EXCEPT !.swapped = TRUE],
            [Question EXCEPT !.late = 1]}

assess ==
    \E q \in Questions :
      LET now == clock - q.late IN
      /\ ~ decision.allowed /\ now >= 0
      /\ Reasons(q.proof, q.required, q.targets, q.roots, q.swapped, now,
                 q.operator_enabled) = {}
      /\ decision' = [allowed |-> TRUE, question |-> q, now |-> now]
      /\ UNCHANGED <<held, lastRight, evidence, clock, changes>>

CGNext ==
    \/ /\ ~ decision.allowed
       /\ \/ ReadBack \/ Tick
          \/ \E key \in Keys : Claimed(key) \/ Forget(key) \/ Damage(key)
    \/ assess

CGSpec == CGInit /\ [][CGNext]_cgVars

-----------------------------------------------------------------------------
\* An allowed deletion loses nothing: the operator wanted it, every object the
\* manifest or the caller names was in the store, byte for byte, within max_age
\* of the moment of the question, and all that would be deleted lies strictly
\* below exactly one allowed root, never through a link, nothing named twice.
AllowedLosesNothing ==
    decision.allowed =>
      LET q == decision.question
          needed == {e.key : e \in Stored \union Elements(q.required.parts)
                                   \union Elements(q.required.validations)}
          below(path) == {root \in Elements(q.roots) : Under(path, root)} IN
      /\ q.operator_enabled
      /\ \A key \in needed : decision.now - lastRight[key] <= MaxAge
      /\ q.required.work = <<"publish">>
      /\ \A target \in Elements(q.targets) :
           /\ Cardinality(below(target)) = 1
           /\ Prefixes(target) \cap Links = {}
      /\ \A i, j \in DOMAIN q.targets :
           i # j => q.targets[i] \notin Prefixes(q.targets[j])
=============================================================================

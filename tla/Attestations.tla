----------------------------- MODULE Attestations -----------------------------
(***************************************************************************)
(* What a log row holds of one act, and how two copies of a row are        *)
(* merged.  An act is one attestation before any export: one host's        *)
(* statement of one observation at one time (Provenance without its sync   *)
(* block).  A stamp adds the node it left from and that node's sequence    *)
(* number; it enriches the act and is not a second act.                    *)
(*                                                                         *)
(* Abstracted: the content, the HLC and the signature of a stamp (they are *)
(* functions of the act and the stamp), lineage and embeddings.            *)
(***************************************************************************)
EXTENDS Naturals

CONSTANTS
    Acts,       \* attestations that may be authored
    Nodes,      \* node identities
    NoOrigin,   \* the empty origin an unstamped attestation sorts under
    MaxSeq      \* the largest sequence number (u64::MAX in the code)

ASSUME NoOriginAssumption == NoOrigin \notin Nodes
ASSUME MaxSeqAssumption == MaxSeq \in Nat

(* An attestation without a sync block. *)
Unstamped(a) == [act |-> a, origin |-> NoOrigin, seq |-> 0]

(* The same attestation after this node's backfill stamped it. *)
Stamped(a, o, q) == [act |-> a, origin |-> o, seq |-> q]

(* What crosses the wire: a stamped attestation. *)
Event == [act : Acts, origin : Nodes, seq : 1 .. MaxSeq]

Attestation == Event \cup {Unstamped(a) : a \in Acts}

IsStamped(p) == p.origin # NoOrigin

(* The stamped part of a row set, which is all that is ever exported. *)
Events(S) == {p \in S : IsStamped(p)}

UnstampedActs(S) == {p.act : p \in S \ Events(S)}

(* A slip NoDoubleCount and LogGrows must notice: one stamp in a row takes  *)
(* every unstamped attestation with it, whatever its act.                  *)
EnrichedByAnyStamp(S) == {p \in S : IsStamped(p) \/ Events(S) = {}}

(* The stamp upgrade: an unstamped attestation gives way to a stamped one  *)
(* of the same act.                                                        *)
Enriched(S) == {p \in S : IsStamped(p) \/ \A e \in Events(S) : e.act # p.act}

(* A slip: the union is not enriched. *)
AbsorbPlain(S, T) == S \cup T

(* Union of two copies of a row, duplicates collapsed, then enriched. *)
Absorb(S, T) == Enriched(S \cup T)
===============================================================================

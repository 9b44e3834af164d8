-------------------------- MODULE VersioningLogic --------------------------
(***************************************************************************)
(* `VersioningLogic` of dstate/src/core/versioning_logic.rs: what becomes  *)
(* of an inbound payload this build may not be able to read.               *)
(***************************************************************************)

CONSTANTS
    WireVersion,            \* the wire versions builds of the state type write
    Reads,                  \* Reads[w]: the versions a build writing w decodes
    VersionMismatchPolicy   \* "KeepStale" or "DropAndWait"

ASSUME VersionAssumption ==
    /\ Reads \in [WireVersion -> SUBSET WireVersion]
    /\ \A w \in WireVersion : w \in Reads[w]
    /\ VersionMismatchPolicy \in {"KeepStale", "DropAndWait"}

\* on_deserialize_error: the policy decides.
OnDeserializeError ==
    IF VersionMismatchPolicy = "KeepStale" THEN "KeepStale" ELSE "DropView"

\* Mutated form: the version is not looked at.
OnInboundUnchecked(own, wire, intact) == IF intact THEN "Ok" ELSE "MalformedData"

\* on_inbound at a build writing version `own`, for a payload of version
\* `wire` that reached it intact or damaged.
OnInbound(own, wire, intact) ==
    CASE wire \notin Reads[own]           -> OnDeserializeError
      [] wire \in Reads[own] /\ ~intact   -> "MalformedData"
      [] wire \in Reads[own] /\ intact    -> "Ok"

=============================================================================

--------------------------- MODULE EntrySerializer ---------------------------
(***************************************************************************)
(* entry/entry_serializer.go, version/version.go: how f hands an entry to  *)
(* the remote, a process of another build perhaps.                         *)
(***************************************************************************)
CONSTANTS
  Types,     \* names of the Go types that implement Entry
  Versions,  \* what BuildVersion() returns; "dev-n/a (n/a)" unless stamped
  Data,      \* fields of an entry, as JSON
  Options    \* the map of options

Entry == [type : Types, data : Data]

\* A build: its version, and registeredTypes.
Build == [version : Versions, types : SUBSET Types]

Message == [type : Types, data : Data, options : Options, version : Versions]

\* SerializeWithOptions()
CanSerialize(build, e) == e.type \in build.types

Serialize(build, e, options) ==
  [type |-> e.type, data |-> e.data, options |-> options, version |-> build.version]

\* DeserializeWithOption(): not ErrVersionMisMatch or ErrTypeNotRegistered.
\* Variant: the versions are not compared.
DeserializesAnyVersion(build, m) == m.type \in build.types

Deserializes(build, m) ==
  /\ m.version = build.version
  /\ m.type \in build.types

\* The entry; the options come along.
Deserialize(m) == [type |-> m.type, data |-> m.data]
=============================================================================

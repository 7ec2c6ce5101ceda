---------------------------- MODULE ExportedData ----------------------------
(***************************************************************************)
(* What openbus_context.cpp writes to a stream of bytes and reads from one *)
(* again: chains of calls and secrets of a shared authentication.  A stream*)
(* is a tag and a sequence of versions of the datum, one per protocol that *)
(* the reader may know.  The CDR encoding of a version is its contents; a  *)
(* stream too short to hold a tag is NoStream.                             *)
(***************************************************************************)
EXTENDS Naturals, Sequences, SequencesExt

CONSTANTS Current,   \* protocol 2.1, idl::data_export::ExportVersion
          Legacy,    \* protocol 2.0, idl::legacy::data_export::CurrentVersion
          Unsigned,  \* signed data without contents: no chain of a protocol
          NoStream,
          InvalidEncodedStream,  \* the exception of the SDK
          CodecFailure           \* FormatMismatch, TypeMismatch: not caught

ASSUME ExportAssumption == Current # Legacy

Protocol == {Current, Legacy}
ChainTag == "MagicTag_CallChain"
SharedAuthTag == "MagicTag_SharedAuth"

Failure == {InvalidEncodedStream, CodecFailure}

\* encode_exported_versions.
encode_exported_versions(versions, tag) == [tag |-> tag, versions |-> versions]

\* decode_exported_versions and the comparison of the tag after it.
Reads(stream, tag) ==
  IF stream = NoStream THEN CodecFailure
  ELSE IF stream.tag # tag THEN InvalidEncodedStream
  ELSE stream.versions

\* The signed data of a chain, by protocol: CallerChain::signed_chain.  A chain
\* of both protocols only comes from makeChainFor.
OnlyIn(protocol, data) ==
  [p \in Protocol |-> IF p = protocol THEN data ELSE Unsigned]

\* encodeChain: both versions are written, an empty one too, the old first.
encodeChain(chain) ==
  encode_exported_versions(
    << [version |-> Legacy, encoded |-> chain[Legacy]],
       [version |-> Current, encoded |-> chain[Current]] >>, ChainTag)

\* The versions of a stream that the reader knows.
Known(versions) ==
  {i \in DOMAIN versions : versions[i].version \in Protocol}

\* Mutant of decodeChain: the last version that is known.
decodeLastChain(stream) ==
  LET versions == Reads(stream, ChainTag) IN
  IF versions \in Failure THEN versions
  ELSE IF Known(versions) = {} THEN InvalidEncodedStream
  ELSE LET last == versions[CHOOSE i \in Known(versions) :
                              \A j \in Known(versions) : j <= i] IN
       OnlyIn(last.version, last.encoded)

\* decodeChain: the first version that is known, and only that one.  Decoding
\* the call chain fails when that version is empty.
decodeChain(stream) ==
  LET versions == Reads(stream, ChainTag) IN
  IF versions \in Failure THEN versions
  ELSE IF Known(versions) = {} THEN InvalidEncodedStream
  ELSE LET first == versions[CHOOSE i \in Known(versions) :
                               \A j \in Known(versions) : i <= j] IN
       IF first.encoded = Unsigned THEN CodecFailure
       ELSE OnlyIn(first.version, first.encoded)

\* encodeSharedAuthSecret: the new version first.  A secret has the bus, the
\* process of the login by protocol and the octets that open it.
encodeSharedAuthSecret(secret) ==
  encode_exported_versions(
    << [version |-> Current, bus |-> secret.bus,
        attempt |-> secret.attempt[Current], secret |-> secret.secret],
       [version |-> Legacy, bus |-> secret.bus,
        attempt |-> secret.attempt[Legacy], secret |-> secret.secret] >>,
    SharedAuthTag)

\* decodeSharedAuthSecret: every known version is merged into the secret; the
\* bus and the octets are those of the last.
decodeSharedAuthSecret(stream) ==
  LET versions == Reads(stream, SharedAuthTag)
      Of(p) == {i \in Known(versions) : versions[i].version = p}
      Latest(S) == versions[CHOOSE i \in S : \A j \in S : j <= i] IN
  IF versions \in Failure THEN versions
  ELSE IF Known(versions) = {} THEN InvalidEncodedStream
  ELSE [bus |-> Latest(Known(versions)).bus,
        secret |-> Latest(Known(versions)).secret,
        attempt |-> [p \in Protocol |->
          IF Of(p) = {} THEN Unsigned ELSE Latest(Of(p)).attempt]]
=============================================================================

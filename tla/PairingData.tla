---------------------------- MODULE PairingData ----------------------------
(***************************************************************************)
(* The authenticated data of pairing, rust/src/lib.rs: what the hashes of   *)
(* AppAuthenticatedData are computed from, and when the three verify()      *)
(* functions accept.  A string is its sequence of bytes (any bytes here,    *)
(* UTF-8 in the code).  BLAKE3 and the SE050 signature are ideal: a digest  *)
(* is equal to another exactly when their inputs and their lengths are, a   *)
(* signature exactly when its key and the data are.  The definition of a    *)
(* verify() is the condition under which it returns Ok; the error returned  *)
(* where a conjunct fails is named beside it, and nothing depends on which. *)
(***************************************************************************)
EXTENDS Integers, Sequences

CONSTANT NonceLen  \* the length of a nonce, 32 in the code

ASSUME NonceLenAssumption == NonceLen \in Nat \ {0}

PCP_VERSION_DEFAULT == 2
ORB_PAIRING_PROTOCOL_VERSION == 4
AppVERSION == 2  \* AppAuthenticatedData::VERSION
OrbVERSION == 1  \* OrbAuthenticatedData::VERSION

String == Seq(0 .. 255)

AppAuthenticatedData ==
  [self_custody_public_key : String, identity_commitment : String, os : String,
   os_version : String, pcp_version : Nat, version : Nat, device_public_key : String]

\* u32::to_le_bytes.
Le32(n) == <<n % 256, (n \div 256) % 256, (n \div 65536) % 256, (n \div 16777216) % 256>>

\* Mutant of Field: no length prefix.
FieldBare(v) == v

Field(v) == Le32(Len(v)) \o v

\* What hash(), hash_v1() and legacy_hash() feed to the hasher.
Fields(d, rest) ==
  Field(d.self_custody_public_key) \o (Field(d.identity_commitment) \o
    (Field(d.os) \o (Field(d.os_version) \o rest)))

Versions(d) == Le32(d.pcp_version) \o Le32(d.version)

CurrentInput(d) == Fields(d, Field(d.device_public_key) \o Versions(d))

V1Input(d) == Fields(d, Versions(d))

\* The strings, in the order of legacy_hash().
Strings(d) == d.identity_commitment \o d.self_custody_public_key \o d.os_version \o d.os

LegacyInput(d) ==
  Strings(d) \o (IF d.pcp_version # PCP_VERSION_DEFAULT THEN Le32(d.pcp_version) ELSE <<>>)

\* Mutant of Input: only the current format has length prefixes.
InputV1AsLegacy(d) == IF d.version = AppVERSION THEN CurrentInput(d) ELSE LegacyInput(d)

Input(d) ==
  CASE d.version = AppVERSION -> CurrentInput(d)
    [] d.version = 1 -> V1Input(d)
    [] OTHER -> LegacyInput(d)

\* finalize_xof().fill(&mut output), an output of n bytes.
Blake3(input, n) == [of |-> input, len |-> n]

\* hash() and the match in verify(): the version selects a format, and exactly the
\* current one has a device public key.  (WrongVersion and MissingDevicePublicKey,
\* UnsupportedVersion and UnboundDevicePublicKey.)
Hashable(d) ==
  /\ d.version \in {0, 1, AppVERSION}
  /\ d.version = AppVERSION <=> d.device_public_key # <<>>

\* AppAuthenticatedData::verify.
VerifyApp(d, hash) ==
  /\ hash.len > 0                          \* EmptyHash
  /\ Hashable(d)
  /\ hash = Blake3(Input(d), hash.len)     \* Mismatch

None == [none |-> TRUE]
NoNonce == <<>>

\* Mutants of VerifyAnnounceAppId: protocol 4 itself need not echo; an iPCP payload is
\* taken from any protocol; an announcement without app data passes.
VerifyAnnounceAppIdLate(m, hash, orb_data) ==
  /\ m.app_data # None /\ VerifyApp(m.app_data, hash)
  /\ m.ipcp # NoNonce => m.protocol_version >= ORB_PAIRING_PROTOCOL_VERSION
  /\ orb_data # None /\ m.protocol_version > ORB_PAIRING_PROTOCOL_VERSION =>
       m.orb_nonce = orb_data.orb_nonce

VerifyAnnounceAppIdAnyIpcp(m, hash, orb_data) ==
  /\ m.app_data # None /\ VerifyApp(m.app_data, hash)
  /\ orb_data # None /\ m.protocol_version >= ORB_PAIRING_PROTOCOL_VERSION =>
       m.orb_nonce = orb_data.orb_nonce

VerifyAnnounceAppIdNoData(m, hash, orb_data) ==
  /\ m.app_data # None => VerifyApp(m.app_data, hash)
  /\ m.ipcp # NoNonce => m.protocol_version >= ORB_PAIRING_PROTOCOL_VERSION
  /\ orb_data # None /\ m.protocol_version >= ORB_PAIRING_PROTOCOL_VERSION =>
       m.orb_nonce = orb_data.orb_nonce

\* AnnounceAppId::verify.
VerifyAnnounceAppId(m, hash, orb_data) ==
  /\ m.app_data # None                     \* MissingAppData
  /\ VerifyApp(m.app_data, hash)
  /\ m.ipcp # NoNonce =>                   \* UnboundIpcpPayload
       m.protocol_version >= ORB_PAIRING_PROTOCOL_VERSION
  /\ orb_data # None /\ m.protocol_version >= ORB_PAIRING_PROTOCOL_VERSION =>
       m.orb_nonce = orb_data.orb_nonce    \* OrbNonceMismatch

\* The SE050 signature over the encoded data.
Sign(key, d) == [key |-> key, of |-> d]

\* Mutant of VerifyOrb: the request nonce is only checked outside scan-to-pair.
VerifyOrbAnyRequest(d, key, signature, expected) ==
  /\ signature = Sign(key, d)
  /\ d.version = OrbVERSION
  /\ Len(d.orb_nonce) = NonceLen
  /\ expected = NoNonce => d.request_nonce = expected

\* OrbAuthenticatedData::verify; expected is NoNonce outside scan-to-pair, else
\* the nonce of the pairing request.
VerifyOrb(d, key, signature, expected) ==
  /\ signature = Sign(key, d)              \* InvalidSignature
  /\ d.version = OrbVERSION                \* UnsupportedVersion
  /\ Len(d.orb_nonce) = NonceLen           \* InvalidOrbNonce
  /\ d.request_nonce = expected            \* RequestNonceMismatch, UnexpectedRequestNonce
=============================================================================

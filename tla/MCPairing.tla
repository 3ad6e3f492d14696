----------------------------- MODULE MCPairing -----------------------------
(* Pairing for TLC. *)
EXTENDS Pairing, TLC

DataOf(scpk, ic, version, dpk) ==
  [self_custody_public_key |-> scpk, identity_commitment |-> ic, os |-> <<4>>,
   os_version |-> <<5>>, pcp_version |-> 3, version |-> version, device_public_key |-> dpk]

V2 == DataOf(<<1>>, <<2, 3>>, 2, <<6>>)
V1 == DataOf(<<1>>, <<2, 3>>, 1, <<>>)
Legacy == DataOf(<<1>>, <<2, 3>>, 0, <<>>)

\* Data of the legacy format with the input of V1, or of V2, in a string: the version at the
\* end is supplied by pcp_version, or is in the string as well.
AsV1 == [Legacy EXCEPT !.self_custody_public_key = <<>>, !.os = <<>>, !.os_version = <<>>,
                       !.identity_commitment = SubSeq(V1Input(V1), 1, Len(V1Input(V1)) - 4),
                       !.pcp_version = 1]

AsV2 == [Legacy EXCEPT !.self_custody_public_key = <<>>, !.os = <<>>, !.os_version = <<>>,
                       !.identity_commitment = CurrentInput(V2),
                       !.pcp_version = PCP_VERSION_DEFAULT]

\* The first differs from V2 in where a field ends, and so does the fifth from Legacy, in
\* the order of the legacy format.
MCData == {DataOf(<<1, 2>>, <<3>>, 2, <<6>>), V2, V1, Legacy,
           DataOf(<<3, 1>>, <<2>>, 0, <<>>), AsV1, AsV2}
=============================================================================

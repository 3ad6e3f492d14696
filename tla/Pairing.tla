------------------------------ MODULE Pairing ------------------------------
(***************************************************************************)
(* Pairing an app with an orb, as the comments of proto/common/v1/orb.proto *)
(* and self_serve/app/v1/app.proto lay it out, with every check made by the *)
(* verify() functions of PairingData.  An app shows a QR code with the hash *)
(* of its data, or asks for pairing with that hash and a fresh nonce        *)
(* (scan-to-pair); the orb announces itself, the app announces its data.    *)
(* The two programs are not in this repository; the checks are.             *)
(*                                                                         *)
(* A message stays on the relay: it may come late, twice, in another        *)
(* session than the one it was meant for, or never.                         *)
(***************************************************************************)
EXTENDS PairingData

CONSTANTS
  Apps, Orbs,
  OldOrbs,      \* orbs that send no OrbAuthenticatedData
  Data,         \* the app data in use
  Protocols,    \* the protocol versions of apps in use
  HashLen,      \* bytes of the digest in the QR code or the pairing request
  MaxFresh      \* bound: the number of sessions of apps and orbs

ASSUME DataAssumption == Data \subseteq {d \in AppAuthenticatedData : Hashable(d)}
ASSUME ProtocolsAssumption == Protocols \subseteq Nat
ASSUME PairingBoundsAssumption == HashLen \in Nat \ {0} /\ MaxFresh \in Nat

VARIABLES
  fresh,  \* sessions begun so far: the source of nonces and ephemeral keys
  app,    \* the session of each app
  orb,    \* the session of each orb
  net     \* every message sent

vars == <<fresh, app, orb, net>>

\* A nonce or a key made in session n; none is like another.
Fresh(n) == [i \in 1 .. NonceLen |-> n]

\* An app keeps to its data and protocol during a session.  request is the nonce of its
\* pairing request; seen is the announcement it has accepted.
NoApp == [step |-> "idle"]
NoOrb == [step |-> "idle"]

Init ==
  /\ fresh = 0
  /\ app = [a \in Apps |-> NoApp]
  /\ orb = [o \in Orbs |-> NoOrb]
  /\ net = {}

\* The app begins a session, with a QR code or with a pairing request.
AppSession(a, d, v, request) ==
  /\ app' = [app EXCEPT ![a] = [step |-> "waiting", data |-> d, protocol |-> v,
                             request |-> request, seen |-> None]]
  /\ fresh < MaxFresh
  /\ fresh' = fresh + 1

AppShowQr(a, d, v) ==
  /\ AppSession(a, d, v, NoNonce)
  /\ UNCHANGED <<orb, net>>

AppRequestPairing(a, d, v, o) ==
  /\ v >= ORB_PAIRING_PROTOCOL_VERSION
  /\ AppSession(a, d, v, Fresh(fresh))
  /\ net' = net \cup {[type |-> "PairingRequest", from |-> a, to |-> o, data |-> d,
                       user_data_hash |-> Blake3(Input(d), HashLen),
                       request_nonce |-> Fresh(fresh)]}
  /\ UNCHANGED orb

\* The orb begins a session and announces itself.  (data is a history variable.)
Announce(o, a, d, hash, request) ==
  LET orb_data == [version |-> OrbVERSION, ipcp_encryption_public_key |-> Fresh(fresh),
                   orb_nonce |-> Fresh(fresh), request_nonce |-> request]
      sent == IF o \in OldOrbs THEN None ELSE orb_data
  IN  /\ fresh < MaxFresh /\ orb[o].step # "announced"
      /\ fresh' = fresh + 1
      /\ orb' = [orb EXCEPT ![o] = [step |-> "announced", app |-> a, data |-> d, hash |-> hash,
                                    orb_data |-> sent, got |-> None]]
      /\ net' = net \cup {[type |-> "AnnounceOrbId", from |-> o, to |-> a, orb_data |-> sent,
                           signature |-> Sign(o, sent), data |-> d]}
      /\ UNCHANGED app

OrbScanQr(o, a) ==
  /\ app[a].step = "waiting" /\ app[a].request = NoNonce
  /\ Announce(o, a, app[a].data, Blake3(Input(app[a].data), HashLen), NoNonce)

OrbTakeRequest(o, m) ==
  /\ m.type = "PairingRequest" /\ m.to = o /\ o \notin OldOrbs
  /\ Announce(o, m.from, m.data, m.user_data_hash, m.request_nonce)

\* The app takes the announcement if verify() does, or if an old orb sent no data, and
\* announces its own data with the echo and perhaps an iPCP sealed to the orb's key.
\* (answers is a history variable.)
AppTakeAnnouncement(a, m, withIpcp) ==
  LET echoes == m.orb_data # None /\ app[a].protocol >= ORB_PAIRING_PROTOCOL_VERSION IN
  /\ m.type = "AnnounceOrbId" /\ m.to = a /\ app[a].step = "waiting"
  /\ IF m.orb_data = None
       THEN app[a].request = NoNonce /\ ~withIpcp
       ELSE VerifyOrb(m.orb_data, m.from, m.signature, app[a].request)
  /\ app' = [app EXCEPT ![a].step = "announced", ![a].seen = m]
  /\ net' = net \cup {[type |-> "AnnounceAppId", from |-> a, to |-> m.from,
                       app_data |-> app[a].data, protocol_version |-> app[a].protocol,
                       orb_nonce |-> IF echoes THEN m.orb_data.orb_nonce ELSE NoNonce,
                       ipcp |-> IF withIpcp THEN m.orb_data.ipcp_encryption_public_key
                                            ELSE NoNonce,
                       answers |-> m.orb_data]}
  /\ UNCHANGED <<fresh, orb>>

\* A heartbeat is an announcement without data.
AppHeartbeat(a) ==
  /\ app[a].step = "announced"
  /\ net' = net \cup {[type |-> "AnnounceAppId", from |-> a, to |-> app[a].seen.from,
                       app_data |-> None, protocol_version |-> app[a].protocol,
                       orb_nonce |-> NoNonce, ipcp |-> NoNonce, answers |-> None]}
  /\ UNCHANGED <<fresh, app, orb>>

\* The orb takes an announcement that verify() accepts and ignores any other.
OrbTakeAnnouncement(o, m) ==
  /\ m.type = "AnnounceAppId" /\ m.to = o /\ orb[o].step = "announced"
  /\ VerifyAnnounceAppId(m, orb[o].hash, orb[o].orb_data)
  /\ orb' = [orb EXCEPT ![o].step = "paired", ![o].got = m]
  /\ UNCHANGED <<fresh, app, net>>

\* The orb gives up waiting.
OrbTimeout(o) ==
  /\ orb[o].step = "announced"
  /\ orb' = [orb EXCEPT ![o] = NoOrb]
  /\ UNCHANGED <<fresh, app, net>>

Next ==
  \/ \E a \in Apps, d \in Data, v \in Protocols :
       AppShowQr(a, d, v) \/ \E o \in Orbs : AppRequestPairing(a, d, v, o)
  \/ \E a \in Apps : AppHeartbeat(a) \/ \E o \in Orbs : OrbScanQr(o, a)
  \/ \E o \in Orbs : OrbTimeout(o)
  \/ \E m \in net :
       \/ \E o \in Orbs : OrbTakeRequest(o, m) \/ OrbTakeAnnouncement(o, m)
       \/ \E a \in Apps, b \in BOOLEAN : AppTakeAnnouncement(a, m, b)

Spec == Init /\ [][Next]_vars
-----------------------------------------------------------------------------
(* Properties *)

Paired(o) == orb[o].step = "paired"

\* AnnounceAppId::verify: an announcement that passes has app data, and data that can be
\* hashed; an orb in a session has the digest it was given.
TypeOK ==
  /\ \A a \in Apps : app[a].step # "idle" => app[a].data \in Data
  /\ \A o \in Orbs : orb[o].step # "idle" => orb[o].data \in Data /\ orb[o].hash.len = HashLen
  /\ \A o \in Orbs : Paired(o) => orb[o].got.app_data \in Data

SameLengths(d, e) ==
  /\ Len(d.self_custody_public_key) = Len(e.self_custody_public_key)
  /\ Len(d.identity_commitment) = Len(e.identity_commitment)
  /\ Len(d.os) = Len(e.os) /\ Len(d.os_version) = Len(e.os_version)

\* AppAuthenticatedData, "static data that is hashed with the user QR code": whatever their
\* formats, the data the orb is paired with is the data whose hash it was given, unless one
\* of them is in the legacy format and strings of the two differ in length.  (legacy_hash()
\* "allows hash collisions by shifting bytes between adjacent fields", and the version that
\* selects the format is the one received.)
PairedDataIsHashed ==
  \A o \in Orbs : Paired(o) =>
    LET d == orb[o].data
        e == orb[o].got.app_data
    IN  d = e \/ (0 \in {d.version, e.version} /\ ~SameLengths(d, e))

\* AppAuthenticatedData::verify takes data of the legacy format for data of another, or the
\* reverse, only when the strings of the legacy data hold the length prefixes of the other:
\* they are longer by 20 bytes or more and begin with the length of its first string.
PrefixesInStrings ==
  \A o \in Orbs : Paired(o) =>
    \A l, p \in {orb[o].data, orb[o].got.app_data} : l.version = 0 /\ p.version # 0 =>
      /\ Len(Strings(l)) >= Len(Strings(p)) + 20
      /\ SubSeq(Strings(l), 1, 4) = Le32(Len(p.self_custody_public_key))

\* orb_nonce, "Fresh challenge that the App must echo": from protocol 4 on, the
\* announcement the orb is paired with was made in answer to the orb's announcement of
\* this very session, not of an earlier one or of another orb's.
PairedInThisSession ==
  \A o \in Orbs :
    Paired(o) /\ orb[o].orb_data # None
      /\ orb[o].got.protocol_version >= ORB_PAIRING_PROTOCOL_VERSION =>
        orb[o].got.answers = orb[o].orb_data

\* request_nonce, "Fresh App challenge from PairingRequest; only used for scan-to-pair":
\* the announcement an app accepts after its request was made by an orb that was given
\* the hash of the data of this session.
RequestedSessionsAgree ==
  \A a \in Apps :
    app[a].step = "announced" /\ app[a].request # NoNonce =>
      app[a].seen.data = app[a].data

\* UnboundIpcpPayload: when the orb is paired with an iPCP, the payload is sealed to the
\* ephemeral key of this session, so the orb can open it.
IpcpForThisSession ==
  \A o \in Orbs :
    Paired(o) /\ orb[o].orb_data # None /\ orb[o].got.ipcp # NoNonce =>
      orb[o].got.ipcp = orb[o].orb_data.ipcp_encryption_public_key
=============================================================================

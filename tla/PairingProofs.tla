--------------------------- MODULE PairingProofs ---------------------------
(***************************************************************************)
(* Theorems about PairingData and Pairing: the inputs of the current and of *)
(* the v1 hash determine the data they were computed from, so an orb is     *)
(* paired with the very data whose hash it was given, where legacy_hash()   *)
(* is not used for either; and what remains of that where it is.            *)
(***************************************************************************)
EXTENDS Pairing, SequenceTheorems, TLAPS

U32 == {n \in Nat : n < 4294967296}

Bytes == Seq(0 .. 255)

\* hash() panics on a string of 2^32 bytes or more (u32::try_from(..).expect).
Sized(d) ==
  /\ {d.pcp_version, d.version} \subseteq U32
  /\ \A v \in {d.self_custody_public_key, d.identity_commitment, d.os, d.os_version,
               d.device_public_key} : v \in Bytes /\ Len(v) \in U32

\* The four bytes of a u32 determine it.
LEMMA Le32Injective == \A m, n \in U32 : Le32(m) = Le32(n) => m = n
<1> SUFFICES ASSUME NEW m \in U32, NEW n \in U32, Le32(m) = Le32(n)
             PROVE  m = n
  OBVIOUS
<1>1. /\ m % 256 = n % 256
      /\ (m \div 256) % 256 = (n \div 256) % 256
      /\ (m \div 65536) % 256 = (n \div 65536) % 256
      /\ (m \div 16777216) % 256 = (n \div 16777216) % 256
  BY SMT DEF Le32
<1>2. \A k \in Int : k = 256 * (k \div 256) + (k % 256)
  BY SMT
<1>3. \A k \in Int : (k \div 256) \div 256 = k \div 65536
  BY SMT
<1>4. \A k \in Int : (k \div 65536) \div 256 = k \div 16777216
  BY SMT
<1>5. \A k \in Int : k \div 256 \in Int /\ k \div 65536 \in Int
  BY SMT
<1>6. \A k \in U32 : k \in Int /\ (k \div 16777216) % 256 = k \div 16777216
  BY SMT DEF U32
<1>7. \A k \in U32 :
        k = 256 * (256 * (256 * ((k \div 16777216) % 256) + ((k \div 65536) % 256))
                     + ((k \div 256) % 256)) + (k % 256)
  <2> SUFFICES ASSUME NEW k \in U32
               PROVE  k = 256 * (256 * (256 * ((k \div 16777216) % 256) + ((k \div 65536) % 256))
                                    + ((k \div 256) % 256)) + (k % 256)
    OBVIOUS
  <2>1. k = 256 * (k \div 256) + (k % 256)
    BY <1>2, <1>6, SMT
  <2>2. k \div 256 = 256 * (k \div 65536) + ((k \div 256) % 256)
    BY <1>2, <1>3, <1>5, <1>6, SMT
  <2>3. k \div 65536 = 256 * (k \div 16777216) + ((k \div 65536) % 256)
    BY <1>2, <1>4, <1>5, <1>6, SMT
  <2> QED
    BY <2>1, <2>2, <2>3, <1>6, SMT
<1> QED
  BY <1>1, <1>7

\* It is four bytes.
LEMMA Le32Bytes == \A n \in U32 : Le32(n) \in Bytes /\ Len(Le32(n)) = 4
<1> SUFFICES ASSUME NEW n \in U32
             PROVE  Le32(n) \in Bytes /\ Len(Le32(n)) = 4
  OBVIOUS
<1>1. \A k \in Int : k % 256 \in 0 .. 255
  OBVIOUS
<1>2. n \in Int
  BY SMT DEF U32
<1>3. \A k \in Int : k \div 256 \in Int /\ k \div 65536 \in Int /\ k \div 16777216 \in Int
  BY SMT
<1> QED
  BY <1>1, <1>2, <1>3, SMT DEF Le32, Bytes

\* Concatenation of bytes is bytes.
LEMMA BytesConcat == \A s, t \in Bytes : s \o t \in Bytes
BY DEF Bytes

\* Concatenation of bytes is associative.
LEMMA BytesAssociative == \A s, t, u \in Bytes : (s \o t) \o u = s \o (t \o u)
BY ConcatAssociative DEF Bytes

\* Equal sequences with first parts of one length have equal parts.
LEMMA ConcatSplit ==
  \A s, t, u, v \in Bytes : Len(s) = Len(t) /\ s \o u = t \o v => s = t /\ u = v
<1> SUFFICES ASSUME NEW s \in Bytes, NEW t \in Bytes, NEW u \in Bytes, NEW v \in Bytes,
                    Len(s) = Len(t), s \o u = t \o v
             PROVE  s = t /\ u = v
  OBVIOUS
<1>1. \A i \in 1 .. Len(s) : s[i] = t[i]
  <2> SUFFICES ASSUME NEW i \in 1 .. Len(s) PROVE s[i] = t[i]
    OBVIOUS
  <2>1. (s \o u)[i] = s[i] /\ (t \o v)[i] = t[i]
    BY DEF Bytes
  <2> QED
    BY <2>1
<1>2. s = t
  BY <1>1, SeqEqual DEF Bytes
<1>3. u = v
  <2>0. s \in Seq(0 .. 255) /\ u \in Seq(0 .. 255) /\ v \in Seq(0 .. 255)
    BY DEF Bytes
  <2>1. /\ Len(s \o u) = Len(s) + Len(u) /\ Len(s \o v) = Len(s) + Len(v)
        /\ Len(s) \in Nat /\ Len(u) \in Nat /\ Len(v) \in Nat
    BY <2>0
  <2>2. s \o u = s \o v /\ Len(u) = Len(v)
    BY <1>2, <2>1
  <2>3. \A i \in 1 .. Len(u) : u[i] = v[i]
    <3> SUFFICES ASSUME NEW i \in 1 .. Len(u) PROVE u[i] = v[i]
      OBVIOUS
    <3>1. (s \o u)[Len(s) + i] = u[i] /\ (s \o v)[Len(s) + i] = v[i]
      BY <2>0, <2>1, <2>2
    <3> QED
      BY <2>2, <3>1
  <2> QED
    BY <2>0, <2>2, <2>3, SeqEqual
<1> QED
  BY <1>2, <1>3

\* A length-prefixed field can be told from what follows it.
LEMMA FieldPrefixFree ==
  \A v, w, x, y \in Bytes :
    Len(v) \in U32 /\ Len(w) \in U32 /\ Field(v) \o x = Field(w) \o y => v = w /\ x = y
<1> SUFFICES ASSUME NEW v \in Bytes, NEW w \in Bytes, Len(v) \in U32, Len(w) \in U32,
                    NEW x \in Bytes, NEW y \in Bytes, Field(v) \o x = Field(w) \o y
             PROVE  v = w /\ x = y
  OBVIOUS
<1> DEFINE m == Le32(Len(v))
           n == Le32(Len(w))
           vx == v \o x
           wy == w \o y
<1>1. m \in Bytes /\ n \in Bytes /\ Len(m) = Len(n)
  BY Le32Bytes
<1>2. m = n => Len(v) = Len(w)
  BY Le32Injective
<1>3. vx \in Bytes /\ wy \in Bytes
  BY BytesConcat
<1>4. m \o vx = Field(v) \o x
  BY <1>1, BytesAssociative DEF Field
<1>5. n \o wy = Field(w) \o y
  BY <1>1, BytesAssociative DEF Field
<1>6. m \o vx = n \o wy
  BY <1>4, <1>5
<1>7. vx = wy => (Len(v) = Len(w) => v = w /\ x = y)
  BY ConcatSplit
<1> HIDE DEF m, n, vx, wy
<1>8. m = n /\ vx = wy
  BY <1>1, <1>3, <1>6, ConcatSplit
<1> QED
  BY <1>2, <1>7, <1>8

\* A field is a sequence of bytes, four longer than its contents.
LEMMA FieldBytes ==
  \A v \in Bytes : Len(v) \in U32 => Field(v) \in Bytes /\ Len(Field(v)) = 4 + Len(v)
<1> SUFFICES ASSUME NEW v \in Bytes, Len(v) \in U32
             PROVE  Field(v) \in Bytes /\ Len(Field(v)) = 4 + Len(v)
  OBVIOUS
<1>1. Le32(Len(v)) \in Bytes /\ Len(Le32(Len(v))) = 4
  BY Le32Bytes
<1>2. Field(v) \in Bytes
  BY <1>1 DEF Field, Bytes
<1>3. Len(Field(v)) = Len(Le32(Len(v))) + Len(v)
  BY <1>1, ConcatProperties DEF Field, Bytes
<1> QED
  BY <1>1, <1>2, <1>3

\* Sized spelled out.
LEMMA SizedFields ==
  \A d : Sized(d) =>
    /\ d.self_custody_public_key \in Bytes /\ Len(d.self_custody_public_key) \in U32
    /\ d.identity_commitment \in Bytes /\ Len(d.identity_commitment) \in U32
    /\ d.os \in Bytes /\ Len(d.os) \in U32
    /\ d.os_version \in Bytes /\ Len(d.os_version) \in U32
    /\ d.device_public_key \in Bytes /\ Len(d.device_public_key) \in U32
BY DEF Sized

\* The versions are eight bytes, and these determine them.
LEMMA VersionsSplit ==
  \A d, e : Sized(d) /\ Sized(e) =>
    /\ Versions(d) \in Bytes /\ Len(Versions(d)) = 8
    /\ Versions(d) = Versions(e) => d.pcp_version = e.pcp_version /\ d.version = e.version
<1> SUFFICES ASSUME NEW d, NEW e, Sized(d), Sized(e)
             PROVE  /\ Versions(d) \in Bytes /\ Len(Versions(d)) = 8
                    /\ Versions(d) = Versions(e) =>
                         d.pcp_version = e.pcp_version /\ d.version = e.version
  OBVIOUS
<1>1. {d.pcp_version, d.version, e.pcp_version, e.version} \subseteq U32
  BY DEF Sized
<1>2. ASSUME NEW a \in Bytes, NEW b \in Bytes, Len(a) = 4, Len(b) = 4
      PROVE  Len(a \o b) = 8 /\ a \o b \in Bytes
  <2>1. Len(a \o b) = Len(a) + Len(b)
    BY ConcatProperties DEF Bytes
  <2> QED
    BY <1>2, <2>1, BytesConcat
<1>3. Versions(d) \in Bytes /\ Len(Versions(d)) = 8
  BY <1>1, <1>2, Le32Bytes DEF Versions
<1>4. ASSUME Versions(d) = Versions(e)
      PROVE  Le32(d.pcp_version) = Le32(e.pcp_version) /\ Le32(d.version) = Le32(e.version)
  <2>1. /\ Le32(d.pcp_version) \in Bytes /\ Le32(d.version) \in Bytes
        /\ Le32(e.pcp_version) \in Bytes /\ Le32(e.version) \in Bytes
        /\ Len(Le32(d.pcp_version)) = Len(Le32(e.pcp_version))
    BY <1>1, Le32Bytes
  <2>2. Le32(d.pcp_version) \o Le32(d.version) = Le32(e.pcp_version) \o Le32(e.version)
    BY <1>4 DEF Versions
  <2> QED
    BY <2>1, <2>2, ConcatSplit
<1> QED
  BY <1>1, <1>3, <1>4, Le32Injective

\* What follows the four fields can be told from them.
LEMMA FieldsPrefixFree ==
  \A d, e : \A x, y \in Bytes :
    Sized(d) /\ Sized(e) /\ Fields(d, x) = Fields(e, y) =>
      /\ d.self_custody_public_key = e.self_custody_public_key
      /\ d.identity_commitment = e.identity_commitment
      /\ d.os = e.os /\ d.os_version = e.os_version
      /\ x = y
<1> SUFFICES ASSUME NEW d, NEW e, NEW x \in Bytes, NEW y \in Bytes,
                    Sized(d), Sized(e), Fields(d, x) = Fields(e, y)
             PROVE  /\ d.self_custody_public_key = e.self_custody_public_key
                    /\ d.identity_commitment = e.identity_commitment
                    /\ d.os = e.os /\ d.os_version = e.os_version
                    /\ x = y
  OBVIOUS
<1> DEFINE P(r, z) == Field(r.os_version) \o z
           Q(r, z) == Field(r.os) \o P(r, z)
           R(r, z) == Field(r.identity_commitment) \o Q(r, z)
<1>1. \A r : \A z \in Bytes : Sized(r) => P(r, z) \in Bytes
  BY SizedFields, FieldBytes, BytesConcat
<1>3. P(d, x) = P(e, y) => d.os_version = e.os_version /\ x = y
  <2>1. /\ d.os_version \in Bytes /\ Len(d.os_version) \in U32
        /\ e.os_version \in Bytes /\ Len(e.os_version) \in U32
    BY SizedFields
  <2> QED
    BY <2>1, FieldPrefixFree
<1> HIDE DEF P
<1>4. \A r : \A z \in Bytes : Sized(r) => Q(r, z) \in Bytes
  BY <1>1, SizedFields, FieldBytes, BytesConcat
<1>5. P(d, x) \in Bytes /\ P(e, y) \in Bytes
  BY <1>1
<1>6. Q(d, x) = Q(e, y) => d.os = e.os /\ P(d, x) = P(e, y)
  <2>1. /\ d.os \in Bytes /\ Len(d.os) \in U32
        /\ e.os \in Bytes /\ Len(e.os) \in U32
    BY SizedFields
  <2> QED
    BY <2>1, <1>5, FieldPrefixFree
<1> HIDE DEF Q
<1>7. \A r : \A z \in Bytes : Sized(r) => R(r, z) \in Bytes
  BY <1>4, SizedFields, FieldBytes, BytesConcat
<1>8. Q(d, x) \in Bytes /\ Q(e, y) \in Bytes
  BY <1>4
<1>9. R(d, x) = R(e, y) => d.identity_commitment = e.identity_commitment /\ Q(d, x) = Q(e, y)
  <2>1. /\ d.identity_commitment \in Bytes /\ Len(d.identity_commitment) \in U32
        /\ e.identity_commitment \in Bytes /\ Len(e.identity_commitment) \in U32
    BY SizedFields
  <2> QED
    BY <2>1, <1>8, FieldPrefixFree
<1>10. Field(d.self_custody_public_key) \o R(d, x) = Field(e.self_custody_public_key) \o R(e, y)
  BY DEF Fields, P, Q
<1> HIDE DEF R
<1>11. R(d, x) \in Bytes /\ R(e, y) \in Bytes
  BY <1>7
<1>12. d.self_custody_public_key = e.self_custody_public_key /\ R(d, x) = R(e, y)
  <2>1. /\ d.self_custody_public_key \in Bytes /\ Len(d.self_custody_public_key) \in U32
        /\ e.self_custody_public_key \in Bytes /\ Len(e.self_custody_public_key) \in U32
    BY SizedFields
  <2> QED
    BY <2>1, <1>10, <1>11, FieldPrefixFree
<1> QED
  BY <1>3, <1>6, <1>9, <1>12

\* The data of AppAuthenticatedData that hash() takes without a panic.
SizedData == {d \in AppAuthenticatedData : Hashable(d) /\ Sized(d)}

\* Data are equal when their fields are.
LEMMA DataEqual ==
  \A d, e \in AppAuthenticatedData :
    /\ d.self_custody_public_key = e.self_custody_public_key
    /\ d.identity_commitment = e.identity_commitment
    /\ d.os = e.os /\ d.os_version = e.os_version
    /\ d.device_public_key = e.device_public_key
    /\ d.pcp_version = e.pcp_version /\ d.version = e.version
    => d = e
BY DEF AppAuthenticatedData

\* The inputs of hash() and hash_v1() determine the data: no two data, and no two
\* formats, share one.
THEOREM InputBindsData ==
  \A d, e \in SizedData : d.version # 0 /\ e.version # 0 /\ Input(d) = Input(e) => d = e
<1> SUFFICES ASSUME NEW d \in SizedData, NEW e \in SizedData,
                    d.version # 0, e.version # 0, Input(d) = Input(e)
             PROVE  d = e
  OBVIOUS
<1> DEFINE Rest(r) == IF r.version = AppVERSION THEN Field(r.device_public_key) \o Versions(r)
                                                ELSE Versions(r)
<1>1. \A r \in {d, e} : /\ Sized(r) /\ Hashable(r) /\ r \in AppAuthenticatedData
                        /\ r.version \in {1, AppVERSION}
  BY DEF SizedData, Hashable
<1>2. \A r \in {d, e} : Input(r) = Fields(r, Rest(r))
  BY <1>1 DEF Input, CurrentInput, V1Input, AppVERSION
<1>3. \A r \in {d, e} : Rest(r) \in Bytes
  BY <1>1, SizedFields, FieldBytes, VersionsSplit, BytesConcat
<1>4. /\ d.self_custody_public_key = e.self_custody_public_key
      /\ d.identity_commitment = e.identity_commitment
      /\ d.os = e.os /\ d.os_version = e.os_version
      /\ Rest(d) = Rest(e)
  <2>1. Rest(d) \in Bytes /\ Rest(e) \in Bytes /\ Sized(d) /\ Sized(e)
    BY <1>1, <1>3
  <2>2. Fields(d, Rest(d)) = Fields(e, Rest(e))
    BY <1>2
  <2> HIDE DEF Rest
  <2> QED
    BY <2>1, <2>2, FieldsPrefixFree
<1>5. ASSUME NEW r \in {d, e}, r.version = AppVERSION
      PROVE  Len(Rest(r)) > 8
  <2> DEFINE k == r.device_public_key
  <2>1. k \in Bytes /\ Len(k) \in Nat /\ Len(k) > 0 /\ Len(k) \in U32
    <3>1. k \in Bytes /\ Len(k) \in U32 /\ k # <<>>
      BY <1>1, <1>5, SizedFields DEF Hashable
    <3> QED
      BY <3>1, EmptySeq, SMT DEF Bytes, U32
  <2>2. Field(k) \in Bytes /\ Len(Field(k)) = 4 + Len(k)
    BY <2>1, FieldBytes
  <2>3. Versions(r) \in Bytes /\ Len(Versions(r)) = 8
    BY <1>1, VersionsSplit
  <2>4. Len(Field(k) \o Versions(r)) = Len(Field(k)) + Len(Versions(r))
    BY <2>2, <2>3, ConcatProperties DEF Bytes
  <2> QED
    BY <1>5, <2>1, <2>2, <2>3, <2>4
<1>6. \A r \in {d, e} : r.version # AppVERSION => Len(Rest(r)) = 8
  BY <1>1, VersionsSplit
<1>7. d.version = AppVERSION <=> e.version = AppVERSION
  <2> DEFINE x == Len(Rest(d))
             y == Len(Rest(e))
  <2>1. x = y
    BY <1>4
  <2>2. d.version = AppVERSION => x > 8
    BY <1>5
  <2>3. e.version = AppVERSION => y > 8
    BY <1>5
  <2>4. d.version # AppVERSION => x = 8
    BY <1>6
  <2>5. e.version # AppVERSION => y = 8
    BY <1>6
  <2> HIDE DEF x, y, Rest
  <2> QED
    BY <2>1, <2>2, <2>3, <2>4, <2>5
<1>8. d.device_public_key = e.device_public_key /\ Versions(d) = Versions(e)
  <2>1. /\ d.device_public_key \in Bytes /\ Len(d.device_public_key) \in U32
        /\ e.device_public_key \in Bytes /\ Len(e.device_public_key) \in U32
        /\ Versions(d) \in Bytes /\ Versions(e) \in Bytes
    BY <1>1, SizedFields, VersionsSplit
  <2>2. CASE d.version = AppVERSION
    <3>1. Field(d.device_public_key) \o Versions(d) = Field(e.device_public_key) \o Versions(e)
      BY <1>4, <1>7, <2>2
    <3> QED
      BY <2>1, <3>1, FieldPrefixFree
  <2>3. CASE d.version # AppVERSION
    BY <1>1, <1>4, <1>7, <2>3 DEF Hashable
  <2> QED
    BY <2>2, <2>3
<1>9. d.pcp_version = e.pcp_version /\ d.version = e.version
  BY <1>1, <1>8, VersionsSplit
<1> QED
  BY <1>1, <1>4, <1>8, <1>9, DataEqual

\* AppAuthenticatedData::verify: from format version 1 on, data verifies against the
\* digest of some data exactly if it is that data.
THEOREM VerifyAcceptsExactly ==
  ASSUME NEW d \in SizedData, NEW e \in SizedData, d.version # 0, e.version # 0,
         NEW n \in Nat \ {0}
  PROVE  VerifyApp(d, Blake3(Input(e), n)) <=> d = e
<1>1. VerifyApp(d, Blake3(Input(e), n)) <=> Input(d) = Input(e)
  BY DEF VerifyApp, Blake3, SizedData
<1> QED
  BY <1>1, InputBindsData
\* Sequences made of parts of the same lengths have the same length.
LEMMA ConcatLength ==
  ASSUME NEW p \in Bytes, NEW q \in Bytes, NEW r \in Bytes, NEW s \in Bytes,
         Len(p) = Len(r), Len(q) = Len(s)
  PROVE  p \o q \in Bytes /\ r \o s \in Bytes /\ Len(p \o q) = Len(r \o s)
<1>1. Len(p \o q) = Len(p) + Len(q) /\ Len(r \o s) = Len(r) + Len(s)
  BY ConcatProperties DEF Bytes
<1> QED
  BY <1>1, BytesConcat

LEMMA Le32NotEmpty == \A n \in U32 : Le32(n) # <<>>
BY DEF Le32

\* The version of the PCP, in the legacy format.
LegacyPcp(r) == IF r.pcp_version # PCP_VERSION_DEFAULT THEN Le32(r.pcp_version) ELSE <<>>

LEMMA LegacyParts ==
  ASSUME NEW r, r.version = 0
  PROVE  Input(r) = (((r.identity_commitment \o r.self_custody_public_key)
                        \o r.os_version) \o r.os) \o LegacyPcp(r)
<1>1. r.version # AppVERSION /\ r.version # 1
  BY DEF AppVERSION
<1>2. Input(r) = LegacyInput(r)
  BY <1>1 DEF Input
<1> QED
  BY <1>2 DEF LegacyInput, LegacyPcp, Strings

\* legacy_hash(): data of the legacy format that share an input and the lengths of their
\* fields are equal: bytes can only move from one field to another.
THEOREM LegacyBindsShape ==
  ASSUME NEW d \in SizedData, NEW e \in SizedData, d.version = 0, e.version = 0,
         SameLengths(d, e), Input(d) = Input(e)
  PROVE  d = e
<1>1. /\ Sized(d) /\ Sized(e) /\ Hashable(d) /\ Hashable(e)
      /\ d \in AppAuthenticatedData /\ e \in AppAuthenticatedData
      /\ d.pcp_version \in U32 /\ e.pcp_version \in U32
  BY DEF SizedData, Sized
<1>2. LegacyPcp(d) \in Bytes /\ LegacyPcp(e) \in Bytes
  <2>1. <<>> \in Bytes
    BY EmptySeq DEF Bytes
  <2> QED
    BY <1>1, <2>1, Le32Bytes DEF LegacyPcp
<1> DEFINE I(r) == r.identity_commitment
           K(r) == r.self_custody_public_key
           V(r) == r.os_version
           O(r) == r.os
           A(r) == I(r) \o K(r)
           B(r) == A(r) \o V(r)
           C(r) == B(r) \o O(r)
<1>i. I(d) \in Bytes /\ I(e) \in Bytes /\ Len(I(d)) = Len(I(e))
  BY <1>1, SizedFields DEF SameLengths
<1>k. K(d) \in Bytes /\ K(e) \in Bytes /\ Len(K(d)) = Len(K(e))
  BY <1>1, SizedFields DEF SameLengths
<1>v. V(d) \in Bytes /\ V(e) \in Bytes /\ Len(V(d)) = Len(V(e))
  BY <1>1, SizedFields DEF SameLengths
<1>o. O(d) \in Bytes /\ O(e) \in Bytes /\ Len(O(d)) = Len(O(e))
  BY <1>1, SizedFields DEF SameLengths
<1>g. C(d) \o LegacyPcp(d) = C(e) \o LegacyPcp(e)
  BY LegacyParts
<1> HIDE DEF I, K, V, O
<1>a. A(d) \in Bytes /\ A(e) \in Bytes /\ Len(A(d)) = Len(A(e))
  BY <1>i, <1>k, ConcatLength
<1>b. A(d) = A(e) => I(d) = I(e) /\ K(d) = K(e)
  BY <1>i, <1>k, ConcatSplit
<1> HIDE DEF A
<1>c. B(d) \in Bytes /\ B(e) \in Bytes /\ Len(B(d)) = Len(B(e))
  BY <1>a, <1>v, ConcatLength
<1>d. B(d) = B(e) => A(d) = A(e) /\ V(d) = V(e)
  BY <1>a, <1>v, ConcatSplit
<1> HIDE DEF B
<1>e. C(d) \in Bytes /\ C(e) \in Bytes /\ Len(C(d)) = Len(C(e))
  BY <1>c, <1>o, ConcatLength
<1>f. C(d) = C(e) => B(d) = B(e) /\ O(d) = O(e)
  BY <1>c, <1>o, ConcatSplit
<1> HIDE DEF C
<1>h. C(d) = C(e) /\ LegacyPcp(d) = LegacyPcp(e)
  BY <1>2, <1>e, <1>g, ConcatSplit
<1>3. /\ d.identity_commitment = e.identity_commitment
      /\ d.self_custody_public_key = e.self_custody_public_key
      /\ d.os_version = e.os_version /\ d.os = e.os
      /\ LegacyPcp(d) = LegacyPcp(e)
  BY <1>b, <1>d, <1>f, <1>h DEF I, K, V, O
<1>4. d.pcp_version = e.pcp_version
  <2>1. d.pcp_version # PCP_VERSION_DEFAULT <=> e.pcp_version # PCP_VERSION_DEFAULT
    BY <1>1, <1>3, Le32NotEmpty DEF LegacyPcp
  <2>2. CASE d.pcp_version = PCP_VERSION_DEFAULT
    BY <2>1, <2>2
  <2>3. CASE d.pcp_version # PCP_VERSION_DEFAULT
    BY <1>1, <1>3, <2>1, <2>3, Le32Injective DEF LegacyPcp
  <2> QED
    BY <2>2, <2>3
<1>5. d.device_public_key = e.device_public_key
  BY <1>1 DEF Hashable, AppVERSION
<1> QED
  BY <1>1, <1>3, <1>4, <1>5, DataEqual

\* legacy_hash(), "allows hash collisions by shifting bytes between adjacent fields": the
\* lengths are needed.
THEOREM LegacyNeedsShape ==
  \E d, e \in SizedData : d.version = 0 /\ e.version = 0 /\ d # e /\ Input(d) = Input(e)
<1> DEFINE D(x, y) == [self_custody_public_key |-> x, identity_commitment |-> y, os |-> <<>>,
                       os_version |-> <<>>, pcp_version |-> PCP_VERSION_DEFAULT, version |-> 0,
                       device_public_key |-> <<>>]
<1>1. <<1>> \in Bytes /\ <<>> \in Bytes /\ Len(<<1>>) = 1 /\ Len(<<>>) = 0
  <2>1. 1 \in 0 .. 255 /\ Len(<<1>>) = 1 /\ Len(<<>>) = 0
    OBVIOUS
  <2>2. <<1>> \in Seq(0 .. 255) /\ <<>> \in Seq(0 .. 255)
    BY <2>1
  <2> QED
    BY <2>1, <2>2 DEF Bytes
<1>2. PICK s \in Bytes, z \in Bytes : s = <<1>> /\ z = <<>> /\ Len(s) = 1 /\ Len(z) = 0
  BY <1>1
<1>3. \A x, y \in {s, z} : D(x, y) \in SizedData
  <2> SUFFICES ASSUME NEW x \in {s, z}, NEW y \in {s, z}
               PROVE  D(x, y) \in SizedData
    OBVIOUS
  <2>1. 0 \in Nat /\ PCP_VERSION_DEFAULT \in Nat /\ {PCP_VERSION_DEFAULT, 0} \subseteq U32
    BY DEF U32, PCP_VERSION_DEFAULT
  <2>2. 0 \in U32 /\ 1 \in U32 /\ String = Bytes
    BY DEF U32, String, Bytes
  <2>3. \A w \in {s, z} : w \in Bytes /\ w \in String /\ Len(w) \in U32
    BY <1>2, <2>2
  <2>4. D(x, y) \in AppAuthenticatedData
    BY <1>2, <2>1, <2>3 DEF AppAuthenticatedData
  <2>5. Hashable(D(x, y))
    BY DEF Hashable, AppVERSION
  <2>6. Sized(D(x, y))
    BY <1>2, <2>1, <2>3 DEF Sized
  <2> QED
    BY <2>4, <2>5, <2>6 DEF SizedData
<1>4. D(s, z) # D(z, s)
  <2>1. s # z
    BY <1>2
  <2>2. D(s, z).self_custody_public_key # D(z, s).self_custody_public_key
    BY <2>1
  <2> QED
    BY <2>2
<1>5. s \o z = s /\ z \o s = s
  BY <1>2, ConcatEmptySeq DEF Bytes
<1>6. Input(D(s, z)) = Input(D(z, s))
  <2>1. ASSUME NEW x, NEW y
        PROVE  Input(D(x, y)) = (((y \o x) \o <<>>) \o <<>>) \o LegacyPcp(D(x, y))
    <3>1. D(x, y).version = 0
      OBVIOUS
    <3>2. /\ D(x, y).identity_commitment = y /\ D(x, y).self_custody_public_key = x
          /\ D(x, y).os = <<>> /\ D(x, y).os_version = <<>>
      OBVIOUS
    <3> HIDE DEF D
    <3> QED
      BY <3>1, <3>2, LegacyParts
  <2>2. LegacyPcp(D(s, z)) = LegacyPcp(D(z, s))
    BY DEF LegacyPcp
  <2> HIDE DEF D
  <2> QED
    BY <1>5, <2>1, <2>2
<1>7. D(s, z).version = 0 /\ D(z, s).version = 0
  OBVIOUS
<1> HIDE DEF D
<1> QED
  BY <1>3, <1>4, <1>6, <1>7
-----------------------------------------------------------------------------
(* Data of the legacy format and data of the others. *)

\* The length of two parts together.
LEMMA BytesLen ==
  \A s, t \in Bytes : s \o t \in Bytes /\ Len(s \o t) = Len(s) + Len(t) /\ Len(s) \in Nat
BY ConcatProperties, BytesConcat DEF Bytes

\* The strings together.
LEMMA StringsLen ==
  ASSUME NEW d, Sized(d)
  PROVE  /\ Strings(d) \in Bytes
         /\ Len(Strings(d)) = Len(d.identity_commitment) + Len(d.self_custody_public_key)
                                + Len(d.os_version) + Len(d.os)
<1>1. PICK i \in Bytes, k \in Bytes, v \in Bytes, o \in Bytes :
        i = d.identity_commitment /\ k = d.self_custody_public_key
          /\ v = d.os_version /\ o = d.os
  BY SizedFields
<1>2. PICK a \in Bytes : a = i \o k /\ Len(a) = Len(i) + Len(k)
  BY BytesLen
<1>3. PICK b \in Bytes : b = a \o v /\ Len(b) = Len(a) + Len(v)
  BY BytesLen
<1>4. PICK c \in Bytes : c = b \o o /\ Len(c) = Len(b) + Len(o)
  BY BytesLen
<1>5. Strings(d) = c
  BY <1>1, <1>2, <1>3, <1>4 DEF Strings
<1>6. Len(i) \in Nat /\ Len(k) \in Nat /\ Len(v) \in Nat /\ Len(o) \in Nat
  BY BytesLen
<1> QED
  BY <1>1, <1>2, <1>3, <1>4, <1>5, <1>6

\* A field and what follows it.
LEMMA FieldThen ==
  ASSUME NEW v \in Bytes, Len(v) \in U32, NEW x \in Bytes
  PROVE  /\ Field(v) \o x \in Bytes /\ Len(Field(v) \o x) = 4 + Len(v) + Len(x)
         /\ Field(v) \o x = Le32(Len(v)) \o (v \o x)
<1>1. PICK f \in Bytes : f = Field(v) /\ Len(f) = 4 + Len(v)
  BY FieldBytes
<1>2. f \o x \in Bytes /\ Len(f \o x) = Len(f) + Len(x)
  BY BytesLen
<1>3. Le32(Len(v)) \in Bytes
  BY Le32Bytes
<1>4. Le32(Len(v)) \o (v \o x) = Field(v) \o x
  BY <1>3, BytesAssociative DEF Field
<1> QED
  BY <1>1, <1>2, <1>4

\* The fields begin with the length of the first and are longer than the strings by the
\* four lengths.
LEMMA FieldsLen ==
  ASSUME NEW d, Sized(d), NEW x \in Bytes
  PROVE  /\ Fields(d, x) \in Bytes
         /\ Len(Fields(d, x)) = Len(Strings(d)) + 16 + Len(x)
         /\ \E y \in Bytes : Fields(d, x) = Le32(Len(d.self_custody_public_key)) \o y
<1>1. PICK i \in Bytes, k \in Bytes, v \in Bytes, o \in Bytes :
        /\ i = d.identity_commitment /\ k = d.self_custody_public_key
        /\ v = d.os_version /\ o = d.os
        /\ {Len(i), Len(k), Len(v), Len(o)} \subseteq U32
  BY SizedFields
<1>2. Len(i) \in U32 /\ Len(k) \in U32 /\ Len(v) \in U32 /\ Len(o) \in U32
  BY <1>1
<1>3. PICK a \in Bytes : a = Field(v) \o x /\ Len(a) = 4 + Len(v) + Len(x)
  BY <1>2, FieldThen
<1>4. PICK b \in Bytes : b = Field(o) \o a /\ Len(b) = 4 + Len(o) + Len(a)
  BY <1>2, FieldThen
<1>5. PICK c \in Bytes : c = Field(i) \o b /\ Len(c) = 4 + Len(i) + Len(b)
  BY <1>2, FieldThen
<1>6. PICK e \in Bytes : e = Field(k) \o c /\ Len(e) = 4 + Len(k) + Len(c)
  BY <1>2, FieldThen
<1>7. Fields(d, x) = e
  BY <1>1, <1>3, <1>4, <1>5, <1>6 DEF Fields
<1>8. e = Le32(Len(k)) \o (k \o c) /\ k \o c \in Bytes
  BY <1>2, <1>6, FieldThen, BytesConcat
<1>9. Len(Strings(d)) = Len(i) + Len(k) + Len(v) + Len(o)
  BY <1>1, StringsLen
<1>10. Len(i) \in Nat /\ Len(k) \in Nat /\ Len(v) \in Nat /\ Len(o) \in Nat /\ Len(x) \in Nat
  BY BytesLen
<1>11. Len(e) = Len(Strings(d)) + 16 + Len(x)
  BY <1>3, <1>4, <1>5, <1>6, <1>9, <1>10
<1> QED
  BY <1>1, <1>7, <1>8, <1>11

\* What is fed for data of the current or the v1 format.
LEMMA PrefixedInput ==
  ASSUME NEW p \in SizedData, p.version # 0
  PROVE  /\ Input(p) \in Bytes /\ Len(Input(p)) >= Len(Strings(p)) + 24
         /\ \E y \in Bytes : Input(p) = Le32(Len(p.self_custody_public_key)) \o y
<1>1. Sized(p) /\ Hashable(p) /\ p.version \in {1, AppVERSION}
  BY DEF SizedData, Hashable
<1>2. Len(Strings(p)) \in Nat
  BY <1>1, StringsLen, BytesLen
<1>3. Versions(p) \in Bytes /\ Len(Versions(p)) = 8
  BY <1>1, VersionsSplit
<1>4. PICK x \in Bytes : Input(p) = Fields(p, x) /\ Len(x) >= 8 /\ Len(x) \in Nat
  <2>1. CASE p.version = AppVERSION
    <3>1. PICK k \in Bytes, v \in Bytes :
            k = p.device_public_key /\ v = Versions(p) /\ Len(k) \in U32 /\ Len(v) = 8
      BY <1>1, <1>3, SizedFields
    <3>2. PICK x \in Bytes : x = Field(k) \o v /\ Len(x) = 4 + Len(k) + Len(v)
      BY <3>1, FieldThen
    <3>3. Input(p) = Fields(p, x)
      <4>1. Input(p) = CurrentInput(p)
        BY <2>1 DEF Input, AppVERSION
      <4> QED
        BY <3>1, <3>2, <4>1 DEF CurrentInput
    <3>4. Len(x) >= 8 /\ Len(x) \in Nat
      <4>1. Len(k) \in Nat
        BY BytesLen
      <4> QED
        BY <3>1, <3>2, <4>1
    <3> QED
      BY <3>3, <3>4
  <2>2. CASE p.version # AppVERSION
    <3>1. Input(p) = Fields(p, Versions(p))
      BY <1>1, <2>2 DEF Input, V1Input, AppVERSION
    <3>2. PICK x \in Bytes : x = Versions(p) /\ Len(x) = 8
      BY <1>3
    <3>3. 8 >= 8 /\ 8 \in Nat
      OBVIOUS
    <3> QED
      BY <3>1, <3>2, <3>3
  <2> QED
    BY <2>1, <2>2
<1>5. /\ Fields(p, x) \in Bytes /\ Len(Fields(p, x)) = Len(Strings(p)) + 16 + Len(x)
      /\ \E y \in Bytes : Fields(p, x) = Le32(Len(p.self_custody_public_key)) \o y
  BY <1>1, FieldsLen
<1>6. Len(Strings(p)) + 16 + Len(x) >= Len(Strings(p)) + 24
  BY <1>2, <1>4
<1> QED
  BY <1>4, <1>5, <1>6

\* verify() under the format of the received data: legacy data and data of another format
\* with one input have the length prefixes in the strings of the legacy data.
THEOREM MixedFormats ==
  ASSUME NEW l \in SizedData, NEW p \in SizedData, l.version = 0, p.version # 0,
         Input(l) = Input(p)
  PROVE  /\ Len(Strings(l)) >= Len(Strings(p)) + 20
         /\ SubSeq(Strings(l), 1, 4) = Le32(Len(p.self_custody_public_key))
<1>1. Sized(l) /\ Sized(p) /\ l.pcp_version \in U32 /\ Len(p.self_custody_public_key) \in U32
  BY DEF SizedData, Sized
<1>2. PICK c \in Bytes : c = LegacyPcp(l) /\ Len(c) \in Nat /\ Len(c) <= 4
  <2>1. CASE l.pcp_version # PCP_VERSION_DEFAULT
    <3>1. PICK c \in Bytes : c = Le32(l.pcp_version) /\ Len(c) = 4
      BY <1>1, Le32Bytes
    <3>2. 4 \in Nat /\ 4 <= 4
      OBVIOUS
    <3> QED
      BY <2>1, <3>1, <3>2 DEF LegacyPcp
  <2>2. CASE l.pcp_version = PCP_VERSION_DEFAULT
    <3>1. PICK c \in Bytes : c = <<>> /\ Len(c) = 0
      BY EmptySeq DEF Bytes
    <3>2. 0 \in Nat /\ 0 <= 4
      OBVIOUS
    <3> QED
      BY <2>2, <3>1, <3>2 DEF LegacyPcp
  <2> QED
    BY <2>1, <2>2
<1>3. PICK s \in Bytes, t \in Bytes : s = Strings(l) /\ t = Strings(p)
  BY <1>1, StringsLen
<1>4. PICK w \in Bytes : w = Le32(Len(p.self_custody_public_key)) /\ Len(w) = 4
  BY <1>1, Le32Bytes
<1>5. Input(l) = s \o c
  BY <1>2, <1>3, LegacyParts DEF Strings
<1>6. PICK y \in Bytes : s \o c = w \o y /\ Len(s \o c) >= Len(t) + 24
  BY <1>3, <1>4, <1>5, PrefixedInput
<1>7. Len(s) \in Nat /\ Len(t) \in Nat /\ Len(s \o c) = Len(s) + Len(c)
  BY BytesLen
<1>8. Len(s) >= Len(t) + 20
  BY <1>2, <1>6, <1>7
<1>9. SubSeq(s, 1, 4) = w
  <2>1. s \in Seq(0 .. 255) /\ c \in Seq(0 .. 255) /\ w \in Seq(0 .. 255) /\ y \in Seq(0 .. 255)
    BY DEF Bytes
  <2>2. Len(s) >= 4
    BY <1>7, <1>8
  <2>3. ASSUME NEW i \in 1 .. 4
        PROVE  SubSeq(s, 1, 4)[i] = w[i]
    <3>1. (s \o c)[i] = s[i] /\ (w \o y)[i] = w[i]
      BY <1>4, <1>7, <2>1, <2>2
    <3>2. SubSeq(s, 1, 4)[i] = s[i]
      BY <2>1, <2>2
    <3> QED
      BY <1>6, <3>1, <3>2
  <2>4. SubSeq(s, 1, 4) \in Seq(0 .. 255) /\ Len(SubSeq(s, 1, 4)) = 4
    <3>1. \A i \in 1 .. 4 : s[i] \in 0 .. 255
      <4> SUFFICES ASSUME NEW i \in 1 .. 4 PROVE s[i] \in 0 .. 255
        OBVIOUS
      <4>1. i \in 1 .. Len(s)
        BY <1>7, <2>2
      <4>2. PICK S : S = 0 .. 255
        OBVIOUS
      <4>3. s \in Seq(S)
        BY <2>1, <4>2
      <4>4. s[i] \in S
        BY <4>1, <4>3, ElementOfSeq
      <4> QED
        BY <4>2, <4>4
    <3>2. 1 \in Int /\ 4 \in Int /\ 1 <= 4 /\ 4 - 1 + 1 = 4
      OBVIOUS
    <3> QED
      BY <3>1, <3>2, SubSeqProperties
  <2> QED
    BY <1>4, <2>1, <2>3, <2>4, SeqEqual
<1> QED
  BY <1>3, <1>4, <1>8, <1>9

\* In particular, some string of theirs differs in length.
LEMMA MixedFormatsApart ==
  ASSUME NEW l \in SizedData, NEW p \in SizedData, l.version = 0, p.version # 0,
         Input(l) = Input(p)
  PROVE  ~SameLengths(l, p)
<1>1. Sized(l) /\ Sized(p)
  BY DEF SizedData
<1>2. SameLengths(l, p) => Len(Strings(l)) = Len(Strings(p))
  BY <1>1, StringsLen DEF SameLengths
<1>3. Len(Strings(l)) \in Nat /\ Len(Strings(p)) \in Nat
  BY <1>1, StringsLen, BytesLen
<1> QED
  BY <1>2, <1>3, MixedFormats

\* legacy_hash() feeds its strings bare, so such data exist: the input of any data of another
\* format is that of legacy data with these very bytes as its identity_commitment.
THEOREM LegacyPassesForOthers ==
  ASSUME NEW p \in SizedData, p.version # 0, Len(Input(p)) \in U32
  PROVE  \E l \in SizedData : l.version = 0 /\ Input(l) = Input(p)
<1>1. PICK s \in Bytes : s = Input(p) /\ Len(s) \in U32
  BY PrefixedInput
<1>2. PICK z \in Bytes : z = <<>> /\ Len(z) = 0
  BY EmptySeq DEF Bytes
<1> DEFINE l == [self_custody_public_key |-> z, identity_commitment |-> s, os |-> z,
                 os_version |-> z, pcp_version |-> PCP_VERSION_DEFAULT, version |-> 0,
                 device_public_key |-> z]
<1>3. l \in SizedData
  <2>1. 0 \in Nat /\ PCP_VERSION_DEFAULT \in Nat /\ {PCP_VERSION_DEFAULT, 0} \subseteq U32
    BY DEF U32, PCP_VERSION_DEFAULT
  <2>2. 0 \in U32 /\ String = Bytes
    BY DEF U32, String, Bytes
  <2>3. l \in AppAuthenticatedData
    BY <2>1, <2>2 DEF AppAuthenticatedData
  <2>4. Hashable(l)
    BY <1>2 DEF Hashable, AppVERSION
  <2>5. Sized(l)
    BY <1>1, <1>2, <2>1, <2>2 DEF Sized
  <2> QED
    BY <2>3, <2>4, <2>5 DEF SizedData
<1>4. s \o z = s
  BY <1>2, ConcatEmptySeq DEF Bytes
<1>5. Input(l) = (((s \o z) \o z) \o z) \o z
  <2>1. l.version = 0 /\ LegacyPcp(l) = z
    BY <1>2 DEF LegacyPcp
  <2>2. /\ l.identity_commitment = s /\ l.self_custody_public_key = z
        /\ l.os = z /\ l.os_version = z
    OBVIOUS
  <2> HIDE DEF l
  <2> QED
    BY <2>1, <2>2, LegacyParts
<1>6. l.version = 0
  OBVIOUS
<1> HIDE DEF l
<1> QED
  BY <1>1, <1>3, <1>4, <1>5, <1>6

-----------------------------------------------------------------------------
(* The invariant behind PairedDataIsHashed: digests and data stay together. *)

DataInv ==
  /\ \A m \in net : m.type = "PairingRequest" =>
       m.data \in Data /\ m.user_data_hash = Blake3(Input(m.data), HashLen)
  /\ \A m \in net : m.type = "AnnounceAppId" => m.app_data \in Data \cup {None}
  /\ \A a \in Apps : app[a].step # "idle" => app[a].data \in Data
  /\ \A o \in Orbs : orb[o].step # "idle" =>
       orb[o].data \in Data /\ orb[o].hash = Blake3(Input(orb[o].data), HashLen)
  /\ \A o \in Orbs : orb[o].step = "paired" =>
       /\ orb[o].got.app_data \in Data \cup {None}
       /\ VerifyAnnounceAppId(orb[o].got, orb[o].hash, orb[o].orb_data)

Tables ==
  /\ DOMAIN app = Apps /\ DOMAIN orb = Orbs
  /\ \A a \in Apps : app[a].step # "idle" => {"step", "seen"} \subseteq DOMAIN app[a]
  /\ \A o \in Orbs : orb[o].step # "idle" => {"step", "got"} \subseteq DOMAIN orb[o]

\* The steps keep it.
LEMMA DataInvStep == DataInv /\ Tables /\ [Next]_vars => DataInv' /\ Tables'
<1> SUFFICES ASSUME DataInv, Tables, [Next]_vars
             PROVE  DataInv' /\ Tables'
  OBVIOUS
<1> USE DEF DataInv, Tables
<1>1. ASSUME NEW a \in Apps, NEW d \in Data, NEW v \in Protocols, AppShowQr(a, d, v)
      PROVE  DataInv' /\ Tables'
  BY <1>1 DEF AppShowQr, AppSession
<1>2. ASSUME NEW a \in Apps, NEW d \in Data, NEW v \in Protocols, NEW o \in Orbs,
             AppRequestPairing(a, d, v, o)
      PROVE  DataInv' /\ Tables'
  BY <1>2 DEF AppRequestPairing, AppSession
<1>3. ASSUME NEW a \in Apps, AppHeartbeat(a)
      PROVE  DataInv' /\ Tables'
  BY <1>3 DEF AppHeartbeat
<1>4. ASSUME NEW o \in Orbs, NEW a, NEW d \in Data, NEW n,
             Announce(o, a, d, Blake3(Input(d), HashLen), n)
      PROVE  DataInv' /\ Tables'
  BY <1>4 DEF Announce
<1>5. ASSUME NEW a \in Apps, NEW o \in Orbs, OrbScanQr(o, a)
      PROVE  DataInv' /\ Tables'
  BY <1>4, <1>5 DEF OrbScanQr
<1>6. ASSUME NEW o \in Orbs, OrbTimeout(o)
      PROVE  DataInv' /\ Tables'
  BY <1>6 DEF OrbTimeout, NoOrb
<1>7. ASSUME NEW m \in net, NEW o \in Orbs, OrbTakeRequest(o, m)
      PROVE  DataInv' /\ Tables'
  <2>1. m.data \in Data /\ m.user_data_hash = Blake3(Input(m.data), HashLen)
    BY <1>7 DEF OrbTakeRequest
  <2>2. Announce(o, m.from, m.data, m.user_data_hash, m.request_nonce)
    BY <1>7 DEF OrbTakeRequest
  <2>3. Announce(o, m.from, m.data, Blake3(Input(m.data), HashLen), m.request_nonce)
    BY <2>1, <2>2
  <2> QED
    BY <1>4, <2>1, <2>3
<1>8. ASSUME NEW m \in net, NEW o \in Orbs, OrbTakeAnnouncement(o, m)
      PROVE  DataInv' /\ Tables'
  <2> DEFINE r == orb[o]
             s == [r EXCEPT !.step = "paired", !.got = m]
  <2>1. r.step # "idle" /\ {"step", "got"} \subseteq DOMAIN r
    BY <1>8 DEF OrbTakeAnnouncement
  <2>2. orb' = [orb EXCEPT ![o] = s]
    BY <1>8 DEF OrbTakeAnnouncement
  <2>3. /\ m.app_data \in Data \cup {None}
        /\ VerifyAnnounceAppId(m, r.hash, r.orb_data)
        /\ r.data \in Data /\ r.hash = Blake3(Input(r.data), HashLen)
        /\ UNCHANGED <<app, net>>
    BY <1>8, <2>1 DEF OrbTakeAnnouncement
  <2>4. /\ s.step = "paired" /\ s.data = r.data /\ s.hash = r.hash /\ s.got = m
        /\ s.orb_data = r.orb_data /\ DOMAIN s = DOMAIN r
    BY <2>1
  <2> HIDE DEF r, s
  <2> QED
    BY <2>1, <2>2, <2>3, <2>4
<1>9. ASSUME NEW m \in net, NEW a \in Apps, NEW b \in BOOLEAN, AppTakeAnnouncement(a, m, b)
      PROVE  DataInv' /\ Tables'
  BY <1>9 DEF AppTakeAnnouncement
<1>10. CASE UNCHANGED vars
  BY <1>10 DEF vars
<1> QED
  BY <1>1, <1>2, <1>3, <1>5, <1>6, <1>7, <1>8, <1>9, <1>10 DEF Next

\* DataInv is an invariant.
LEMMA DataInvariant == Spec => [](DataInv /\ Tables)
<1>1. Init => DataInv /\ Tables
  BY DEF Init, DataInv, Tables, NoApp, NoOrb
<1> QED
  BY <1>1, DataInvStep, PTL DEF Spec

\* The data an orb is paired with and the data whose hash it was given have one input.
LEMMA PairedInputs ==
  ASSUME Data \subseteq SizedData, DataInv, NEW o \in Orbs, Paired(o)
  PROVE  /\ orb[o].data \in SizedData /\ orb[o].got.app_data \in SizedData
         /\ Input(orb[o].data) = Input(orb[o].got.app_data)
<1>1. PICK d, e : d = orb[o].data /\ e = orb[o].got.app_data
  OBVIOUS
<1>2. /\ VerifyApp(e, Blake3(Input(d), HashLen)) /\ d \in Data /\ e \in Data
  BY <1>1 DEF DataInv, Paired, VerifyAnnounceAppId
<1>3. Input(d) = Input(e)
  BY <1>2 DEF VerifyApp, Blake3
<1> QED
  BY <1>1, <1>2, <1>3

\* An orb is never paired with data other than those whose hash it was given, whatever the
\* formats of the two, but for legacy data with strings of other lengths, if strings are
\* shorter than 2^32 bytes.
THEOREM PairedDataBound ==
  ASSUME Data \subseteq SizedData
  PROVE  Spec => []PairedDataIsHashed
<1>1. DataInv => PairedDataIsHashed
  <2> SUFFICES ASSUME DataInv, NEW o \in Orbs, Paired(o)
               PROVE  \/ orb[o].data = orb[o].got.app_data
                      \/ /\ 0 \in {orb[o].data.version, orb[o].got.app_data.version}
                         /\ ~SameLengths(orb[o].data, orb[o].got.app_data)
    BY DEF PairedDataIsHashed
  <2>1. PICK d, e : d = orb[o].data /\ e = orb[o].got.app_data
    OBVIOUS
  <2>2. d \in SizedData /\ e \in SizedData /\ Input(d) = Input(e)
    BY <2>1, PairedInputs
  <2>3. CASE d.version # 0 /\ e.version # 0
    BY <2>1, <2>2, <2>3, InputBindsData
  <2>4. CASE d.version = 0 /\ e.version = 0
    BY <2>1, <2>2, <2>4, LegacyBindsShape
  <2>5. CASE d.version = 0 /\ e.version # 0
    BY <2>1, <2>2, <2>5, MixedFormatsApart
  <2>6. CASE d.version # 0 /\ e.version = 0
    <3>1. ~SameLengths(e, d)
      BY <2>2, <2>6, MixedFormatsApart
    <3> QED
      BY <2>1, <2>6, <3>1 DEF SameLengths
  <2> QED
    BY <2>3, <2>4, <2>5, <2>6
<1> QED
  BY <1>1, DataInvariant, PTL

\* When an orb is paired with data of the legacy format whose hash was that of another, or
\* the reverse, the length prefixes are in the strings of the legacy data.
THEOREM MixedPairsHavePrefixes ==
  ASSUME Data \subseteq SizedData
  PROVE  Spec => []PrefixesInStrings
<1>1. DataInv => PrefixesInStrings
  <2> SUFFICES ASSUME DataInv, NEW o \in Orbs, Paired(o),
                      NEW l \in {orb[o].data, orb[o].got.app_data},
                      NEW p \in {orb[o].data, orb[o].got.app_data},
                      l.version = 0, p.version # 0
               PROVE  /\ Len(Strings(l)) >= Len(Strings(p)) + 20
                      /\ SubSeq(Strings(l), 1, 4) = Le32(Len(p.self_custody_public_key))
    BY DEF PrefixesInStrings
  <2>1. l \in SizedData /\ p \in SizedData /\ Input(l) = Input(p)
    BY PairedInputs
  <2> QED
    BY <2>1, MixedFormats
<1> QED
  BY <1>1, DataInvariant, PTL

\* The digests have the length that was asked for, and what is accepted has data.
THEOREM PairingTypeCorrect == Spec => []TypeOK
<1>1. DataInv => TypeOK
  <2> SUFFICES ASSUME DataInv PROVE TypeOK
    OBVIOUS
  <2>1. \A a \in Apps : app[a].step # "idle" => app[a].data \in Data
    BY DEF DataInv
  <2>2. \A o \in Orbs : orb[o].step # "idle" => orb[o].data \in Data /\ orb[o].hash.len = HashLen
    <3> SUFFICES ASSUME NEW o \in Orbs, orb[o].step # "idle"
                 PROVE  orb[o].data \in Data /\ orb[o].hash.len = HashLen
      OBVIOUS
    <3>1. orb[o].data \in Data /\ orb[o].hash = [of |-> Input(orb[o].data), len |-> HashLen]
      BY DEF DataInv, Blake3
    <3> QED
      BY <3>1
  <2>3. \A o \in Orbs : Paired(o) => orb[o].got.app_data \in Data
    BY DEF DataInv, Paired, VerifyAnnounceAppId
  <2> QED
    BY <2>1, <2>2, <2>3 DEF TypeOK
<1> QED
  BY <1>1, DataInvariant, PTL
-----------------------------------------------------------------------------
(* The invariant behind the properties about sessions: a nonce belongs to one message. *)

IsRequest(m) == m \in net /\ m.type = "PairingRequest"
IsAnnouncement(m) == m \in net /\ m.type = "AnnounceOrbId" /\ m.orb_data # None
IsAnswer(m) == m \in net /\ m.type = "AnnounceAppId"

RequestsApart ==
  /\ \A m : IsRequest(m) => \E k \in 0 .. fresh - 1 : m.request_nonce = Fresh(k)
  /\ \A m, n : IsRequest(m) /\ IsRequest(n) /\ m.request_nonce = n.request_nonce =>
       m.data = n.data

AnnouncementsApart ==
  /\ \A m : IsAnnouncement(m) => \E k \in 0 .. fresh - 1 : m.orb_data.orb_nonce = Fresh(k)
  /\ \A m, n : IsAnnouncement(m) /\ IsAnnouncement(n)
                 /\ m.orb_data.orb_nonce = n.orb_data.orb_nonce => m.orb_data = n.orb_data

\* Who holds the nonce of a request holds the data that came with it.
Requested(nonce, data) ==
  nonce # NoNonce => \E p : IsRequest(p) /\ p.request_nonce = nonce /\ p.data = data

RequestsKept ==
  /\ \A m : IsAnnouncement(m) => Requested(m.orb_data.request_nonce, m.data)
  /\ \A a \in Apps : app[a].step # "idle" => Requested(app[a].request, app[a].data)

Announced(orb_data) == \E m : IsAnnouncement(m) /\ m.orb_data = orb_data

AnswersFit(m) ==
  /\ m.answers = None => m.ipcp = NoNonce /\ m.orb_nonce = NoNonce
  /\ m.answers # None =>
       /\ Announced(m.answers)
       /\ m.protocol_version >= ORB_PAIRING_PROTOCOL_VERSION =>
            m.orb_nonce = m.answers.orb_nonce
       /\ m.ipcp # NoNonce => m.ipcp = m.answers.ipcp_encryption_public_key

AnnouncementsKept ==
  /\ \A m : IsAnswer(m) => AnswersFit(m)
  /\ \A o \in Orbs : orb[o].step # "idle" /\ orb[o].orb_data # None => Announced(orb[o].orb_data)
  /\ \A o \in Orbs : orb[o].step = "paired" => IsAnswer(orb[o].got)

NonceInv ==
  /\ fresh \in Nat
  /\ RequestsApart /\ AnnouncementsApart /\ RequestsKept /\ AnnouncementsKept
  /\ RequestedSessionsAgree

\* Nonces of different sessions differ, and none is empty.
LEMMA FreshApart ==
  \A j, k \in Nat : (Fresh(j) = Fresh(k) => j = k) /\ Fresh(k) # NoNonce
<1> SUFFICES ASSUME NEW j \in Nat, NEW k \in Nat
             PROVE  (Fresh(j) = Fresh(k) => j = k) /\ Fresh(k) # NoNonce
  OBVIOUS
<1>1. 1 \in 1 .. NonceLen /\ Fresh(j)[1] = j /\ Fresh(k)[1] = k /\ DOMAIN Fresh(k) = 1 .. NonceLen
  BY NonceLenAssumption DEF Fresh
<1>2. DOMAIN NoNonce = {}
  BY DEF NoNonce
<1> QED
  BY <1>1, <1>2

\* What has been said stays said.
LEMMA NetGrows ==
  ASSUME net \subseteq net'
  PROVE  /\ \A nonce, data : Requested(nonce, data) => Requested(nonce, data)'
         /\ \A orb_data : Announced(orb_data) => Announced(orb_data)'
         /\ \A m : AnswersFit(m) => AnswersFit(m)'
<1>1. \A nonce, data : Requested(nonce, data) => Requested(nonce, data)'
  BY DEF Requested, IsRequest
<1>2. \A orb_data : Announced(orb_data) => Announced(orb_data)'
  BY DEF Announced, IsAnnouncement
<1>3. \A m : AnswersFit(m) => AnswersFit(m)'
  BY <1>2 DEF AnswersFit
<1> QED
  BY <1>1, <1>2, <1>3

\* A new request keeps the invariant.
LEMMA NonceAppRequestPairing ==
  ASSUME NonceInv, Tables, NEW a \in Apps, NEW d \in Data, NEW v \in Protocols, NEW o \in Orbs,
         AppRequestPairing(a, d, v, o)
  PROVE  NonceInv'
<1> DEFINE new == [type |-> "PairingRequest", from |-> a, to |-> o, data |-> d,
                   user_data_hash |-> Blake3(Input(d), HashLen),
                   request_nonce |-> Fresh(fresh)]
<1>1. /\ fresh \in Nat /\ fresh' = fresh + 1 /\ net' = net \cup {new} /\ UNCHANGED orb
      /\ app' = [app EXCEPT ![a] = [step |-> "waiting", data |-> d, protocol |-> v,
                                    request |-> Fresh(fresh), seen |-> None]]
  BY DEF AppRequestPairing, AppSession, NonceInv
<1>2. new.type = "PairingRequest" /\ new.request_nonce = Fresh(fresh) /\ new.data = d
  OBVIOUS
<1> HIDE DEF new
<1>3. /\ \A m : IsRequest(m)' <=> IsRequest(m) \/ m = new
      /\ \A m : IsAnnouncement(m)' <=> IsAnnouncement(m)
      /\ \A m : IsAnswer(m)' <=> IsAnswer(m)
  BY <1>1, <1>2 DEF IsRequest, IsAnnouncement, IsAnswer
<1>4. RequestsApart'
  <2>1. \A k \in 0 .. fresh - 1 : Fresh(k) # Fresh(fresh)
    BY <1>1, FreshApart
  <2>2. \A m : IsRequest(m) => m.request_nonce # Fresh(fresh)
    BY <2>1 DEF NonceInv, RequestsApart
  <2>3. \A m : IsRequest(m)' => \E k \in 0 .. fresh' - 1 : m.request_nonce = Fresh(k)
    BY <1>1, <1>2, <1>3 DEF NonceInv, RequestsApart
  <2>4. \A m, n : IsRequest(m)' /\ IsRequest(n)' /\ m.request_nonce = n.request_nonce =>
          m.data = n.data
    BY <1>2, <1>3, <2>2 DEF NonceInv, RequestsApart
  <2> QED
    BY <2>3, <2>4 DEF RequestsApart
<1>5. AnnouncementsApart'
  BY <1>1, <1>3 DEF NonceInv, AnnouncementsApart
<1>6. RequestsKept'
  <2>1. \A m : IsAnnouncement(m)' => Requested(m.orb_data.request_nonce, m.data)'
    BY <1>1, <1>3, NetGrows DEF NonceInv, RequestsKept
  <2>2. \E p : IsRequest(p)' /\ p.request_nonce = Fresh(fresh) /\ p.data = d
    BY <1>2, <1>3
  <2>3. ASSUME NEW b \in Apps, app'[b].step # "idle"
        PROVE  Requested(app[b].request, app[b].data)'
    <3>1. CASE b = a
      <4>1. app'[b].request = Fresh(fresh) /\ app'[b].data = d
        BY <1>1, <3>1 DEF Tables
      <4> QED
        BY <2>2, <4>1 DEF Requested
    <3>2. CASE b # a
      <4>1. app'[b] = app[b]
        BY <1>1, <3>2 DEF Tables
      <4>2. Requested(app[b].request, app[b].data)
        BY <2>3, <4>1 DEF NonceInv, RequestsKept
      <4> QED
        BY <1>3, <4>1, <4>2 DEF Requested
    <3> QED
      BY <3>1, <3>2
  <2> QED
    BY <2>1, <2>3 DEF RequestsKept
<1>7. AnnouncementsKept'
  BY <1>1, <1>3, NetGrows DEF NonceInv, AnnouncementsKept
<1>8. RequestedSessionsAgree'
  BY <1>1 DEF NonceInv, RequestedSessionsAgree, Tables
<1> QED
  BY <1>1, <1>4, <1>5, <1>6, <1>7, <1>8 DEF NonceInv

\* A new announcement keeps the invariant, if the nonce it quotes came with its data.
LEMMA NonceAnnounce ==
  ASSUME NonceInv, Tables, NEW o \in Orbs, NEW a, NEW d, NEW h, NEW n,
         Announce(o, a, d, h, n), Requested(n, d)
  PROVE  NonceInv'
<1> DEFINE orb_data == [version |-> OrbVERSION, ipcp_encryption_public_key |-> Fresh(fresh),
                        orb_nonce |-> Fresh(fresh), request_nonce |-> n]
           sent == IF o \in OldOrbs THEN None ELSE orb_data
           new == [type |-> "AnnounceOrbId", from |-> o, to |-> a, orb_data |-> sent,
                   signature |-> Sign(o, sent), data |-> d]
           session == [step |-> "announced", app |-> a, data |-> d, hash |-> h,
                       orb_data |-> sent, got |-> None]
<1>1. /\ fresh \in Nat /\ fresh' = fresh + 1 /\ net' = net \cup {new} /\ UNCHANGED app
      /\ orb' = [orb EXCEPT ![o] = session]
  BY DEF Announce, NonceInv
<1>2. /\ new.type = "AnnounceOrbId" /\ new.orb_data = sent /\ new.data = d
      /\ session.step = "announced" /\ session.orb_data = sent
      /\ sent # None => sent.orb_nonce = Fresh(fresh) /\ sent.request_nonce = n
  OBVIOUS
<1> HIDE DEF orb_data, sent, new, session
<1>3. /\ \A m : IsRequest(m)' <=> IsRequest(m)
      /\ \A m : IsAnnouncement(m)' <=> IsAnnouncement(m) \/ (m = new /\ sent # None)
      /\ \A m : IsAnswer(m)' <=> IsAnswer(m)
  BY <1>1, <1>2 DEF IsRequest, IsAnnouncement, IsAnswer
<1>4. RequestsApart'
  BY <1>1, <1>3 DEF NonceInv, RequestsApart
<1>5. AnnouncementsApart'
  <2>1. \A k \in 0 .. fresh - 1 : Fresh(k) # Fresh(fresh)
    BY <1>1, FreshApart
  <2>2. \A m : IsAnnouncement(m) => m.orb_data.orb_nonce # Fresh(fresh)
    BY <2>1 DEF NonceInv, AnnouncementsApart
  <2>3. \A m : IsAnnouncement(m)' => \E k \in 0 .. fresh' - 1 : m.orb_data.orb_nonce = Fresh(k)
    BY <1>1, <1>2, <1>3 DEF NonceInv, AnnouncementsApart
  <2>4. \A m, l : IsAnnouncement(m)' /\ IsAnnouncement(l)'
                    /\ m.orb_data.orb_nonce = l.orb_data.orb_nonce => m.orb_data = l.orb_data
    BY <1>2, <1>3, <2>2 DEF NonceInv, AnnouncementsApart
  <2> QED
    BY <2>3, <2>4 DEF AnnouncementsApart
<1>6. RequestsKept'
  <2>1. Requested(n, d)'
    BY <1>1, NetGrows
  <2>2. \A m : IsAnnouncement(m)' => Requested(m.orb_data.request_nonce, m.data)'
    BY <1>1, <1>2, <1>3, <2>1, NetGrows DEF NonceInv, RequestsKept
  <2> QED
    BY <1>1, <2>2, NetGrows DEF NonceInv, RequestsKept
<1>7. AnnouncementsKept'
  <2>1. sent # None => \E m : IsAnnouncement(m)' /\ m.orb_data = sent
    BY <1>2, <1>3
  <2>2. orb'[o] = session /\ \A p \in Orbs : p # o => orb'[p] = orb[p]
    BY <1>1 DEF Tables
  <2>3. ASSUME NEW p \in Orbs, orb'[p].step # "idle", orb'[p].orb_data # None
        PROVE  Announced(orb[p].orb_data)'
    <3>1. CASE p = o
      BY <1>2, <2>1, <2>2, <2>3, <3>1 DEF Announced
    <3>2. CASE p # o
      <4>1. Announced(orb[p].orb_data) /\ orb'[p] = orb[p]
        BY <2>2, <2>3, <3>2 DEF NonceInv, AnnouncementsKept
      <4> QED
        BY <1>3, <4>1 DEF Announced
    <3> QED
      BY <3>1, <3>2
  <2>4. ASSUME NEW p \in Orbs, orb'[p].step = "paired"
        PROVE  IsAnswer(orb[p].got)'
    <3>1. p # o /\ orb'[p] = orb[p]
      BY <1>2, <2>2, <2>4
    <3> QED
      BY <1>1, <2>4, <3>1 DEF IsAnswer, NonceInv, AnnouncementsKept
  <2>5. \A m : IsAnswer(m)' => AnswersFit(m)'
    BY <1>1, <1>3, NetGrows DEF NonceInv, AnnouncementsKept
  <2> QED
    BY <2>3, <2>4, <2>5 DEF AnnouncementsKept
<1>8. RequestedSessionsAgree'
  BY <1>1 DEF NonceInv, RequestedSessionsAgree
<1> QED
  BY <1>1, <1>4, <1>5, <1>6, <1>7, <1>8 DEF NonceInv

\* An app's new session that asks nothing keeps the invariant.
LEMMA NonceAppShowQr ==
  ASSUME NonceInv, Tables, NEW a \in Apps, NEW d \in Data, NEW v \in Protocols,
         AppShowQr(a, d, v)
  PROVE  NonceInv'
<1>1. /\ fresh \in Nat /\ fresh' = fresh + 1 /\ UNCHANGED <<net, orb>>
      /\ app' = [app EXCEPT ![a] = [step |-> "waiting", data |-> d, protocol |-> v,
                                    request |-> NoNonce, seen |-> None]]
  BY DEF AppShowQr, AppSession, NonceInv
<1>2. /\ \A m : IsRequest(m)' <=> IsRequest(m)
      /\ \A m : IsAnnouncement(m)' <=> IsAnnouncement(m)
      /\ \A m : IsAnswer(m)' <=> IsAnswer(m)
  BY <1>1 DEF IsRequest, IsAnnouncement, IsAnswer
<1>3. RequestsApart' /\ AnnouncementsApart'
  BY <1>1, <1>2 DEF NonceInv, RequestsApart, AnnouncementsApart
<1>4. RequestsKept'
  <2>1. \A m : IsAnnouncement(m)' => Requested(m.orb_data.request_nonce, m.data)'
    BY <1>1, <1>2, NetGrows DEF NonceInv, RequestsKept
  <2>2. ASSUME NEW b \in Apps, app'[b].step # "idle"
        PROVE  Requested(app[b].request, app[b].data)'
    <3>1. CASE b = a
      BY <1>1, <3>1 DEF Tables, Requested
    <3>2. CASE b # a
      <4>1. app'[b] = app[b] /\ Requested(app[b].request, app[b].data)
        BY <1>1, <2>2, <3>2 DEF Tables, NonceInv, RequestsKept
      <4> QED
        BY <1>2, <4>1 DEF Requested
    <3> QED
      BY <3>1, <3>2
  <2> QED
    BY <2>1, <2>2 DEF RequestsKept
<1>5. AnnouncementsKept'
  BY <1>1, <1>2, NetGrows DEF NonceInv, AnnouncementsKept
<1>6. RequestedSessionsAgree'
  BY <1>1 DEF NonceInv, RequestedSessionsAgree, Tables
<1> QED
  BY <1>1, <1>3, <1>4, <1>5, <1>6 DEF NonceInv

\* So does an answer that fits an announcement.
LEMMA NonceAnswer ==
  ASSUME NonceInv, NEW m, m.type = "AnnounceAppId", AnswersFit(m),
         net' = net \cup {m}, UNCHANGED <<fresh, orb>>
  PROVE  /\ RequestsApart' /\ AnnouncementsApart' /\ AnnouncementsKept'
         /\ \A n : IsAnnouncement(n)' => Requested(n.orb_data.request_nonce, n.data)'
<1>1. /\ \A n : IsRequest(n)' <=> IsRequest(n)
      /\ \A n : IsAnnouncement(n)' <=> IsAnnouncement(n)
      /\ \A n : IsAnswer(n)' <=> IsAnswer(n) \/ n = m
  BY DEF IsRequest, IsAnnouncement, IsAnswer
<1>2. RequestsApart' /\ AnnouncementsApart'
  BY <1>1 DEF NonceInv, RequestsApart, AnnouncementsApart
<1>3. \A n : IsAnnouncement(n)' => Requested(n.orb_data.request_nonce, n.data)'
  BY <1>1, NetGrows DEF NonceInv, RequestsKept
<1>4. AnnouncementsKept'
  BY <1>1, NetGrows DEF NonceInv, AnnouncementsKept
<1> QED
  BY <1>2, <1>3, <1>4

\* A heartbeat answers nothing.
LEMMA NonceAppHeartbeat ==
  ASSUME NonceInv, NEW a \in Apps, AppHeartbeat(a)
  PROVE  NonceInv'
<1> DEFINE new == [type |-> "AnnounceAppId", from |-> a, to |-> app[a].seen.from,
                   app_data |-> None, protocol_version |-> app[a].protocol,
                   orb_nonce |-> NoNonce, ipcp |-> NoNonce, answers |-> None]
<1>1. net' = net \cup {new} /\ UNCHANGED <<fresh, app, orb>>
  BY DEF AppHeartbeat
<1>2. new.type = "AnnounceAppId" /\ AnswersFit(new)
  BY DEF AnswersFit
<1> HIDE DEF new
<1>3. /\ RequestsApart' /\ AnnouncementsApart' /\ AnnouncementsKept'
      /\ \A n : IsAnnouncement(n)' => Requested(n.orb_data.request_nonce, n.data)'
  BY <1>1, <1>2, NonceAnswer
<1>4. \A b \in Apps : app'[b].step # "idle" => Requested(app[b].request, app[b].data)'
  BY <1>1, NetGrows DEF NonceInv, RequestsKept
<1> QED
  BY <1>1, <1>3, <1>4 DEF NonceInv, RequestsKept, RequestedSessionsAgree

\* An app that accepts an announcement keeps the invariant: the nonce the orb signed is
\* the one of the app's own request.
LEMMA NonceAppTakeAnnouncement ==
  ASSUME NonceInv, Tables, NEW a \in Apps, NEW m \in net, NEW b \in BOOLEAN,
         AppTakeAnnouncement(a, m, b)
  PROVE  NonceInv'
<1> DEFINE echoes == m.orb_data # None /\ app[a].protocol >= ORB_PAIRING_PROTOCOL_VERSION
           echo == IF echoes THEN m.orb_data.orb_nonce ELSE NoNonce
           sealed == IF b THEN m.orb_data.ipcp_encryption_public_key ELSE NoNonce
           new == [type |-> "AnnounceAppId", from |-> a, to |-> m.from,
                   app_data |-> app[a].data, protocol_version |-> app[a].protocol,
                   orb_nonce |-> echo, ipcp |-> sealed, answers |-> m.orb_data]
           session == [app[a] EXCEPT !.step = "announced", !.seen = m]
<1>1. /\ net' = net \cup {new} /\ UNCHANGED <<fresh, orb>>
      /\ app' = [app EXCEPT ![a] = session]
      /\ app[a].step = "waiting" /\ m.type = "AnnounceOrbId"
  BY DEF AppTakeAnnouncement
<1>2. m.orb_data = None => app[a].request = NoNonce /\ ~b
  BY DEF AppTakeAnnouncement
<1>3. m.orb_data # None => m.orb_data.request_nonce = app[a].request
  BY DEF AppTakeAnnouncement, VerifyOrb
<1>4. /\ session.step = "announced" /\ session.seen = m
      /\ session.request = app[a].request /\ session.data = app[a].data
  BY <1>1 DEF Tables
<1>5. new.type = "AnnounceAppId" /\ AnswersFit(new)
  <2>1. m.orb_data = None => echo = NoNonce /\ sealed = NoNonce
    BY <1>2
  <2>2. m.orb_data # None => Announced(m.orb_data)
    BY <1>1 DEF Announced, IsAnnouncement
  <2>3. m.orb_data # None /\ app[a].protocol >= ORB_PAIRING_PROTOCOL_VERSION =>
          echo = m.orb_data.orb_nonce
    OBVIOUS
  <2>4. sealed # NoNonce => sealed = m.orb_data.ipcp_encryption_public_key
    OBVIOUS
  <2> HIDE DEF echo, sealed
  <2> QED
    BY <2>1, <2>2, <2>3, <2>4 DEF AnswersFit
<1> HIDE DEF echo, sealed, new, session
<1>6. /\ RequestsApart' /\ AnnouncementsApart' /\ AnnouncementsKept'
      /\ \A n : IsAnnouncement(n)' => Requested(n.orb_data.request_nonce, n.data)'
  BY <1>1, <1>5, NonceAnswer
<1>7. \A p : IsRequest(p)' <=> IsRequest(p)
  BY <1>1, <1>5 DEF IsRequest
<1>8. \A c \in Apps : app'[c].step # "idle" =>
        /\ app[c].step # "idle"
        /\ app'[c].request = app[c].request /\ app'[c].data = app[c].data
  BY <1>1, <1>4 DEF Tables
<1>9. RequestsKept'
  <2>1. ASSUME NEW c \in Apps, app'[c].step # "idle"
        PROVE  Requested(app[c].request, app[c].data)'
    <3>1. Requested(app[c].request, app[c].data)
      BY <1>8, <2>1 DEF NonceInv, RequestsKept
    <3> QED
      BY <1>7, <1>8, <2>1, <3>1 DEF Requested
  <2> QED
    BY <1>6, <2>1 DEF RequestsKept
<1>10. RequestedSessionsAgree'
  <2>1. app[a].request # NoNonce => m.data = app[a].data
    <3> SUFFICES ASSUME app[a].request # NoNonce
                 PROVE  m.data = app[a].data
      OBVIOUS
    <3>1. IsAnnouncement(m) /\ m.orb_data.request_nonce = app[a].request
      BY <1>1, <1>2, <1>3 DEF IsAnnouncement
    <3>2. Requested(app[a].request, m.data)
      BY <3>1 DEF NonceInv, RequestsKept
    <3>3. Requested(app[a].request, app[a].data)
      BY <1>1 DEF NonceInv, RequestsKept
    <3>4. PICK p : IsRequest(p) /\ p.request_nonce = app[a].request /\ p.data = m.data
      BY <3>2 DEF Requested
    <3>5. PICK q : IsRequest(q) /\ q.request_nonce = app[a].request /\ q.data = app[a].data
      BY <3>3 DEF Requested
    <3> QED
      BY <3>4, <3>5 DEF NonceInv, RequestsApart
  <2>2. app'[a] = session /\ \A c \in Apps : c # a => app'[c] = app[c]
    BY <1>1 DEF Tables
  <2> QED
    BY <1>4, <2>1, <2>2 DEF NonceInv, RequestedSessionsAgree
<1> QED
  BY <1>1, <1>6, <1>9, <1>10 DEF NonceInv

\* An orb that is paired or gives up keeps the invariant.
LEMMA NonceOrb ==
  ASSUME NonceInv, Tables, NEW o \in Orbs,
         OrbTimeout(o) \/ \E m \in net : OrbTakeAnnouncement(o, m)
  PROVE  NonceInv'
<1>1. /\ UNCHANGED <<fresh, app, net>>
      /\ \A p \in Orbs : p # o => orb'[p] = orb[p]
      /\ \/ orb'[o].step = "idle"
         \/ /\ orb[o].step # "idle" /\ orb'[o].orb_data = orb[o].orb_data
            /\ IsAnswer(orb'[o].got)
  <2>1. CASE OrbTimeout(o)
    BY <2>1 DEF OrbTimeout, NoOrb, Tables
  <2>2. ASSUME NEW m \in net, OrbTakeAnnouncement(o, m)
        PROVE  /\ UNCHANGED <<fresh, app, net>>
               /\ \A p \in Orbs : p # o => orb'[p] = orb[p]
               /\ orb[o].step # "idle" /\ orb'[o].orb_data = orb[o].orb_data
               /\ IsAnswer(orb'[o].got)
    <3> DEFINE s == [orb[o] EXCEPT !.step = "paired", !.got = m]
    <3>1. orb[o].step = "announced" /\ orb' = [orb EXCEPT ![o] = s] /\ IsAnswer(m)
          /\ UNCHANGED <<fresh, app, net>>
      BY <2>2 DEF OrbTakeAnnouncement, IsAnswer
    <3>2. s.orb_data = orb[o].orb_data /\ s.got = m
      BY <3>1 DEF Tables
    <3> HIDE DEF s
    <3> QED
      BY <3>1, <3>2 DEF Tables
  <2> QED
    BY <2>1, <2>2
<1>2. RequestsApart' /\ AnnouncementsApart' /\ RequestsKept'
  BY <1>1 DEF NonceInv, RequestsApart, AnnouncementsApart, RequestsKept, Requested,
              IsRequest, IsAnnouncement
<1>3. AnnouncementsKept'
  <2>1. /\ \A m : IsAnswer(m)' <=> IsAnswer(m)
        /\ \A m : IsAnnouncement(m)' <=> IsAnnouncement(m)
    BY <1>1 DEF IsAnswer, IsAnnouncement
  <2>2. \A m : IsAnswer(m)' => AnswersFit(m)'
    BY <1>1, <2>1, NetGrows DEF NonceInv, AnnouncementsKept
  <2>3. ASSUME NEW p \in Orbs, orb'[p].step # "idle", orb'[p].orb_data # None
        PROVE  Announced(orb[p].orb_data)'
    <3>1. orb'[p].orb_data = orb[p].orb_data /\ Announced(orb[p].orb_data)
      BY <1>1, <2>3 DEF NonceInv, AnnouncementsKept
    <3> QED
      BY <2>1, <3>1 DEF Announced
  <2>4. ASSUME NEW p \in Orbs, orb'[p].step = "paired"
        PROVE  IsAnswer(orb[p].got)'
    <3>1. IsAnswer(orb'[p].got)
      BY <1>1, <2>4 DEF NonceInv, AnnouncementsKept
    <3> QED
      BY <1>1, <3>1 DEF IsAnswer
  <2> QED
    BY <2>2, <2>3, <2>4 DEF AnnouncementsKept
<1> QED
  BY <1>1, <1>2, <1>3 DEF NonceInv, RequestedSessionsAgree

\* Every step keeps NonceInv.
LEMMA NonceInvStep == NonceInv /\ Tables /\ [Next]_vars => NonceInv'
<1> SUFFICES ASSUME NonceInv, Tables, [Next]_vars
             PROVE  NonceInv'
  OBVIOUS
<1>1. ASSUME NEW a \in Apps, NEW o \in Orbs, OrbScanQr(o, a)
      PROVE  NonceInv'
  <2>1. Requested(NoNonce, app[a].data)
    BY DEF Requested
  <2> QED
    BY <1>1, <2>1, NonceAnnounce DEF OrbScanQr
<1>2. ASSUME NEW m \in net, NEW o \in Orbs, OrbTakeRequest(o, m)
      PROVE  NonceInv'
  <2>1. Requested(m.request_nonce, m.data)
    BY <1>2 DEF OrbTakeRequest, Requested, IsRequest
  <2> QED
    BY <1>2, <2>1, NonceAnnounce DEF OrbTakeRequest
<1>3. CASE UNCHANGED vars
  BY <1>3 DEF vars, NonceInv, RequestsApart, AnnouncementsApart, RequestsKept,
              AnnouncementsKept, RequestedSessionsAgree, Requested, Announced, AnswersFit,
              IsRequest, IsAnnouncement, IsAnswer
<1> QED
  BY <1>1, <1>2, <1>3, NonceAppShowQr, NonceAppRequestPairing, NonceAppHeartbeat,
     NonceAppTakeAnnouncement, NonceOrb DEF Next

\* NonceInv is an invariant.
LEMMA NonceInvariant == Spec => [](DataInv /\ Tables /\ NonceInv)
<1>1. Init => NonceInv
  BY DEF Init, NonceInv, RequestsApart, AnnouncementsApart, RequestsKept, AnnouncementsKept,
         RequestedSessionsAgree, IsRequest, IsAnnouncement, IsAnswer, NoApp, NoOrb
<1>2. NonceInv /\ Tables /\ [Next]_vars => NonceInv'
  BY NonceInvStep
<1> QED
  BY <1>1, <1>2, DataInvariant, PTL DEF Spec

\* Scan-to-pair: an app that asked for pairing never accepts the announcement of an orb
\* that was given the hash of other data, an earlier session's included.
THEOREM RequestsBound == Spec => []RequestedSessionsAgree
<1>1. NonceInv => RequestedSessionsAgree
  BY DEF NonceInv
<1> QED
  BY <1>1, NonceInvariant, PTL

\* From protocol 4 on, an orb is never paired with an answer to another announcement.
THEOREM AnswersBound == Spec => []PairedInThisSession
<1>1. DataInv /\ NonceInv => PairedInThisSession
  <2> SUFFICES ASSUME DataInv, NonceInv, NEW o \in Orbs, Paired(o), orb[o].orb_data # None,
                      orb[o].got.protocol_version >= ORB_PAIRING_PROTOCOL_VERSION
               PROVE  orb[o].got.answers = orb[o].orb_data
    BY DEF PairedInThisSession
  <2>1. VerifyAnnounceAppId(orb[o].got, orb[o].hash, orb[o].orb_data)
    BY DEF DataInv, Paired
  <2>2. orb[o].got.orb_nonce = orb[o].orb_data.orb_nonce
    BY <2>1 DEF VerifyAnnounceAppId
  <2>3. PICK m : IsAnnouncement(m) /\ m.orb_data = orb[o].orb_data
    BY DEF NonceInv, AnnouncementsKept, Announced, Paired
  <2>4. AnswersFit(orb[o].got)
    BY DEF NonceInv, AnnouncementsKept, Paired
  <2>5. orb[o].got.orb_nonce # NoNonce
    BY <2>2, <2>3, FreshApart DEF NonceInv, AnnouncementsApart
  <2>6. PICK n : IsAnnouncement(n) /\ n.orb_data = orb[o].got.answers
    BY <2>4, <2>5 DEF AnswersFit, Announced
  <2>7. n.orb_data.orb_nonce = m.orb_data.orb_nonce
    BY <2>2, <2>3, <2>4, <2>5, <2>6 DEF AnswersFit
  <2> QED
    BY <2>3, <2>6, <2>7 DEF NonceInv, AnnouncementsApart
<1> QED
  BY <1>1, NonceInvariant, PTL

\* An iPCP the orb accepts is sealed to the key of the orb's own session.
THEOREM IpcpBound == Spec => []IpcpForThisSession
<1>1. DataInv /\ NonceInv /\ PairedInThisSession => IpcpForThisSession
  <2> SUFFICES ASSUME DataInv, NonceInv, PairedInThisSession, NEW o \in Orbs, Paired(o),
                      orb[o].orb_data # None, orb[o].got.ipcp # NoNonce
               PROVE  orb[o].got.ipcp = orb[o].orb_data.ipcp_encryption_public_key
    BY DEF IpcpForThisSession
  <2>1. orb[o].got.protocol_version >= ORB_PAIRING_PROTOCOL_VERSION
    BY DEF DataInv, Paired, VerifyAnnounceAppId
  <2>2. orb[o].got.answers = orb[o].orb_data
    BY <2>1 DEF PairedInThisSession
  <2>3. AnswersFit(orb[o].got)
    BY DEF NonceInv, AnnouncementsKept, Paired
  <2> QED
    BY <2>2, <2>3 DEF AnswersFit
<1> QED
  BY <1>1, NonceInvariant, AnswersBound, PTL
=============================================================================

---------------------------- MODULE Certificates ----------------------------
(***************************************************************************)
(* The certificates of the secure channel, crates/x509/src/lib.rs, and the *)
(* key store that signs them, crates/xstack/src/keystore.rs.               *)
(*                                                                         *)
(* A key pair is one value, named by the host or by the certificate it     *)
(* belongs to; a signature is the pair of the key that made it and what it *)
(* signs.  Time is counted in ticks of 1 / TicksPerSecond seconds, for the *)
(* validity is rounded to seconds when it is encoded.                      *)
(***************************************************************************)
EXTENDS Naturals, Sequences

CONSTANTS
    TicksPerSecond,
    Lifetime,       \* the validity of generate, 5 seconds, in ticks
    NoKey           \* what Verify returns for a certificate it refuses

ASSUME CertificateAssumption ==
    /\ TicksPerSecond \in Nat \ {0}
    /\ Lifetime \in Nat

\* An ASN.1 time has no fraction of a second.
ToSecond(t) == t - (t % TicksPerSecond)

\* MemoryKeyStore::sign.
Sign(hostKey, message) == [by |-> hostKey, of |-> message]

\* Libp2pExtension::new: the host key and its signature of the key the
\* certificate is made with; critical is always true.
Libp2pExtension(hostKey, certKey) ==
    [oid |-> "libp2p", critical |-> TRUE, decodes |-> TRUE,
     hostKey |-> hostKey, signature |-> Sign(hostKey, certKey)]

\* generate: a self-signed P-256 certificate with a key of its own.
Generate(hostKey, certKey, now) ==
    [algorithm  |-> "ecdsaSha256",
     keyType    |-> "p256",
     key        |-> certKey,
     signature  |-> Sign(certKey, certKey),
     notBefore  |-> ToSecond(now),
     notAfter   |-> ToSecond(now + Lifetime),
     extensions |-> << Libp2pExtension(hostKey, certKey) >>]

\* The algorithms verify_signature knows, with the type of key each needs.
VerifierOf ==
    [ecdsaSha256 |-> "p256", ecdsaSha384 |-> "p384", ecdsaSha512 |-> "p521",
     rsaSha256   |-> "rsa",  rsaSha384   |-> "rsa",  rsaSha512   |-> "rsa",
     pssSha256   |-> "rsa",  pssSha384   |-> "rsa",  pssSha512   |-> "rsa"]

\* verify_signature and the verifier it selects.
VerifySignature(cert) ==
    /\ cert.algorithm \in DOMAIN VerifierOf
    /\ cert.keyType = VerifierOf[cert.algorithm]
    /\ cert.signature = Sign(cert.key, cert.key)

\* validity.
Validity(cert, now) ==
    /\ cert.notBefore <= now
    /\ now <= cert.notAfter

IsLibp2p(extension) == extension.oid = "libp2p"

\* extract_libp2p_extension returns one: there is exactly one, it can be
\* decoded, and no other is critical.
HasLibp2pExtension(extensions) ==
    \E i \in DOMAIN extensions :
        /\ IsLibp2p(extensions[i])
        /\ extensions[i].decodes
        /\ \A j \in DOMAIN extensions \ {i} :
               ~IsLibp2p(extensions[j]) /\ ~extensions[j].critical

\* The extension it returns.
ExtractLibp2pExtension(extensions) ==
    extensions[CHOOSE i \in DOMAIN extensions : IsLibp2p(extensions[i])]

\* Libp2pExtension::verify.
VerifyExtension(extension, certKey) ==
    extension.signature = Sign(extension.hostKey, certKey)

\* Faulty variant of Verify: the extension is not checked against the key of
\* the certificate that carries it.
VerifyUnbound(cert, now) ==
    IF /\ Validity(cert, now)
       /\ VerifySignature(cert)
       /\ HasLibp2pExtension(cert.extensions)
    THEN ExtractLibp2pExtension(cert.extensions).hostKey
    ELSE NoKey

\* verify: the host key of the peer, or NoKey where it returns an error.
Verify(cert, now) ==
    IF /\ Validity(cert, now)
       /\ VerifySignature(cert)
       /\ HasLibp2pExtension(cert.extensions)
       /\ VerifyExtension(ExtractLibp2pExtension(cert.extensions), cert.key)
    THEN ExtractLibp2pExtension(cert.extensions).hostKey
    ELSE NoKey

\* Certificates of other makes, each refused for a reason of its own: a key
\* verify_signature has no verifier for, a key that does not fit the
\* algorithm, no libp2p extension, two, one that is another certificate's,
\* and a critical extension that is not known.
Foreign(hostKey, certKey, otherKey, now) ==
    LET sound == Generate(hostKey, certKey, now)
        own   == sound.extensions[1]
    IN  { [sound EXCEPT !.algorithm = "ed25519", !.keyType = "ed25519"],
          [sound EXCEPT !.keyType = "p384"],
          [sound EXCEPT !.extensions = << >>],
          [sound EXCEPT !.extensions = << own, own >>],
          [sound EXCEPT !.extensions = << Libp2pExtension(hostKey, otherKey) >>],
          [sound EXCEPT !.extensions = << own, [own EXCEPT !.oid = "nameConstraints"] >>] }
=============================================================================

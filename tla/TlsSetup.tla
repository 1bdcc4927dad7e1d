------------------------------ MODULE TlsSetup ------------------------------
(***************************************************************************)
(* TLS context creation (tools/cert.cpp): SSLContext::for_client and       *)
(* for_server call ossl_setup_common, which reads the keychain (PKCS#12)  *)
(* named by the configuration, checks the certificate's key usage, puts   *)
(* the keychain's root CAs in the trust store, checks the private key and *)
(* the chain, and installs ossl_verify as the verify callback.            *)
(*                                                                         *)
(* The configuration and the keychain's contents are the input of one     *)
(* setup, a record of the fields below; the result is the context as the  *)
(* rest of the system sees it, or an error (an exception thrown out of    *)
(* for_client/for_server).                                                *)
(***************************************************************************)
EXTENDS Integers, Sequences

\* A certificate in the keychain's CA list: a root (self-signed CA), an
\* intermediate CA, or an end-entity certificate, self-signed or not.
CaKinds   == {"root", "sub", "eeSelf", "ee"}
SelfSigned == {"root", "eeSelf"}   \* EXFLAG_SS
NotCA      == {"eeSelf", "ee"}     \* X509_check_ca returns 0

\* One setup's input: the role, the ConfigCommon fields the code reads, and
\* what the keychain file(s) hold.
SetupInputs ==
    [client: BOOLEAN,               \* for_client (ssl_client) or for_server
     tlsDisabled: BOOLEAN,          \* conf.tls_disabled
     configured: BOOLEAN,           \* conf.isTlsConfigured()
     statusCheck: BOOLEAN,          \* !conf.tls_disable_status_check
     requireClientCert: BOOLEAN,    \* tls_client_cert_required == Require
     separateKey: BOOLEAN,          \* a private key file other than the cert file
     certFile: {"ok", "unreadable"},\* fopen + d2i_PKCS12_fp of the cert file
     keyFile: {"ok", "unreadable"}, \* the same for the key file
     passwordOk: BOOLEAN,           \* PKCS12_parse succeeds
     cert: {"none", "ee", "ca", "wrongEku"},  \* the keychain's certificate
     key: {"none", "match", "other"},         \* its private key
     cas: Seq(CaKinds),             \* its CA list, in PKCS12_parse's order
     chainOk: BOOLEAN]              \* SSL_CTX_build_cert_chain(CHECK) succeeds

\* The context as its users see it.
Contexts ==
    [outcome: {"ok", "error"},
     client: BOOLEAN,        \* made by for_client
     verify: BOOLEAN,        \* SSL_CTX_set_verify(..., ossl_verify) was called
     statusCheck: BOOLEAN,   \* CertStatusExData::status_check_enabled
     hasCert: BOOLEAN,       \* tls_context.has_cert
     certValid: BOOLEAN,     \* tls_context.cert_is_valid
     anchored: BOOLEAN,      \* the trust store holds a root from the keychain
     acceptsNoCert: BOOLEAN] \* a peer sending no certificate is accepted

SetupError == [outcome |-> "error", client |-> FALSE, verify |-> FALSE,
               statusCheck |-> FALSE, hasCert |-> FALSE, certValid |-> FALSE, anchored |-> FALSE,
               acceptsNoCert |-> FALSE]

-----------------------------------------------------------------------------
\* checkP12File: "ok" when the file is a readable PKCS#12; otherwise a
\* client goes on without a keychain ("absent") and a server throws.
CheckP12File(file, client) ==
    CASE file = "ok" -> "ok"
      [] client      -> "absent"
      [] OTHER       -> "throw"

\* getKeyAndCertFromP12File (and getKeyFromP12File / getCertFromP12File,
\* which call it): a PKCS12_parse failure throws SSLError.
GetKeyAndCertFromP12File(file, s) ==
    LET r == CheckP12File(file, s.client)
    IN  IF r # "ok" THEN r ELSE IF s.passwordOk THEN "ok" ELSE "throw"

\* The keychain step of ossl_setup_common: one file, or the key file then
\* the cert file; an absent file makes the setup return the context as it
\* is so far.
LoadKeychain(s) ==
    IF ~s.separateKey
       THEN GetKeyAndCertFromP12File(s.certFile, s)
       ELSE LET k == GetKeyAndCertFromP12File(s.keyFile, s)
            IN  IF k # "ok" THEN k ELSE GetKeyAndCertFromP12File(s.certFile, s)

\* verifyKeyUsage: a CA certificate, or an extended key usage that does not
\* permit the role, throws.
VerifyKeyUsage(s) == s.cert \notin {"ca", "wrongEku"}

\* extractCAs: a certificate that cannot sign throws, except the first of
\* the list; every self-signed entry becomes a trust anchor.
ExtractCAs(cas) == \A i \in DOMAIN cas : cas[i] \in NotCA => i = 1

TrustAnchors(cas) == {i \in DOMAIN cas : cas[i] \in SelfSigned}

\* The verify callback and mode: SSL_VERIFY_PEER, plus
\* SSL_VERIFY_FAIL_IF_NO_PEER_CERT for a server requiring client certs.
SetVerify(c, s) ==
    [c EXCEPT !.verify = TRUE,
                !.acceptsNoCert = s.client \/ ~s.requireClientCert]

\* Mutant: the tls_disabled return taken after the keychain is loaded.
SetupCommonLateDisable(s) ==
    LET base   == [SetupError EXCEPT !.outcome = "ok", !.client = s.client,
                                     !.statusCheck = s.statusCheck,
                                     !.acceptsNoCert = TRUE]
        keyed  == [base EXCEPT !.hasCert = s.cert # "none",
                               !.certValid = s.cert # "none" /\ ~s.statusCheck,
                               !.anchored = TrustAnchors(s.cas) # {}]
    IN
    CASE ~s.configured                               -> SetVerify(base, s)
      [] LoadKeychain(s) = "throw"                   -> SetupError
      [] LoadKeychain(s) = "absent"                  -> base
      [] s.cert # "none" /\ ~VerifyKeyUsage(s)       -> SetupError
      [] ~ExtractCAs(s.cas)                          -> SetupError
      [] s.key # "none" /\ (s.key = "other" \/ s.cert = "none") -> SetupError
      [] s.cert # "none" /\ ~s.chainOk               -> SetupError
      [] s.client /\ s.tlsDisabled                   -> keyed
      [] OTHER                                       -> SetVerify(keyed, s)

\* ossl_setup_common, in the code's order.  SSL_CTX_check_private_key fails
\* for a key without a certificate as for a key of another certificate.
SetupCommon(s) ==
    LET base   == [SetupError EXCEPT !.outcome = "ok", !.client = s.client,
                                     !.statusCheck = s.statusCheck,
                                     !.acceptsNoCert = TRUE]
        keyed  == [base EXCEPT !.hasCert = s.cert # "none",
                               !.certValid = s.cert # "none" /\ ~s.statusCheck,
                               !.anchored = TrustAnchors(s.cas) # {}]
    IN
    CASE s.client /\ s.tlsDisabled                   -> base
      [] ~s.configured                               -> SetVerify(base, s)
      [] LoadKeychain(s) = "throw"                   -> SetupError
      [] LoadKeychain(s) = "absent"                  -> base
      [] s.cert # "none" /\ ~VerifyKeyUsage(s)       -> SetupError
      [] ~ExtractCAs(s.cas)                          -> SetupError
      [] s.key # "none" /\ (s.key = "other" \/ s.cert = "none") -> SetupError
      [] s.cert # "none" /\ ~s.chainOk               -> SetupError
      [] OTHER                                       -> SetVerify(keyed, s)

=============================================================================

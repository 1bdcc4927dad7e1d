---------------------------- MODULE MCPeerStatus ----------------------------
(* Model-checking instance of PeerStatus: a status window of 2 ticks and a  *)
(* clock of 4 ticks let a status expire, be refreshed and be revoked within *)
(* one behaviour; a monitor queue of 2 lets an update wait behind another.  *)
EXTENDS PeerStatus

MCValidity == 2
MCMaxTime  == 3

\* The safety run's clock goes one tick past the certificate's not_after, so
\* that tokens signed before expiry are still live once it has expired.
MCMaxTimeSafety == 4
MCQueueCap == 2

\* The certificate becomes valid at the first tick and expires at the third,
\* so that PENDING, VALID and EXPIRED all occur within the clock.
MCNotBefore == 1
MCNotAfter  == 3

\* A client whose keychain holds its certificate, its key and the root CA,
\* with peer status checking on: the setup every status run starts from.
MCKeyed ==
    [client |-> TRUE, tlsDisabled |-> FALSE, configured |-> TRUE,
     statusCheck |-> TRUE, requireClientCert |-> FALSE, separateKey |-> FALSE,
     certFile |-> "ok", keyFile |-> "ok", passwordOk |-> TRUE, cert |-> "ee",
     key |-> "match", cas |-> <<"root">>, chainOk |-> TRUE]

MCSetupsKeyed == {MCKeyed}

\* Every way through ossl_setup_common, for clients and servers: the
\* keychain present, unreadable or locked, with a certificate of each kind,
\* keys that match or not, CA lists with a root, a non-CA first entry or a
\* non-CA later entry.  Status checking stays on only for MCKeyed, so that
\* the status plane is explored once.
MCSetupsAll ==
    {MCKeyed} \cup
    {s \in [client: BOOLEAN, tlsDisabled: BOOLEAN, configured: BOOLEAN,
            statusCheck: {FALSE}, requireClientCert: BOOLEAN,
            separateKey: BOOLEAN, certFile: {"ok", "unreadable"},
            keyFile: {"ok", "unreadable"}, passwordOk: BOOLEAN,
            cert: {"none", "ee", "ca", "wrongEku"},
            key: {"none", "match", "other"},
            cas: {<<>>, <<"root">>, <<"eeSelf", "root">>, <<"root", "ee">>},
            chainOk: BOOLEAN] :
        s.separateKey => s.key # "none"}
=============================================================================

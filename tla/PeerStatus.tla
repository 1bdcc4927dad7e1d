----------------------------- MODULE PeerStatus -----------------------------
(***************************************************************************)
(* The revocation plane seen from one TLS context (CertStatusExData) that  *)
(* has a peer certificate carrying the status-PV extension.                *)
(*                                                                         *)
(*  - The CMS keeps the certificate's lifecycle state and posts a signed   *)
(*    status value on the status PV at every change; it also signs a fresh *)
(*    value for every GET.  (The CMS handlers are not under src/: they are *)
(*    modelled from the spec.)                                             *)
(*  - CertStatusExData::subscribeToCertStatus opens a MONITOR (over a      *)
(*    non-TLS client) whose event callback verifies each update and stores *)
(*    it in the per-serial cache, calling the owner's fn(is_good) when the *)
(*    goodness it computes changes.                                        *)
(*  - ossl_verify, on the TLS thread, uses the cached status when it is    *)
(*    still valid and otherwise does a blocking GET, stores the answer in  *)
(*    the same cache and accepts iff the status is good.                   *)
(*                                                                         *)
(* Time is a discrete clock; a status is valid while now < valid_until.    *)
(***************************************************************************)
EXTENDS Integers, SequencesExt, TlsSetup

CONSTANTS
    Validity,          \* cert_status_validity_mins, in clock ticks
    MaxTime,           \* last clock value explored
    QueueCap,          \* monitor updates held before newer ones coalesce
    NetworkAdversary,  \* may the non-TLS status transport be tampered with?
    Setups,            \* the inputs (configuration, keychain) of the context setup
    OwnerCalls,        \* how many times the manager's owner calls getStatus()
    NotBefore,         \* the certificate's not_before, as a clock value
    NotAfter,          \* its not_after
    NoStatus           \* model value: no status held

ASSUME /\ Validity \in Nat \ {0}
       /\ MaxTime \in Nat
       /\ QueueCap \in Nat \ {0}
       /\ NetworkAdversary \in BOOLEAN
       /\ Setups \subseteq SetupInputs
       /\ OwnerCalls \in Nat
       /\ NotBefore \in Nat /\ NotAfter \in Nat /\ NotBefore <= NotAfter

VARIABLES
    ctx,          \* the TLS context ossl_setup_common built, or NoContext
    now,          \* the wall clock, time(nullptr)
    cms,          \* lifecycle state of the certificate in the CMS database
    posted,       \* value currently posted on the certificate's status PV
    held,         \* history: every <<state, time>> the CMS has held
    subscribed,   \* peer_statuses[serial].cert_status_manager is set
    monitorQ,     \* updates queued on the MONITOR subscription
    eventDue,     \* the client has scheduled the subscription's event callback
    mgrStatus,    \* CertStatusManager::status_, last verified update
    cache,        \* peer_statuses[serial].status, read by ossl_verify
    notified,     \* last argument passed to the owner's fn(is_good)
    vpc,          \* ossl_verify thread: "idle" or blocked in the GET
    getReply,     \* GET answer in flight to the blocked ossl_verify
    verdict,      \* ossl_verify's decision, until the handshake consumes it
    owner,        \* the manager owner's thread: "idle" or blocked in getStatus()'s GET
    ownerCalls,   \* getStatus() calls that made a GET so far
    ownerReply    \* GET answer in flight to the owner

vars == <<ctx, now, cms, posted, held, subscribed, monitorQ, eventDue, mgrStatus, cache,
          notified, vpc, getReply, verdict, owner, ownerCalls, ownerReply>>

PvaStates  == {"UNKNOWN", "PENDING_APPROVAL", "PENDING", "VALID", "EXPIRED",
               "REVOKED"}
OcspStates == {"GOOD", "REVOKED", "UNKNOWN"}
Times      == 0 .. MaxTime + Validity

\* A status value as carried by the status PV: the unsigned PVA status field
\* and the signed OCSP token (its status, this_update, next_update) with
\* whether its signature chains to a trusted issuer.
Status == [pva: PvaStates, ocsp: OcspStates, date: Times, until: Times,
           sig: BOOLEAN]

-----------------------------------------------------------------------------
(* Status values: certstatus.h                                             *)

\* CertificateStatus(pva_status, valid_until, revocation_date): the OCSP
\* status follows from the PVA status.
OcspOf(pva) ==
    CASE pva = "REVOKED" -> "REVOKED"
      [] pva = "VALID"   -> "GOOD"
      [] OTHER           -> "UNKNOWN"

\* Mutant: a validity window one tick longer than configured.
MakeStatusLong(pva, t) ==
    [pva |-> pva, ocsp |-> OcspOf(pva), date |-> t, until |-> t + Validity + 1,
     sig |-> TRUE]

\* OCSPStatus(ocsp_status, valid_until, revocation_date): status_date is now.
MakeStatus(pva, t) ==
    [pva |-> pva, ocsp |-> OcspOf(pva), date |-> t, until |-> t + Validity,
     sig |-> TRUE]

IsValid(st, t) == st.until > t

\* Mutant: a goodness test that forgets the validity window.
IsGoodAnyTime(st, t) == st.ocsp = "GOOD"

\* OCSPStatus::isGood
IsGood(st, t) == IsValid(st, t) /\ st.ocsp = "GOOD"

\* CertificateStatus::selfConsistent: the unsigned PVA status agrees with the
\* signed OCSP status.
SelfConsistent(st) ==
    \/ st.ocsp = "UNKNOWN" /\ st.pva \notin {"VALID", "REVOKED"}
    \/ st.ocsp = "REVOKED" /\ st.pva = "REVOKED"
    \/ st.ocsp = "GOOD" /\ st.pva = "VALID"

\* CertStatusManager::verifyOCSPResponse: the signer chains to a trusted CA
\* and OCSP_basic_verify succeeds.
SignatureVerifies(st) == st.sig

\* CertStatusManager::parse: decode the OCSP response, require a successful
\* response status, verify the signature, read the single response.  The
\* result of OCSP_check_validity (this_update/next_update against now) is
\* discarded, so a token is accepted whatever its dates; a REVOKED token
\* always carries its revocation time.
Parse(st) == SignatureVerifies(st)

\* Mutant: parsing that skips the self-consistency check.
VerifiedNoConsistency(st) == Parse(st)

\* PVACertificateStatus(value): parse of the OCSP bytes, then the
\* self-consistency check of the CertificateStatus(Value) constructor.
Verified(st) == Parse(st) /\ SelfConsistent(st)

-----------------------------------------------------------------------------
(* The CMS side (modelled from the spec: its handlers are not under src/). *)

\* Monitor queue with coalescing: when full, the newest update replaces the
\* last queued one.
Enqueue(q, st) ==
    IF Len(q) < QueueCap THEN Append(q, st) ELSE ReplaceAt(q, Len(q), st)

\* Every status value the CMS can have signed: the status it held at some
\* time, signed at that time (the posted values and the GET answers are
\* among these).
Signed == {MakeStatus(h[1], h[2]) : h \in held}

\* Post a freshly signed status on the status PV; every monitor sees it.
\* The client runs the subscription's event callback when its queue becomes
\* not empty, not once per update.
Post(st) ==
    /\ posted' = st
    /\ monitorQ' = IF subscribed THEN Enqueue(monitorQ, st) ELSE monitorQ
    /\ eventDue' = (eventDue \/ (subscribed /\ monitorQ = <<>>))

\* SQL_CERT_SET_STATUS: the row takes the new status, which is then signed
\* and posted on the status PV.
SetStatus(new) ==
    /\ cms' = new
    /\ Post(MakeStatus(new, now))
    /\ held' = held \cup {<<new, now>>}
    /\ UNCHANGED <<owner, ownerCalls, ownerReply, ctx, now, subscribed,
                   mgrStatus, cache, notified, vpc, getReply, verdict>>

\* updateCertificateStatus: the UPDATE restricted by getValidStatusesClause
\* (declared in pvacms.h, its body not in this repository) to rows whose
\* status is one of the allowed prior statuses (spec: set_status's
\* allowed_prior).  A row in another status is left alone.
UpdateCertificateStatus(new, priors) ==
    /\ cms \in priors
    /\ SetStatus(new)

\* updateCertificateStatus's default valid_status.
DefaultPriors == {"PENDING_APPROVAL", "PENDING", "VALID"}

\* The admin's APPROVE and DENY of a certificate awaiting approval, and
\* REVOKE of one not yet revoked or expired (onRevoke and its siblings).
CmsApprove ==
    UpdateCertificateStatus(IF now < NotBefore THEN "PENDING" ELSE "VALID",
                            {"PENDING_APPROVAL"})

CmsDeny == UpdateCertificateStatus("REVOKED", {"PENDING_APPROVAL"})

CmsRevoke == UpdateCertificateStatus("REVOKED", DefaultPriors)

\* SQL_CERT_TO_VALID: not_before <= now < not_after.
SelectToValid == NotBefore <= now /\ now < NotAfter

\* SQL_CERT_TO_EXPIRED: not_after <= now.
SelectToExpired == NotAfter <= now

\* certificateStatusMonitor's sweep (spec: PENDING certificates the query
\* selects become VALID, VALID ones it selects become EXPIRED).
SweepToValid == SelectToValid /\ UpdateCertificateStatus("VALID", {"PENDING"})

SweepToExpired == SelectToExpired /\ UpdateCertificateStatus("EXPIRED", {"VALID"})

CmsSetStatus == CmsApprove \/ CmsDeny \/ CmsRevoke \/ SweepToValid \/ SweepToExpired

\* Re-sign and re-post the unchanged status with a new validity window.
CmsRepublish ==
    /\ posted.date < now
    /\ Post(MakeStatus(cms, now))
    /\ UNCHANGED <<owner, ownerCalls, ownerReply, ctx, now, cms, held,
                   subscribed, mgrStatus, cache, notified, vpc, getReply,
                   verdict>>

\* onGetStatus: answer the blocked GET with a status signed now.
CmsServeGet ==
    /\ vpc = "get"
    /\ getReply = NoStatus
    /\ getReply' = MakeStatus(cms, now)
    /\ UNCHANGED <<owner, ownerCalls, ownerReply, ctx, eventDue, now, cms,
                   posted, held, subscribed, monitorQ, mgrStatus, cache,
                   notified, vpc, verdict>>

\* onGetStatus for the owner's GET.
CmsServeOwnerGet ==
    /\ owner = "get"
    /\ ownerReply = NoStatus
    /\ ownerReply' = MakeStatus(cms, now)
    /\ UNCHANGED <<owner, ownerCalls, ctx, eventDue, now, cms, posted, held,
                   subscribed, monitorQ, mgrStatus, cache, notified, vpc,
                   getReply, verdict>>

Tick ==
    /\ now < MaxTime
    /\ now' = now + 1
    /\ held' = held \cup {<<cms, now + 1>>}
    /\ UNCHANGED <<owner, ownerCalls, ownerReply, ctx, eventDue, cms, posted,
                   subscribed, monitorQ, mgrStatus, cache, notified, vpc,
                   getReply, verdict>>

-----------------------------------------------------------------------------
(* The status transport is plain PVA (TLS disabled to avoid recursion), so  *)
(* with NetworkAdversary whatever the peer receives may be the genuine value *)
(* with its unsigned PVA field rewritten, a token the attacker could not     *)
(* sign, or any value the CMS has signed, replayed in its place.             *)

\* Rewriting the PVA field to a value selfConsistent does not bind to the
\* token (UNKNOWN, PENDING_APPROVAL, PENDING, EXPIRED) changes nothing the
\* peer acts on, so the attacker only tries the two values it does bind.
BoundPva == {"VALID", "REVOKED"}

Forged == [pva |-> "VALID", ocsp |-> "GOOD", date |-> now,
           until |-> now + Validity, sig |-> FALSE]

\* What arrives when st was sent.
Received(st) ==
    IF NetworkAdversary
       THEN {st} \cup {[st EXCEPT !.pva = p] : p \in BoundPva}
                \cup {Forged} \cup Signed
       ELSE {st}

-----------------------------------------------------------------------------
(* The peer side: certstatusmanager.cpp and the TLS hooks.                 *)

\* CertStatusExData::subscribeToCertStatus, on a context that checks peer
\* status: open the MONITOR unless a manager already exists; the monitor
\* first delivers the current value.
Subscribe ==
    /\ ctx.verify /\ ctx.statusCheck
    /\ ~subscribed
    /\ subscribed' = TRUE
    /\ monitorQ' = <<posted>>
    /\ eventDue' = TRUE
    /\ UNCHANGED <<owner, ownerCalls, ownerReply, ctx, now, cms, posted, held,
                   mgrStatus, cache, notified, vpc, getReply, verdict>>

\* The status callback: under the lock read the previous status, store the
\* update, compare goodness, then (lock released) call fn(is_good) if it
\* changed.
StoreAndNotify(st) ==
    LET wasGood == cache # NoStatus /\ IsGood(cache, now)
        isGood  == IsGood(st, now)
    IN  /\ cache' = st
        /\ notified' = IF isGood # wasGood THEN isGood ELSE notified

\* The monitor event lambda: pop one update; if it verifies, record it in
\* the manager and run the status callback; a parse failure is logged and
\* dropped.  Nothing pops the rest of the queue.
SubscriptionEvent ==
    /\ subscribed
    /\ eventDue
    /\ monitorQ # <<>>
    /\ eventDue' = FALSE
    /\ monitorQ' = Tail(monitorQ)
    /\ \E st \in Received(Head(monitorQ)) :
         IF Verified(st)
            THEN /\ mgrStatus' = st
                 /\ StoreAndNotify(st)
            ELSE UNCHANGED <<mgrStatus, cache, notified>>
    /\ UNCHANGED <<owner, ownerCalls, ownerReply, ctx, now, cms, posted, held,
                   subscribed, vpc, getReply, verdict>>

NoContext == [SetupError EXCEPT !.outcome = "none"]

NoVerdict == [ok |-> FALSE, used |-> NoStatus, at |-> 0, monitored |-> FALSE,
              called |-> FALSE]

\* The peer certificates ossl_verify is called for: whether OpenSSL's own
\* chain verification passed (preverify_ok; a self-signed chain and any
\* other failure are handled alike, see VerifyStart) and whether the
\* certificate carries the status PV extension.  A chain can pass only on a
\* context whose trust store holds a root.
PeerCerts == [preverify: BOOLEAN, ext: BOOLEAN]

ChainCanPass(c) == c.preverify => ctx.anchored

\* CertStatusManager::statusMonitoringRequired: getExtension finds the
\* NID_PvaCertStatusURI extension (it throws, and the catch returns false,
\* when X509_get_ext_by_NID or X509_get_ext finds none).
StatusMonitoringRequired(c) == c.ext

\* ossl_verify decides at once: accept or reject, on status st (or NoStatus
\* when no status was consulted).
Decide(ok, st, mon) ==
    /\ verdict' = [ok |-> ok, used |-> st, at |-> now, monitored |-> mon,
                   called |-> TRUE]
    /\ vpc' = "decided"

\* ossl_verify for one certificate of the peer's chain.  A chain OpenSSL
\* rejected stays rejected: for the self-signed errors the code returns
\* preverify_ok, which is 0, like the logged rejection of any other error.
\* A certificate without the status extension, or a context with status
\* checking disabled, is accepted without a status.  Otherwise a cached
\* status still valid decides, else the thread blocks in
\* CertStatusManager::getStatus (a GET with no timeout).
VerifyStart ==
    /\ vpc = "idle"
    /\ ctx.verify
    /\ \E c \in PeerCerts :
         ChainCanPass(c) /\
         CASE ~c.preverify
                -> Decide(FALSE, NoStatus, FALSE)
           [] ~StatusMonitoringRequired(c) \/ ~ctx.statusCheck
                -> Decide(TRUE, NoStatus, FALSE)
           [] cache # NoStatus /\ IsValid(cache, now)
                -> Decide(IsGood(cache, now), cache, TRUE)
           [] OTHER
                -> /\ vpc' = "get"
                   /\ UNCHANGED verdict
    /\ UNCHANGED <<owner, ownerCalls, ownerReply, ctx, eventDue, now, cms,
                   posted, held, subscribed, monitorQ, mgrStatus, cache,
                   notified, getReply>>

\* The GET returns: the answer is parsed (a parse failure is a runtime_error,
\* so reject), stored with setCachedPeerStatus, and accepted iff good.
VerifyGetReply ==
    /\ vpc = "get"
    /\ getReply # NoStatus
    /\ vpc' = "decided"
    /\ getReply' = NoStatus
    /\ \E st \in Received(getReply) :
         IF Verified(st)
            THEN /\ cache' = st
                 /\ verdict' = [ok |-> IsGood(st, now), used |-> st, at |-> now,
                                 monitored |-> TRUE, called |-> TRUE]
            ELSE /\ verdict' = [ok |-> FALSE, used |-> st, at |-> now,
                                 monitored |-> TRUE, called |-> TRUE]
                 /\ UNCHANGED cache
    /\ UNCHANGED <<owner, ownerCalls, ownerReply, ctx, eventDue, now, cms,
                   posted, held, subscribed, monitorQ, mgrStatus, notified>>

\* The GET throws (remote error, disconnect): the runtime_error handler
\* rejects the certificate.
VerifyGetFail ==
    /\ vpc = "get"
    /\ vpc' = "decided"
    /\ getReply' = NoStatus
    /\ verdict' = [ok |-> FALSE, used |-> NoStatus, at |-> now,
                    monitored |-> TRUE, called |-> TRUE]
    /\ UNCHANGED <<owner, ownerCalls, ownerReply, ctx, eventDue, now, cms,
                   posted, held, subscribed, monitorQ, mgrStatus, cache,
                   notified>>

\* ossl_verify returns its decision to OpenSSL, which goes on with (or
\* aborts) the handshake; the next handshake runs the callback again.
VerifyReturn ==
    /\ vpc = "decided"
    /\ vpc' = "idle"
    /\ verdict' = NoVerdict
    /\ UNCHANGED <<owner, ownerCalls, ownerReply, ctx, eventDue, now, cms,
                   posted, held, subscribed, monitorQ, mgrStatus, cache,
                   notified, getReply>>

\* A handshake on a context without ossl_verify (SSL_VERIFY_NONE): OpenSSL
\* completes it without checking the peer's certificate.
HandshakeUnverified ==
    /\ vpc = "idle"
    /\ ctx.outcome = "ok" /\ ~ctx.verify
    /\ verdict' = [NoVerdict EXCEPT !.ok = TRUE, !.at = now]
    /\ vpc' = "decided"
    /\ UNCHANGED <<owner, ownerCalls, ownerReply, ctx, eventDue, now, cms,
                   posted, held, subscribed, monitorQ, mgrStatus, cache,
                   notified, getReply>>

\* A client that sends no certificate to a server context: OpenSSL does not
\* call the verify callback and accepts unless the mode has
\* SSL_VERIFY_FAIL_IF_NO_PEER_CERT.  (A server always sends one.)
HandshakeNoPeerCert ==
    /\ vpc = "idle"
    /\ ctx.outcome = "ok" /\ ctx.verify /\ ~ctx.client
    /\ verdict' = [NoVerdict EXCEPT !.ok = ctx.acceptsNoCert, !.at = now]
    /\ vpc' = "decided"
    /\ UNCHANGED <<owner, ownerCalls, ownerReply, ctx, eventDue, now, cms,
                   posted, held, subscribed, monitorQ, mgrStatus, cache,
                   notified, getReply>>

\* The contexts the setups of Setups produce.
SetupResults == {SetupCommon(s) : s \in Setups}

\* SSLContext::for_client or for_server builds the context the peer side
\* uses; a setup that throws leaves the process without one.
CreateContext ==
    /\ ctx = NoContext
    /\ \E c \in SetupResults : ctx' = c
    /\ UNCHANGED <<owner, ownerCalls, ownerReply, eventDue, now, cms, posted,
                   held, subscribed, monitorQ, mgrStatus, cache, notified, vpc,
                   getReply, verdict>>

\* CertStatusManager::isValid (certstatusmanager.h, which is not in the
\* repository): status_ is set and still valid.
ManagerValid == mgrStatus # NoStatus /\ IsValid(mgrStatus, now)

\* CertStatusManager::getStatus() on the owner's thread: a status_ still
\* valid is returned as it is (no step); otherwise getPVAStatus(uri) makes a
\* GET over a fresh non-TLS client and blocks until it completes.
OwnerGetStatus ==
    /\ ownerCalls < OwnerCalls
    /\ subscribed
    /\ owner = "idle"
    /\ ~ManagerValid
    /\ owner' = "get"
    /\ ownerCalls' = ownerCalls + 1
    /\ UNCHANGED <<ownerReply, ctx, eventDue, now, cms, posted, held,
                   subscribed, monitorQ, mgrStatus, cache, notified, vpc,
                   getReply, verdict>>

\* The GET completes: PVACertificateStatus(result) parses and verifies it
\* (a failure throws to the owner) and `status_ = ...` stores it, whatever
\* the monitor callback stored in status_ meanwhile.
OwnerGetReturn ==
    /\ owner = "get"
    /\ ownerReply # NoStatus
    /\ owner' = "idle"
    /\ ownerReply' = NoStatus
    /\ \E st \in Received(ownerReply) :
         mgrStatus' = IF Verified(st) THEN st ELSE mgrStatus
    /\ UNCHANGED <<ownerCalls, ctx, eventDue, now, cms, posted, held,
                   subscribed, monitorQ, cache, notified, vpc, getReply,
                   verdict>>

\* The GET throws (remote error, disconnect) to the owner.
OwnerGetFail ==
    /\ owner = "get"
    /\ owner' = "idle"
    /\ ownerReply' = NoStatus
    /\ UNCHANGED <<ownerCalls, ctx, eventDue, now, cms, posted, held,
                   subscribed, monitorQ, mgrStatus, cache, notified, vpc,
                   getReply, verdict>>

-----------------------------------------------------------------------------

Init ==
    /\ ctx = NoContext
    /\ now = 0
    \* issued awaiting approval, or pending / valid by its not_before
    /\ cms \in {"PENDING_APPROVAL", IF 0 < NotBefore THEN "PENDING" ELSE "VALID"}
    /\ posted = MakeStatus(cms, 0)
    /\ held = {<<cms, 0>>}
    /\ subscribed = FALSE
    /\ monitorQ = <<>>
    /\ eventDue = FALSE
    /\ mgrStatus = NoStatus
    /\ cache = NoStatus
    /\ notified = FALSE
    /\ vpc = "idle"
    /\ getReply = NoStatus
    /\ verdict = NoVerdict
    /\ owner = "idle"
    /\ ownerCalls = 0
    /\ ownerReply = NoStatus

Next ==
    \/ CreateContext
    \/ HandshakeUnverified
    \/ HandshakeNoPeerCert
    \/ CmsSetStatus
    \/ CmsRepublish
    \/ CmsServeGet
    \/ Tick
    \/ Subscribe
    \/ SubscriptionEvent
    \/ VerifyStart
    \/ VerifyGetReply
    \/ VerifyGetFail
    \/ VerifyReturn
    \/ CmsServeOwnerGet
    \/ OwnerGetStatus
    \/ OwnerGetReturn
    \/ OwnerGetFail

\* The client worker delivers monitor events while the subscription lives,
\* and a blocked ossl_verify resumes once its answer has arrived.  Nothing
\* obliges the CMS to answer a GET, the clock to advance or the CMS to act.
Fairness == WF_vars(SubscriptionEvent) /\ WF_vars(VerifyGetReply)

Spec == Init /\ [][Next]_vars /\ Fairness

-----------------------------------------------------------------------------
(* Properties                                                              *)

TypeOK ==
    /\ now \in 0 .. MaxTime
    /\ cms \in PvaStates \ {"UNKNOWN"}
    /\ posted \in Status
    /\ held \subseteq PvaStates \X (0 .. MaxTime)
    /\ subscribed \in BOOLEAN
    /\ monitorQ \in Seq(Status) /\ Len(monitorQ) <= QueueCap
    /\ eventDue \in BOOLEAN
    /\ mgrStatus \in Status \cup {NoStatus}
    /\ cache \in Status \cup {NoStatus}
    /\ notified \in BOOLEAN
    /\ vpc \in {"idle", "get", "decided"}
    /\ getReply \in Status \cup {NoStatus}
    /\ owner \in {"idle", "get"}
    /\ ownerCalls \in 0 .. OwnerCalls
    /\ ownerReply \in Status \cup {NoStatus}
    /\ verdict \in [ok: BOOLEAN, used: Status \cup {NoStatus}, at: 0 .. MaxTime,
                   monitored: BOOLEAN, called: BOOLEAN]
    /\ ctx \in Contexts \cup {NoContext}

\* ossl_verify accepts a peer certificate whose status it checks only on a
\* status that the CMS really signed for it (unsigned PVA field included),
\* that says GOOD and that is still inside its validity window when
\* accepted, whichever of the cache, the monitor callback or the GET supplied it and
\* whatever the transport did to it.
AcceptOnlyAuthenticFreshGood ==
    verdict.ok /\ verdict.monitored =>
                  /\ verdict.used.pva = "VALID"
                  /\ verdict.used \in Signed
                  /\ verdict.used.ocsp = "GOOD"
                  /\ verdict.at < verdict.used.until

\* Everything the status cache and the manager's status_ hold, written by the
\* monitor callback, by ossl_verify's GET or by getStatus's GET, all over an
\* unauthenticated transport, carries an OCSP token the CMS signed, and a
\* PVA status of VALID or REVOKED only where the CMS gave it that status (the
\* other four PVA values are not bound by the signature: selfConsistent
\* accepts any of them with an UNKNOWN token).
IssuedBy(v) ==
    v # NoStatus =>
        \E st \in Signed :
            /\ <<st.ocsp, st.date, st.until>> = <<v.ocsp, v.date, v.until>>
            /\ v.pva \in {"VALID", "REVOKED"} => v.pva = st.pva

CacheHoldsIssued == IssuedBy(cache) /\ IssuedBy(mgrStatus)

UncheckedOnlyAnonymous ==
    verdict.ok /\ ~verdict.called =>
        \/ ~ctx.verify /\ ~ctx.hasCert
        \/ ~ctx.client /\ ctx.acceptsNoCert

\* Once the CMS has revoked the certificate and the subscription is open,
\* the monitor callback eventually records the REVOKED status in the
\* manager (spec 5, S2: every MONITOR subscriber observes the revocation).
RevocationReachesManager ==
    (cms = "REVOKED" /\ subscribed) ~> (mgrStatus # NoStatus /\ mgrStatus.ocsp = "REVOKED")

\* Once the peer's cache, or the manager's status_, has held a REVOKED status
\* it never again holds a GOOD one: revocation is terminal in the CMS and the
\* monitor delivers changes in commit order (spec 4.3, 5), so neither a late
\* GET reply (ossl_verify's cache store, getStatus's `status_ = ...`) may
\* overwrite a revocation delivered meanwhile.
HoldsOcsp(st, o) == st # NoStatus /\ st.ocsp = o

RevocationSticky ==
    /\ [](HoldsOcsp(cache, "REVOKED") => [](~HoldsOcsp(cache, "GOOD")))
    /\ [](HoldsOcsp(mgrStatus, "REVOKED") => [](~HoldsOcsp(mgrStatus, "GOOD")))

\* When the subscription has delivered a REVOKED status, the owner's last
\* fn(is_good) notification is not "good": on_change fires whenever goodness
\* changes (spec 4.5), so a connection told "good" hears of the revocation.
OwnerHearsRevocation ==
    (mgrStatus # NoStatus /\ mgrStatus.ocsp = "REVOKED") => ~notified

\* A blocked ossl_verify eventually returns (the spec bounds the GET by a
\* 3 second timeout and rejects on timeout).
VerifyReturns == (vpc = "get") ~> (vpc = "decided")

=============================================================================

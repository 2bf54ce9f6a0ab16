------------------------------ MODULE SafeFetch ------------------------------
(***************************************************************************)
(* The guarded fetcher of src/src/utils/safe-fetch.ts with its transports  *)
(* (safe-fetch-transports.ts).                                             *)
(* One safeFetch() call: a hop resolves the host, screens and pins an      *)
(* address, connects, and either ends or follows a redirect.  Every DNS    *)
(* answer and every response is the network's choice at that moment, so a  *)
(* name may resolve differently for the screen and for the connection.     *)
(***************************************************************************)
EXTENDS IpClassifier

CONSTANTS
    FetchUrls,      \* URLs a caller may ask for: [scheme, host, path], or BadUrl
    Locations,      \* Location headers a server may send: as FetchUrls, or NoLocation
    Addresses,      \* texts of addresses the DNS may answer with
    Trusted,        \* allowOrigins and firstPartyOrigin entries: as FetchUrls
    Transports,     \* the transports configured: "pinned" or "by name"
    MaxRedirects, MaxBytes

BadUrl == [scheme |-> "none", host |-> "none", path |-> "none"]
NoLocation == [scheme |-> "absent", host |-> "none", path |-> "none"]
UrlType == [scheme: {"https", "http", "none", "absent"}, host: STRING, path: STRING]

\* 301, 302, 303, 307 and 308 behave alike, as do the successes and the rest.
RedirectStatuses == {302}
Statuses == RedirectStatuses \cup {200, 404}

ASSUME SafeFetchAssumption ==
    /\ FetchUrls \subseteq UrlType /\ Locations \subseteq UrlType
    /\ Trusted \subseteq UrlType /\ Transports \subseteq {"pinned", "by name"}
    /\ \A a \in Addresses : AddressText(a)
    /\ MaxRedirects \in Nat /\ MaxBytes \in Nat

VARIABLES
    fetcher,    \* [transport, trusted]: the configuration of this behaviour
    fetch,      \* the call: [stage, asked, url, hop, pinned]
    conn,       \* the last connection made: [url, address, pinned, count]
    fetched     \* what the call came to: [status, size, url], or how it failed

fetchVars == <<fetcher, fetch, conn, fetched>>

-----------------------------------------------------------------------------
(* One call.                                                               *)

Origin(url) == <<url.scheme, url.host>>

\* A trusted entry that is not an https URL makes the construction throw.
normalizeTrustedOrigins(entries) ==
    {Origin(e) : e \in {e \in entries : \A f \in entries : f.scheme = "https"}}

ByName == V4(<<>>)
NoFetch == [stage |-> "idle", asked |-> BadUrl, url |-> BadUrl, hop |-> 0, pinned |-> ByName]
NoConn == [url |-> BadUrl, address |-> ByName, pinned |-> FALSE, count |-> 0]
NothingFetched == [status |-> 0, size |-> 0, url |-> BadUrl]

FetchInit ==
    /\ fetcher \in [transport: Transports, trusted: {normalizeTrustedOrigins(Trusted)}]
    /\ fetch = NoFetch /\ conn = NoConn /\ fetched = NothingFetched

FetchFails ==
    /\ fetch' = [fetch EXCEPT !.stage = "failed"]
    /\ UNCHANGED <<fetcher, conn, fetched>>

\* requestOnce up to its first await: a first-party origin skips the screen.
requestOnce(f, url) ==
    [f EXCEPT !.url = url, !.pinned = ByName,
              !.stage = IF Origin(url) \in fetcher.trusted THEN "connect" ELSE "lookup"]

\* safeFetch(initialUrl), with assertHttpsUrl.
SafeFetch(url) ==
    /\ fetch.stage = "idle"
    /\ fetch' = IF url.scheme # "https" THEN [NoFetch EXCEPT !.stage = "failed", !.asked = url]
                ELSE requestOnce([NoFetch EXCEPT !.asked = url], url)
    /\ UNCHANGED <<fetcher, conn, fetched>>

\* resolveAndPin: every answer is screened and the first one pinned.  A lookup
\* that throws is an empty answer.
ResolveAndPin(answers) ==
    /\ fetch.stage = "lookup"
    /\ IF answers # <<>> /\ \A i \in 1..Len(answers) : ~ isBlockedAddress(answers[i])
       THEN /\ fetch' = [fetch EXCEPT !.stage = "connect", !.pinned = answers[1]]
            /\ UNCHANGED <<fetcher, conn, fetched>>
       ELSE FetchFails

\* The transports: nodeHttpsTransport connects through buildPinnedLookup, while
\* fetchTransport lets the runtime resolve the name again.
Connect(resolved) ==
    /\ fetch.stage = "connect"
    /\ LET pin == fetcher.transport = "pinned" /\ fetch.pinned # ByName IN
       conn' = [url |-> fetch.url, pinned |-> pin,
                address |-> IF pin THEN fetch.pinned ELSE resolved, count |-> conn.count + 1]
    /\ fetch' = [fetch EXCEPT !.stage = "sent"]
    /\ UNCHANGED <<fetcher, fetched>>

\* The abort of withTimeout, or an error of the connection.
TimeOut == fetch.stage \in {"connect", "sent"} /\ FetchFails

\* Mutant of nextRedirectUrl: any https target will do.
RedirectAnywhere(current, location) ==
    IF location.scheme = "https" THEN location ELSE BadUrl

\* The next URL of a redirect, BadUrl where the code throws.
nextRedirectUrl(current, location) ==
    IF location.scheme = "https" /\ Origin(location) = Origin(current) THEN location ELSE BadUrl

\* finalize: the size cap on the declared and on the actual length.
finalize(status, declared, size) ==
    /\ fetch' = [fetch EXCEPT !.stage = IF declared > MaxBytes \/ size > MaxBytes
                                        THEN "failed" ELSE "done"]
    /\ fetched' = IF fetch'.stage = "done"
                  THEN [status |-> status, size |-> size, url |-> fetch.url] ELSE fetched
    /\ UNCHANGED <<fetcher, conn>>

\* A response arrives; both transports stop reading a body past the cap.
Respond(status, location, declared, size) ==
    /\ fetch.stage = "sent"
    /\ IF size > MaxBytes THEN FetchFails
       ELSE IF status \notin RedirectStatuses THEN finalize(status, declared, size)
       ELSE IF fetch.hop >= MaxRedirects \/ nextRedirectUrl(fetch.url, location).scheme # "https"
            THEN FetchFails
       ELSE /\ fetch' = [requestOnce(fetch, nextRedirectUrl(fetch.url, location))
                         EXCEPT !.hop = fetch.hop + 1]
            /\ UNCHANGED <<fetcher, conn, fetched>>

DnsAnswers == {<<>>} \cup {<<a>> : a \in Addresses} \cup {<<a, b>> : a, b \in Addresses}

FetchNext ==
    \/ \E url \in FetchUrls : SafeFetch(url)
    \/ \E answers \in DnsAnswers : ResolveAndPin(answers)
    \/ \E a \in Addresses : Connect(a)
    \/ TimeOut
    \/ \E status \in Statuses, location \in Locations,
          declared, size \in {0, MaxBytes, MaxBytes + 1} :
            Respond(status, location, declared, size)

FetchSpec == FetchInit /\ [][FetchNext]_fetchVars

-----------------------------------------------------------------------------
(* Properties.                                                             *)

\* Whatever the DNS answers and wherever servers redirect, the fetcher connects only
\* to the origin it was asked for, at most MaxRedirects + 1 times, by https, and at
\* a public address unless the origin is first-party or the transport connects by
\* name; a body it returns comes from that origin and fits the cap (createSafeFetch,
\* resolveAndPin, nextRedirectUrl, finalize, isBlockedAddress).
FetchConfined ==
    /\ conn # NoConn =>
        /\ Origin(conn.url) = Origin(fetch.asked) /\ conn.url.scheme = "https"
        /\ conn.count <= MaxRedirects + 1
        /\ \/ fetcher.transport = "by name" \/ Origin(conn.url) \in fetcher.trusted
           \/ PublicUnicast(conn.address)
    /\ fetched # NothingFetched =>
        Origin(fetched.url) = Origin(fetch.asked) /\ fetched.size <= MaxBytes
=============================================================================

---------------------------- MODULE SessionConnect ----------------------------
(***************************************************************************)
(* How a Ghost gets a session: transport security                          *)
(* (src/internal/protocol/session/transport_security.go), the registration *)
(* exchange (control.go, and handleRegistration in                         *)
(* src/internal/mirage/service.go), and the loop that connects, registers  *)
(* and backs off (ConnectAndRegister in src/internal/ghost/mirage_client.go*)
(* with backoff.go).                                                       *)
(*                                                                         *)
(* One Mirage, one Ghost, one connection at a time; EventDelivery has the  *)
(* sessions that overlap.  A network fault can end any attempt.            *)
(*                                                                         *)
(* Abstractions.  A certificate is the authority that signed it and the    *)
(* names in it; crypto/tls is external: a handshake succeeds when each     *)
(* side can check what it asks for.  With TLS 1.3, which both ends speak,  *)
(* the client's handshake ends before the server has looked at the         *)
(* client's certificate.  Files are there or not named.  Times are in      *)
(* milliseconds.                                                           *)
(***************************************************************************)
EXTENDS Integers, FiniteSets

CONSTANTS
  Mirages,       \* bound: the Mirage configurations tried, see AnyMirage
  Ghosts,        \* bound: the Ghost configurations tried, see AnyGhost
  Blank,         \* the name that is missing or made of blanks
  TrimName,      \* a name -> the name without the blanks around it
  JitterPercent, \* bound: the factors of the random source, 50 to 149
  MaxAttempt     \* bound: attempts of one ConnectAndRegister

Names == DOMAIN TrimName

\* Security modes after NormalizeSecurityMode; any other mode is refused.
Modes == {"development", "production", "other"}

Transport == [mode : Modes, enabled : BOOLEAN, mutual : BOOLEAN, skipVerify : BOOLEAN,
              cert : BOOLEAN, key : BOOLEAN, ca : BOOLEAN]

Certificate == [trusted : BOOLEAN, commonName : Names, uri : Names, dns : Names]

AnyMirage == [transport : Transport, requireIdentityBinding : BOOLEAN]

AnyGhost == [transport : Transport, certificate : Certificate, ghostID : Names,
             peerIdentity : Names, maxConnectAttempts : Nat,
             initialDelay : Int, multiplier : Nat, maxDelay : Int, jitter : BOOLEAN]

ASSUME SessionConnectAssumption ==
  /\ Mirages \subseteq AnyMirage
  /\ Ghosts \subseteq AnyGhost
  /\ Blank \in Names
  /\ \A n \in Names : TrimName[n] \in Names
  /\ JitterPercent \subseteq 50 .. 149
  /\ MaxAttempt \in Nat

-----------------------------------------------------------------------------
(* Configuration *)

Or(v, default) == IF v <= 0 THEN default ELSE v

\* WithDefaults; the timeouts it fills in as well are not looked at here.
WithDefaults(g) ==
  [g EXCEPT !.initialDelay = Or(@, 250), !.multiplier = Or(@, 2), !.maxDelay = Or(@, 5000)]

ValidCommon(t) ==
  /\ t.mode \in {"development", "production"}
  /\ t.mode = "production" => t.enabled /\ t.mutual
  /\ t.mutual => t.enabled

ValidateClientTransport(t) ==
  /\ ValidCommon(t)
  /\ t.mode = "production" => ~ t.skipVerify
  /\ t.enabled => t.ca \/ t.skipVerify
  /\ t.mutual => t.cert /\ t.key

ValidateServerTransport(t) ==
  /\ ValidCommon(t)
  /\ t.enabled => t.cert /\ t.key
  /\ t.mutual => t.ca

\* serverTLSConfig: RequireAndVerifyClientCert, else NoClientCert.
AsksForCertificate(t) == t.mutual \/ t.mode = "production"

\* peerIdentityFromCert.
PeerIdentityFromCert(c) ==
  IF TrimName[c.commonName] # Blank THEN TrimName[c.commonName]
  ELSE IF TrimName[c.uri] # Blank THEN TrimName[c.uri]
  ELSE TrimName[c.dns]

-----------------------------------------------------------------------------
(* Backoff *)

\* math.Pow, of a factor that is a natural number.
Pow(factor, n) ==
  LET pow[k \in 0 .. n] == IF k = 0 THEN 1 ELSE factor * pow[k - 1]
  IN  pow[n]

\* Mutation: the cap is gone.
UncappedBackoffDelays(g, attempt) ==
  IF attempt <= 1 THEN {g.initialDelay}
  ELSE LET delay == g.initialDelay * Pow(g.multiplier, attempt - 1)
       IN  IF g.jitter THEN {(delay * f) \div 100 : f \in JitterPercent} ELSE {delay}

\* The first delay is neither capped nor jittered, the others are capped
\* before they are jittered.
NextBackoffDelays(g, attempt) ==
  IF attempt <= 1 THEN {g.initialDelay}
  ELSE LET grown == g.initialDelay * Pow(g.multiplier, attempt - 1)
           delay == IF grown > g.maxDelay THEN g.maxDelay ELSE grown
       IN  IF g.jitter THEN {(delay * f) \div 100 : f \in JitterPercent} ELSE {delay}

-----------------------------------------------------------------------------
VARIABLES
  mirage,      \* the running Mirage's configuration, at most one
  ghost,       \* the configuration of the Ghost that connects, at most one
  attempt,     \* ConnectAndRegister: attempt
  client,      \* idle, dialling, registering, backoff, connected or failed
  connHandler, \* handleConn: none, authenticating, reading, registered or closed
  auth,        \* what authenticateConn returned: the peer's identity, Blank if none
  verdict,     \* the registration ack: none, accepted or rejected
  registered,  \* the ghost ids in Mirage's registry
  lastDelay    \* history: the delay slept before this attempt

connectVars == <<mirage, ghost, attempt, client, connHandler, auth, verdict, registered, lastDelay>>

M == CHOOSE m \in mirage : TRUE
G == CHOOSE g \in ghost : TRUE

ConnectInit ==
  /\ mirage = {}
  /\ ghost = {}
  /\ attempt = 0
  /\ client = "idle"
  /\ connHandler = "none"
  /\ auth = Blank
  /\ verdict = "none"
  /\ registered = {}
  /\ lastDelay = 0

\* Run and Serve validate the transport and refuse to start without it.
StartMirage(m) ==
  /\ mirage = {}
  /\ ValidateServerTransport(m.transport)
  /\ mirage' = {m}
  /\ UNCHANGED <<ghost, attempt, client, connHandler, auth, verdict, registered, lastDelay>>

\* NewMirageClient, and the first attempt of ConnectAndRegister.
StartConnecting(g) ==
  /\ mirage # {}
  /\ client = "idle"
  /\ TrimName[g.ghostID] # Blank
  /\ ghost' = {WithDefaults([g EXCEPT !.peerIdentity = IF TrimName[@] = Blank THEN g.ghostID ELSE @])}
  /\ attempt' = 1
  /\ client' = "dialling"
  /\ UNCHANGED <<mirage, connHandler, auth, verdict, registered, lastDelay>>

ShouldRetry == G.maxConnectAttempts <= 0 \/ attempt < G.maxConnectAttempts

\* An attempt ends in error; handleConn of its connection goes on by itself.
AttemptFails == client' = IF ShouldRetry THEN "backoff" ELSE "failed"

\* The server's certificate is always in order: the client checks it against
\* its CA unless told not to.
DialSucceeds ==
  /\ ValidateClientTransport(G.transport)
  /\ G.transport.enabled = M.transport.enabled \/ ~ G.transport.enabled

DialMirage ==
  /\ client = "dialling"
  /\ connHandler \in {"none", "closed"}  \* attempts that overlap are EventDelivery's
  /\ DialSucceeds
  /\ client' = "registering"
  /\ connHandler' = "authenticating"
  /\ auth' = Blank
  /\ verdict' = "none"
  /\ UNCHANGED <<mirage, ghost, attempt, registered, lastDelay>>

\* The configuration is refused, the handshake fails, or the network does.
DialFails ==
  /\ client = "dialling"
  /\ AttemptFails
  /\ UNCHANGED <<mirage, ghost, attempt, connHandler, auth, verdict, registered, lastDelay>>

\* A client without TLS sends no certificate and no handshake.
HandshakeSucceeds ==
  /\ G.transport.enabled
  /\ AsksForCertificate(M.transport) => G.transport.mutual /\ G.certificate.trusted

AuthenticateConn ==
  /\ connHandler = "authenticating"
  /\ IF ~ M.transport.enabled
     THEN M.transport.mode # "production" /\ auth' = Blank
     ELSE /\ HandshakeSucceeds
          /\ IF AsksForCertificate(M.transport)
             THEN /\ PeerIdentityFromCert(G.certificate) # Blank
                  /\ auth' = PeerIdentityFromCert(G.certificate)
             ELSE auth' = Blank
  /\ connHandler' = "reading"
  /\ UNCHANGED <<mirage, ghost, attempt, client, verdict, registered, lastDelay>>

\* authenticateConn or a read fails: the server asks for more than the client
\* gives, the network fails, or the client has gone.
HandlerGivesUp ==
  /\ connHandler \in {"authenticating", "reading", "registered"}
  /\ connHandler' = "closed"
  /\ UNCHANGED <<mirage, ghost, attempt, client, auth, verdict, registered, lastDelay>>

\* Mutation: with a certificate at hand the ghost id is not compared with it.
CertificateNotCompared(m, peer, g) ==
  m.requireIdentityBinding =>
    IF peer # Blank
    THEN TrimName[g.peerIdentity] \in {Blank, peer}
    ELSE g.peerIdentity = g.ghostID

BindingAccepts(m, peer, g) ==
  m.requireIdentityBinding =>
    IF peer # Blank
    THEN /\ peer = g.ghostID
         /\ TrimName[g.peerIdentity] \in {Blank, peer}
    ELSE g.peerIdentity = g.ghostID

HandleRegistration ==
  /\ connHandler = "reading"
  /\ IF BindingAccepts(M, auth, G)
     THEN /\ registered' = registered \cup {G.ghostID}
          /\ verdict' = "accepted"
          /\ connHandler' = "registered"
     ELSE /\ verdict' = "rejected"
          /\ connHandler' = "closed"
          /\ UNCHANGED registered
  /\ UNCHANGED <<mirage, ghost, attempt, client, auth, lastDelay>>

ReadRegistrationAck ==
  /\ client = "registering"
  /\ verdict # "none"
  /\ client' = IF verdict = "accepted" THEN "connected" ELSE "failed"
  /\ UNCHANGED <<mirage, ghost, attempt, connHandler, auth, verdict, registered, lastDelay>>

\* The connection ends or HandshakeTimeout passes before the ack is read.  The
\* registration may be with the handler already.
RegisterFails ==
  /\ client = "registering"
  /\ AttemptFails
  /\ UNCHANGED <<mirage, ghost, attempt, connHandler, auth, verdict, registered, lastDelay>>

SleepBackoff ==
  /\ client = "backoff"
  /\ attempt < MaxAttempt
  /\ lastDelay' \in NextBackoffDelays(G, attempt)
  /\ attempt' = attempt + 1
  /\ client' = "dialling"
  /\ UNCHANGED <<mirage, ghost, connHandler, auth, verdict, registered>>

ConnectNext ==
  \/ \E m \in Mirages : StartMirage(m)
  \/ \E g \in Ghosts : StartConnecting(g)
  \/ DialMirage
  \/ DialFails
  \/ AuthenticateConn
  \/ HandlerGivesUp
  \/ HandleRegistration
  \/ ReadRegistrationAck
  \/ RegisterFails
  \/ SleepBackoff

ConnectSpec == ConnectInit /\ [][ConnectNext]_connectVars

-----------------------------------------------------------------------------
\* Whatever the two configurations are, and wherever attempts fail: a Mirage
\* that asks for certificates and binds identities has in its registry only
\* the name in a certificate it has verified, and no Mirage in production
\* takes a registration over a connection without TLS (authenticateConn and
\* handleRegistration, src/internal/mirage/service.go:530-636).
IdentityBound ==
  registered # {} =>
    /\ M.requireIdentityBinding /\ AsksForCertificate(M.transport) =>
         /\ G.certificate.trusted
         /\ registered = {PeerIdentityFromCert(G.certificate)}
    /\ M.transport.mode = "production" => G.transport.enabled /\ G.transport.mutual

\* Attempts and delays are as configured.  Without jitter, and with a first
\* delay within the maximum, no delay exceeds the maximum.  A Ghost told to try
\* n times tries at most n times, and gives up on no other ground than that
\* the last of them failed or that Mirage rejected it: any other error is one
\* more attempt (NextBackoffDelay, src/internal/protocol/session/backoff.go:
\* 10-32, and ConnectAndRegister, src/internal/ghost/mirage_client.go:75-102).
BackoffAsConfigured ==
  ghost # {} =>
    /\ ~ G.jitter /\ G.initialDelay <= G.maxDelay => lastDelay <= G.maxDelay
    /\ G.maxConnectAttempts > 0 => attempt <= G.maxConnectAttempts
    /\ client = "failed" => attempt = G.maxConnectAttempts \/ verdict = "rejected"

\* With jitter too, as transport.md:72 and reliability.toml:39 have it: "max=
\* 5000ms, jitter=required".  The code jitters what it has capped.
DelayWithinMax == ghost # {} => lastDelay <= G.maxDelay

-----------------------------------------------------------------------------
(***************************************************************************)
(* Why they hold: the parts of the inductive invariant.                    *)
(***************************************************************************)

\* There is a Mirage before a Ghost connects to it, and what a start has
\* checked and filled in stays.
Configured ==
  /\ mirage # {} => \E m \in mirage : mirage = {m} /\ ValidateServerTransport(m.transport)
  /\ ghost # {} =>
       /\ mirage # {}
       /\ \E g \in ghost : /\ ghost = {g}
                           /\ g.maxConnectAttempts \in Nat
                           /\ g.initialDelay \in Nat /\ g.maxDelay \in Nat
                           /\ g.multiplier \in Nat
  /\ ghost = {} <=> client = "idle"
  /\ ghost = {} => connHandler = "none" /\ registered = {} /\ lastDelay = 0
  /\ attempt \in Nat /\ lastDelay \in Int

\* What authenticateConn has established when handleConn reads on.
Authenticated ==
  IF M.transport.enabled
  THEN /\ HandshakeSucceeds
       /\ AsksForCertificate(M.transport) =>
            auth = PeerIdentityFromCert(G.certificate) /\ auth # Blank
  ELSE M.transport.mode # "production"

ConnectInv ==
  /\ Configured
  /\ connHandler = "reading" => Authenticated
  /\ client = "backoff" => ShouldRetry
  /\ verdict \in {"none", "accepted", "rejected"}
  /\ verdict = "rejected" => connHandler = "closed"
  /\ IdentityBound
  /\ BackoffAsConfigured
=============================================================================

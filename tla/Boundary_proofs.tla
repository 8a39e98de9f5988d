---------------------------- MODULE Boundary_proofs ----------------------------
(***************************************************************************)
(* Proofs about the way to a session (SessionConnect) and the way of an    *)
(* issue to a stored intent (IssueIngest).                                 *)
(***************************************************************************)
EXTENDS Codec_proofs, SessionConnect, IssueIngest

-----------------------------------------------------------------------------
(***************************************************************************)
(* The way to a session.                                                   *)
(***************************************************************************)

LEMMA Singleton == ASSUME NEW m PROVE (CHOOSE x \in {m} : TRUE) = m
OBVIOUS

\* The powers of a factor are got one from the other ...
LEMMA PowDefined ==
  ASSUME NEW factor, NEW n \in Nat
  PROVE  \E f : f = [k \in 0 .. n |-> IF k = 0 THEN 1 ELSE factor * f[k - 1]]
<1> DEFINE Defined(m) == \E f : f = [k \in 0 .. m |-> IF k = 0 THEN 1 ELSE factor * f[k - 1]]
           P == {m \in Nat : Defined(m)}
<1>1. Defined(0)
  <2> DEFINE f == [k \in 0 .. 0 |-> 1]
  <2>1. f = [k \in 0 .. 0 |-> IF k = 0 THEN 1 ELSE factor * f[k - 1]]
    OBVIOUS
  <2> QED
    BY <2>1
<1>2. ASSUME NEW m \in Nat, Defined(m) PROVE Defined(m + 1)
  <2>1. PICK f : f = [k \in 0 .. m |-> IF k = 0 THEN 1 ELSE factor * f[k - 1]]
    BY <1>2
  <2> DEFINE g == [k \in 0 .. m + 1 |-> IF k = m + 1 THEN factor * f[m] ELSE f[k]]
  <2>2. ASSUME NEW k \in 0 .. m + 1
        PROVE  g[k] = IF k = 0 THEN 1 ELSE factor * g[k - 1]
    <3>1. CASE k = m + 1
      <4>1. k # 0 /\ k - 1 = m /\ m \in 0 .. m + 1 /\ m # m + 1
        BY <3>1
      <4>2. g[m] = f[m]
        BY <4>1
      <4> QED
        BY <3>1, <4>1, <4>2
    <3>2. CASE k = 0
      <4>1. k # m + 1 /\ k \in 0 .. m
        BY <3>2
      <4> QED
        BY <2>1, <3>2, <4>1
    <3>3. CASE k # 0 /\ k # m + 1
      <4>1. k \in 0 .. m /\ k - 1 \in 0 .. m + 1 /\ k - 1 # m + 1
        BY <3>3
      <4>2. f[k] = factor * f[k - 1]
        BY <2>1, <3>3, <4>1
      <4>3. g[k] = f[k] /\ g[k - 1] = f[k - 1]
        BY <3>3, <4>1
      <4> QED
        BY <3>3, <4>2, <4>3
    <3> QED
      BY <3>1, <3>2, <3>3
  <2>3. g = [k \in 0 .. m + 1 |-> g[k]]
    OBVIOUS
  <2> HIDE DEF g
  <2>4. g = [k \in 0 .. m + 1 |-> IF k = 0 THEN 1 ELSE factor * g[k - 1]]
    BY <2>2, <2>3
  <2> QED
    BY <2>4
<1> HIDE DEF Defined
<1>3. 0 \in P
  BY <1>1
<1>4. ASSUME NEW m \in 1 .. n, m - 1 \in P PROVE m \in P
  <2>1. m \in Nat /\ (m - 1) + 1 = m
    OBVIOUS
  <2> QED
    BY <1>2, <1>4, <2>1
<1> HIDE DEF P
<1>5. n \in P
  <2>1. n \in 0 .. n
    OBVIOUS
  <2> QED
    BY <1>3, <1>4, <2>1, Upward
<1> QED
  BY <1>5 DEF P, Defined

\* ... and are natural numbers if it is one.
LEMMA PowIsNat ==
  ASSUME NEW factor \in Nat, NEW n \in Nat
  PROVE  Pow(factor, n) \in Nat
<1> DEFINE f == CHOOSE f : f = [k \in 0 .. n |-> IF k = 0 THEN 1 ELSE factor * f[k - 1]]
           P == {k \in 0 .. n : f[k] \in Nat}
<1>0. \E g : g = [k \in 0 .. n |-> IF k = 0 THEN 1 ELSE factor * g[k - 1]]
  BY PowDefined
<1>1. f = [k \in 0 .. n |-> IF k = 0 THEN 1 ELSE factor * f[k - 1]]
  BY <1>0, Zenon
<1>2. Pow(factor, n) = f[n]
  BY DEF Pow
<1> HIDE DEF f
<1>3. 0 \in P
  BY <1>1
<1>4. ASSUME NEW k \in 1 .. n, k - 1 \in P PROVE k \in P
  <2>1. k \in 0 .. n /\ k # 0 /\ f[k - 1] \in Nat
    BY <1>4
  <2>2. f[k] = factor * f[k - 1]
    BY <1>1, <2>1
  <2>3. PICK p \in Nat : p = f[k - 1]
    BY <2>1
  <2>4. factor * p \in Nat
    OBVIOUS
  <2> QED
    BY <2>1, <2>2, <2>3, <2>4
<1>5. n \in P
  <2>1. n \in 0 .. n
    OBVIOUS
  <2> HIDE DEF P
  <2> QED
    BY <1>3, <1>4, <2>1, Upward
<1> QED
  BY <1>2, <1>5

\* A delay without jitter that starts within the maximum stays within it.
LEMMA DelayCapped ==
  ASSUME SessionConnectAssumption, NEW g, NEW n \in Nat,
         g.initialDelay \in Nat, g.maxDelay \in Nat, g.multiplier \in Nat,
         NEW delay \in NextBackoffDelays(g, n)
  PROVE  /\ delay \in Int
         /\ ~ g.jitter /\ g.initialDelay <= g.maxDelay => delay <= g.maxDelay
<1>1. CASE n <= 1
  <2>1. delay = g.initialDelay BY <1>1 DEF NextBackoffDelays
  <2> QED BY <2>1
<1>2. CASE ~(n <= 1)
  <2> DEFINE grown == g.initialDelay * Pow(g.multiplier, n - 1)
             capped == IF grown > g.maxDelay THEN g.maxDelay ELSE grown
  <2>1. Pow(g.multiplier, n - 1) \in Nat
    <3>1. n - 1 \in Nat BY <1>2
    <3> QED BY <3>1, PowIsNat
  <2>2. PICK power \in Nat : power = Pow(g.multiplier, n - 1) BY <2>1
  <2>3. grown \in Nat
    <3>1. g.initialDelay * power \in Nat OBVIOUS
    <3> QED BY <2>2, <3>1
  <2>4. capped \in Nat /\ capped <= g.maxDelay
    <3> HIDE DEF grown
    <3> QED BY <2>3
  <2>5. delay \in IF g.jitter THEN {(capped * f) \div 100 : f \in JitterPercent} ELSE {capped}
    BY <1>2 DEF NextBackoffDelays
  <2> HIDE DEF capped
  <2>6. CASE g.jitter
    <3>1. PICK f \in JitterPercent : delay = (capped * f) \div 100 BY <2>5, <2>6
    <3>2. f \in 50 .. 149 BY DEF SessionConnectAssumption
    <3>3. PICK p \in Int : p = capped * f BY <2>4, <3>2
    <3>4. p \div 100 \in Int OBVIOUS
    <3> QED BY <2>6, <3>1, <3>3, <3>4
  <2>7. CASE ~ g.jitter BY <2>4, <2>5, <2>7
  <2> QED BY <2>6, <2>7
<1> QED BY <1>1, <1>2

\* What the defaults leave: delays of a natural number of milliseconds and a
\* factor that is a natural number.
LEMMA DefaultsFilled ==
  ASSUME SessionConnectAssumption, NEW g \in Ghosts, NEW p
  PROVE  LET h == WithDefaults([g EXCEPT !.peerIdentity = p])
         IN  /\ h.maxConnectAttempts \in Nat
             /\ h.initialDelay \in Nat /\ h.maxDelay \in Nat
             /\ h.multiplier \in Nat
<1> DEFINE h == WithDefaults([g EXCEPT !.peerIdentity = p])
<1>1. g \in AnyGhost BY DEF SessionConnectAssumption
<1>2. /\ h.maxConnectAttempts = g.maxConnectAttempts
      /\ h.initialDelay = Or(g.initialDelay, 250)
      /\ h.maxDelay = Or(g.maxDelay, 5000)
      /\ h.multiplier = Or(g.multiplier, 2)
  BY <1>1 DEF WithDefaults, AnyGhost
<1>3. /\ g.maxConnectAttempts \in Nat
      /\ Or(g.initialDelay, 250) \in Nat /\ Or(g.maxDelay, 5000) \in Nat
      /\ Or(g.multiplier, 2) \in Nat
  BY <1>1 DEF AnyGhost, Or
<1> QED BY <1>2, <1>3

\* The configurations in play.
LEMMA InPlay ==
  ASSUME Configured
  PROVE  /\ mirage # {} => mirage = {M} /\ ValidateServerTransport(M.transport)
         /\ ghost # {} => /\ ghost = {G} /\ mirage # {}
                          /\ G.maxConnectAttempts \in Nat
                          /\ G.initialDelay \in Nat /\ G.maxDelay \in Nat
                          /\ G.multiplier \in Nat
<1>1. ASSUME mirage # {} PROVE mirage = {M} /\ ValidateServerTransport(M.transport)
  <2>1. PICK m \in mirage : mirage = {m} /\ ValidateServerTransport(m.transport)
    BY <1>1 DEF Configured
  <2>2. M = m BY <2>1 DEF M
  <2> QED BY <2>1, <2>2
<1>2. ASSUME ghost # {}
      PROVE  /\ ghost = {G} /\ mirage # {}
             /\ G.maxConnectAttempts \in Nat
             /\ G.initialDelay \in Nat /\ G.maxDelay \in Nat
             /\ G.multiplier \in Nat
  <2>1. PICK g \in ghost : /\ ghost = {g}
                           /\ g.maxConnectAttempts \in Nat
                           /\ g.initialDelay \in Nat /\ g.maxDelay \in Nat
                           /\ g.multiplier \in Nat
    BY <1>2 DEF Configured
  <2>2. G = g BY <2>1 DEF G
  <2> QED BY <1>2, <2>1, <2>2 DEF Configured
<1> QED BY <1>1, <1>2

-----------------------------------------------------------------------------
LEMMA StartMirageStep ==
  ASSUME ConnectInv, NEW m, StartMirage(m)
  PROVE  ConnectInv'
<1>1. /\ mirage = {} /\ mirage' = {m} /\ ValidateServerTransport(m.transport)
      /\ UNCHANGED <<ghost, attempt, client, connHandler, auth, verdict, registered, lastDelay>>
  BY DEF StartMirage
<1>2. ghost = {} /\ client = "idle" /\ connHandler = "none" /\ registered = {}
  BY <1>1 DEF ConnectInv, Configured
<1>3. Configured' BY <1>1, <1>2 DEF ConnectInv, Configured
<1> QED BY <1>1, <1>2, <1>3 DEF ConnectInv, IdentityBound, BackoffAsConfigured

LEMMA StartConnectingStep ==
  ASSUME SessionConnectAssumption, ConnectInv,
         NEW g \in Ghosts, StartConnecting(g)
  PROVE  ConnectInv'
<1> DEFINE p == IF TrimName[g.peerIdentity] = Blank THEN g.ghostID ELSE g.peerIdentity
           h == WithDefaults([g EXCEPT !.peerIdentity = p])
<1>1. ghost' = {h} BY DEF StartConnecting
<1>2. /\ h.maxConnectAttempts \in Nat
      /\ h.initialDelay \in Nat /\ h.maxDelay \in Nat
      /\ h.multiplier \in Nat
  BY DefaultsFilled
<1> HIDE DEF p, h
<1>3. /\ mirage # {} /\ client = "idle" /\ attempt' = 1 /\ client' = "dialling"
      /\ UNCHANGED <<mirage, connHandler, auth, verdict, registered, lastDelay>>
  BY DEF StartConnecting
<1>4. ghost = {} /\ connHandler = "none" /\ registered = {} /\ lastDelay = 0
  BY <1>3 DEF ConnectInv, Configured
<1>5. Configured' BY <1>1, <1>2, <1>3, <1>4 DEF ConnectInv, Configured
<1>6. G' = h BY <1>1 DEF G
<1>7. BackoffAsConfigured' BY <1>2, <1>3, <1>4, <1>6 DEF BackoffAsConfigured
<1>8. IdentityBound' BY <1>3, <1>4 DEF IdentityBound
<1> QED BY <1>3, <1>4, <1>5, <1>7, <1>8 DEF ConnectInv

\* The steps of the client that leave the registry alone.
LEMMA ClientSteps ==
  ASSUME ConnectInv, DialMirage \/ DialFails \/ ReadRegistrationAck \/ RegisterFails
  PROVE  ConnectInv'
<1>1. /\ client \in {"dialling", "registering"}
      /\ client' \in {"backoff", "failed", "registering", "connected"}
      /\ client' = "backoff" => ShouldRetry
      /\ client' = "failed" => ~ ShouldRetry \/ verdict \notin {"none", "accepted"}
      /\ UNCHANGED <<mirage, ghost, attempt, registered, lastDelay>>
      /\ \/ UNCHANGED <<connHandler, auth, verdict>>
         \/ connHandler' = "authenticating" /\ verdict' = "none" /\ client' # "failed"
  <2>1. CASE DialMirage BY <2>1 DEF DialMirage
  <2>2. CASE DialFails \/ RegisterFails BY <2>2 DEF DialFails, RegisterFails, AttemptFails
  <2>3. CASE ReadRegistrationAck BY <2>3 DEF ReadRegistrationAck
  <2> QED BY <2>1, <2>2, <2>3
<1>2. ghost # {} BY <1>1 DEF ConnectInv, Configured
<1>3. Configured' BY <1>1, <1>2 DEF ConnectInv, Configured
<1>4. M' = M /\ G' = G BY <1>1 DEF M, G
<1>5. (connHandler = "reading" => Authenticated)'
  BY <1>1, <1>4 DEF ConnectInv, Authenticated, HandshakeSucceeds
<1>6. (client = "backoff" => ShouldRetry)' BY <1>1, <1>4 DEF ShouldRetry
<1>7. /\ (verdict \in {"none", "accepted", "rejected"})'
      /\ (verdict = "rejected" => connHandler = "closed")'
  BY <1>1 DEF ConnectInv
<1>8. IdentityBound' BY <1>1, <1>4 DEF ConnectInv, IdentityBound
<1>9. client' = "failed" => attempt = G.maxConnectAttempts \/ verdict' = "rejected"
  <2>1. G.maxConnectAttempts \in Nat /\ attempt \in Nat
    BY <1>2, InPlay DEF ConnectInv, Configured
  <2>2. G.maxConnectAttempts > 0 => attempt <= G.maxConnectAttempts
    BY <1>2 DEF ConnectInv, BackoffAsConfigured
  <2>3. ~ ShouldRetry => attempt = G.maxConnectAttempts BY <2>1, <2>2 DEF ShouldRetry
  <2>4. verdict \in {"none", "accepted", "rejected"} BY DEF ConnectInv
  <2> QED BY <1>1, <2>3, <2>4
<1>10. BackoffAsConfigured' BY <1>1, <1>2, <1>4, <1>9 DEF ConnectInv, BackoffAsConfigured
<1> QED BY <1>3, <1>5, <1>6, <1>7, <1>8, <1>10 DEF ConnectInv

LEMMA SleepBackoffStep ==
  ASSUME SessionConnectAssumption, ConnectInv, SleepBackoff
  PROVE  ConnectInv'
<1>1. /\ client = "backoff" /\ attempt < MaxAttempt
      /\ lastDelay' \in NextBackoffDelays(G, attempt)
      /\ attempt' = attempt + 1 /\ client' = "dialling"
      /\ UNCHANGED <<mirage, ghost, connHandler, auth, verdict, registered>>
  BY DEF SleepBackoff
<1>2. ghost # {} /\ attempt \in Nat BY <1>1 DEF ConnectInv, Configured
<1>3. /\ G.maxConnectAttempts \in Nat
      /\ G.initialDelay \in Nat /\ G.maxDelay \in Nat
      /\ G.multiplier \in Nat
  BY <1>2, InPlay DEF ConnectInv
<1>4. /\ lastDelay' \in Int
      /\ ~ G.jitter /\ G.initialDelay <= G.maxDelay => lastDelay' <= G.maxDelay
  <2>1. PICK delay \in NextBackoffDelays(G, attempt) : lastDelay' = delay BY <1>1
  <2> QED BY <1>2, <1>3, <2>1, DelayCapped
<1>5. /\ (verdict \in {"none", "accepted", "rejected"})'
      /\ (verdict = "rejected" => connHandler = "closed")'
  BY <1>1 DEF ConnectInv
<1>6. M' = M /\ G' = G BY <1>1 DEF M, G
<1>7. G.maxConnectAttempts > 0 => attempt' <= G.maxConnectAttempts
  <2>1. G.maxConnectAttempts <= 0 \/ attempt < G.maxConnectAttempts
    BY <1>1 DEF ConnectInv, ShouldRetry
  <2> QED BY <1>1, <1>2, <1>3, <2>1
<1>8. Configured'
  <2>1. attempt' \in Nat BY <1>1, <1>2
  <2>2. Configured BY DEF ConnectInv
  <2> QED BY <1>1, <1>2, <1>4, <2>1, <2>2 DEF Configured
<1>9. BackoffAsConfigured' BY <1>1, <1>4, <1>6, <1>7 DEF BackoffAsConfigured
<1>10. (connHandler = "reading" => Authenticated)'
  BY <1>1, <1>6 DEF ConnectInv, Authenticated, HandshakeSucceeds
<1>11. IdentityBound' BY <1>1, <1>6 DEF ConnectInv, IdentityBound
<1> QED BY <1>1, <1>5, <1>8, <1>9, <1>10, <1>11 DEF ConnectInv

\* The steps of handleConn but the registration itself.
LEMMA HandlerSteps ==
  ASSUME ConnectInv, AuthenticateConn \/ HandlerGivesUp
  PROVE  ConnectInv'
<1>1. /\ connHandler # "none" /\ connHandler' \in {"reading", "closed"}
      /\ UNCHANGED <<mirage, ghost, attempt, client, registered, lastDelay>>
  BY DEF AuthenticateConn, HandlerGivesUp
<1>2. M' = M /\ G' = G BY <1>1 DEF M, G
<1>3. Configured' BY <1>1 DEF ConnectInv, Configured
<1>4. (connHandler = "reading" => Authenticated)'
  <2> SUFFICES ASSUME connHandler' = "reading" PROVE Authenticated'
    OBVIOUS
  <2>1. AuthenticateConn BY DEF HandlerGivesUp
  <2> QED BY <1>2, <2>1, <1>1 DEF AuthenticateConn, Authenticated, HandshakeSucceeds
<1>5. (client = "backoff" => ShouldRetry)' BY <1>1, <1>2 DEF ConnectInv, ShouldRetry
<1>6. IdentityBound' BY <1>1, <1>2 DEF ConnectInv, IdentityBound
<1>7. /\ verdict' = verdict /\ verdict \in {"none", "accepted", "rejected"}
      /\ verdict = "rejected" => connHandler' = "closed"
  BY DEF ConnectInv, AuthenticateConn, HandlerGivesUp
<1>8. BackoffAsConfigured' BY <1>1, <1>2, <1>7 DEF ConnectInv, BackoffAsConfigured
<1> QED BY <1>3, <1>4, <1>5, <1>6, <1>7, <1>8 DEF ConnectInv

\* A registration that is accepted is bound to the certificate that was
\* verified before it was read.
LEMMA HandleRegistrationStep ==
  ASSUME ConnectInv, HandleRegistration
  PROVE  ConnectInv'
<1>1. /\ connHandler = "reading" /\ connHandler' \in {"registered", "closed"}
      /\ verdict' \in {"accepted", "rejected"} /\ (verdict' = "rejected" => connHandler' = "closed")
      /\ UNCHANGED <<mirage, ghost, attempt, client, auth, lastDelay>>
  BY DEF HandleRegistration
<1>2. M' = M /\ G' = G BY <1>1 DEF M, G
<1>3. ghost # {} /\ Authenticated BY <1>1 DEF ConnectInv, Configured
<1>4. ValidateServerTransport(M.transport) BY <1>3, InPlay DEF ConnectInv
<1>5. Configured' BY <1>1, <1>3 DEF ConnectInv, Configured
<1>6. BackoffAsConfigured'
  <2>1. verdict # "rejected" BY <1>1 DEF ConnectInv
  <2> QED BY <1>1, <1>2, <2>1 DEF ConnectInv, BackoffAsConfigured
<1>7. CASE registered' = registered
  <2>1. IdentityBound' BY <1>1, <1>2, <1>7 DEF ConnectInv, IdentityBound
  <2>2. BackoffAsConfigured' BY <1>6
  <2> QED BY <1>1, <1>2, <1>5, <2>1, <2>2 DEF ConnectInv, ShouldRetry
<1>8. CASE BindingAccepts(M, auth, G) /\ registered' = registered \cup {G.ghostID}
  <2>1. M.requireIdentityBinding /\ AsksForCertificate(M.transport) =>
          /\ G.certificate.trusted
          /\ registered' = {PeerIdentityFromCert(G.certificate)}
    <3> SUFFICES ASSUME M.requireIdentityBinding, AsksForCertificate(M.transport)
                 PROVE  /\ G.certificate.trusted
                        /\ registered' = {PeerIdentityFromCert(G.certificate)}
      OBVIOUS
    <3>1. M.transport.enabled
      BY <1>4 DEF AsksForCertificate, ValidateServerTransport, ValidCommon
    <3>2. /\ G.certificate.trusted
          /\ auth = PeerIdentityFromCert(G.certificate) /\ auth # Blank
      BY <1>3, <3>1 DEF Authenticated, HandshakeSucceeds
    <3>3. auth = G.ghostID BY <1>8, <3>2 DEF BindingAccepts
    <3>4. registered \subseteq {PeerIdentityFromCert(G.certificate)}
      BY DEF ConnectInv, IdentityBound
    <3> QED BY <1>8, <3>2, <3>3, <3>4
  <2>2. M.transport.mode = "production" => G.transport.enabled /\ G.transport.mutual
    BY <1>3, <1>4 DEF Authenticated, HandshakeSucceeds, AsksForCertificate,
                      ValidateServerTransport, ValidCommon
  <2>3. IdentityBound' BY <1>1, <1>2, <2>1, <2>2 DEF IdentityBound
  <2>4. BackoffAsConfigured' BY <1>6
  <2> QED BY <1>1, <1>2, <1>5, <2>3, <2>4 DEF ConnectInv, ShouldRetry
<1> QED BY <1>7, <1>8 DEF HandleRegistration

-----------------------------------------------------------------------------
LEMMA ConnectStarts == ConnectInit => ConnectInv
BY DEF ConnectInit, ConnectInv, Configured, IdentityBound, BackoffAsConfigured

LEMMA ConnectStepHolds ==
  ASSUME SessionConnectAssumption, ConnectInv, [ConnectNext]_connectVars
  PROVE  ConnectInv'
<1>1. CASE UNCHANGED connectVars
  <2> USE <1>1 DEF connectVars
  <2>1. M' = M /\ G' = G BY DEF M, G
  <2>2. Configured' BY DEF ConnectInv, Configured
  <2>3. (connHandler = "reading" => Authenticated)'
    BY <2>1 DEF ConnectInv, Authenticated, HandshakeSucceeds
  <2>4. (client = "backoff" => ShouldRetry)' BY <2>1 DEF ConnectInv, ShouldRetry
  <2>5. IdentityBound' /\ BackoffAsConfigured'
    BY <2>1 DEF ConnectInv, IdentityBound, BackoffAsConfigured
  <2> QED BY <2>2, <2>3, <2>4, <2>5 DEF ConnectInv
<1>2. CASE ConnectNext
  BY <1>2, StartMirageStep, StartConnectingStep, ClientSteps, SleepBackoffStep, HandlerSteps,
     HandleRegistrationStep DEF ConnectNext
<1> QED BY <1>1, <1>2

LEMMA ConnectInvariant == ConnectSpec => []ConnectInv
<1>1. ConnectInv /\ [ConnectNext]_connectVars => ConnectInv'
  BY ConnectStepHolds, SessionConnectAssumption
<1> QED BY <1>1, ConnectStarts, PTL DEF ConnectSpec

\* Whatever the two configurations are, and wherever attempts fail, a Mirage
\* that asks for certificates and binds identities registers only the name in a
\* certificate it has verified, and one in production takes no registration
\* over a connection without mutual TLS (authenticateConn and
\* handleRegistration).
THEOREM RegisteredAreAuthenticated == ConnectSpec => []IdentityBound
<1>1. ConnectInv => IdentityBound BY DEF ConnectInv
<1> QED BY <1>1, ConnectInvariant, PTL

\* For every backoff policy: without jitter, and from a first delay within the
\* maximum, no delay exceeds the maximum; a Ghost that may try n times tries at
\* most n times, and gives up only after the n-th or when it was rejected
\* (NextBackoffDelay and ConnectAndRegister).
THEOREM BackoffKeepsConfig == ConnectSpec => []BackoffAsConfigured
<1>1. ConnectInv => BackoffAsConfigured BY DEF ConnectInv
<1> QED BY <1>1, ConnectInvariant, PTL

-----------------------------------------------------------------------------
(***************************************************************************)
(* The way of an issue to a stored intent.                                 *)
(***************************************************************************)

\* The commands of an issue carry its intent id and their position.
LEMMA CommandsOfIssue ==
  ASSUME NEW issue
  PROVE  \A k \in DOMAIN NormalizeIssueToCommands(issue) :
           CommandOf(NormalizeIssueToCommands(issue)[k], issue.intent, k)
<1>1. ASSUME NEW k, NEW to, NEW seed, NEW operation, NEW blocking
      PROVE  CommandOf(PlannedCommand(issue.intent, k, to, seed, operation, blocking),
                       issue.intent, k)
  BY DEF CommandOf, PlannedCommand
<1>2. CASE issue.plan # <<>>
  <2>1. NormalizeIssueToCommands(issue) = PlanCommandsFromIssue(issue)
    BY <1>2 DEF NormalizeIssueToCommands
  <2> QED BY <1>1, <2>1 DEF PlanCommandsFromIssue
<1>3. CASE issue.plan = <<>>
  <2>1. NormalizeIssueToCommands(issue) = <<LegacyCommand(issue)>>
    BY <1>3 DEF NormalizeIssueToCommands
  <2>2. CommandOf(LegacyCommand(issue), issue.intent, 1) BY <1>1 DEF LegacyCommand
  <2> QED BY <2>1, <2>2
<1> QED BY <1>2, <1>3

\* An intent that is stored joins or replaces one; the others stay.
LEMMA StoreStep ==
  ASSUME IngestInv, NEW issue, StoreIntent(issue)
  PROVE  /\ DOMAIN desired' = DOMAIN desired \cup {issue.intent}
         /\ \A t \in DOMAIN desired' : \A k \in DOMAIN desired'[t].commands :
              CommandOf(desired'[t].commands[k], t, k)
         /\ EventFindsOwner'
<1> DEFINE commands == NormalizeIssueToCommands(issue)
           stored == [commands |-> commands, seeds |-> SeedDependencies(commands)]
<1>1. desired' = [i \in DOMAIN desired \cup {issue.intent} |->
                    IF i = issue.intent THEN stored ELSE desired[i]]
  BY DEF StoreIntent
<1>2. stored.commands = commands OBVIOUS
<1> HIDE DEF stored
<1>3. DOMAIN desired' = DOMAIN desired \cup {issue.intent} BY <1>1
<1>4. ASSUME NEW t \in DOMAIN desired', NEW k \in DOMAIN desired'[t].commands
      PROVE  CommandOf(desired'[t].commands[k], t, k)
  <2>1. CASE t = issue.intent
    <3>1. desired'[t].commands = commands BY <1>1, <1>2, <2>1
    <3> QED BY <2>1, <3>1, CommandsOfIssue
  <2>2. CASE t # issue.intent
    <3>1. t \in DOMAIN desired /\ desired'[t] = desired[t] BY <1>1, <1>3, <2>2
    <3> QED BY <3>1 DEF IngestInv
  <2> QED BY <2>1, <2>2
<1>5. EventFindsOwner'
  <2>1. lastEvent'.owners = {} BY DEF StoreIntent, NoEvent
  <2> QED BY <2>1 DEF EventFindsOwner
<1> QED BY <1>3, <1>4, <1>5

\* An event that is attributed, to whichever owner of its command id.
LEMMA AttributeStep ==
  ASSUME IngestInv, NEW i \in DOMAIN desired, NEW k \in DOMAIN desired[i].commands,
         AttributeEvent(i, k)
  PROVE  EventFindsOwner'
<1>1. PICK o \in OwnersOf(desired[i].commands[k].id) :
        lastEvent' = [command |-> <<i, k>>, owners |-> {o}]
  BY DEF AttributeEvent
<1>2. PICK l \in DOMAIN desired[o].commands :
        o \in DOMAIN desired /\ desired[o].commands[l].id = desired[i].commands[k].id
  BY <1>1 DEF OwnersOf
<1>3. PlanCommandID(o, l) = PlanCommandID(i, k) BY <1>2 DEF IngestInv, CommandOf
<1>4. DotText[TrimText[o]] = DotText[TrimText[i]] BY <1>3 DEF PlanCommandID, SanitizeText
<1>5. lastEvent'.owners = {o} /\ lastEvent'.command[1] = i BY <1>1
<1> QED BY <1>4, <1>5 DEF EventFindsOwner

LEMMA IngestStarts == IngestInit => IngestInv
BY DEF IngestInit, IngestInv, EventFindsOwner, NoEvent

LEMMA IngestStep == IngestInv /\ [IngestNext]_ingestVars => IngestInv'
<1> SUFFICES ASSUME IngestInv, [IngestNext]_ingestVars PROVE IngestInv'
  OBVIOUS
<1>1. ASSUME NEW issue, SubmitInProcess(issue) PROVE IngestInv'
  <2>1. StoreIntent(issue) /\ adminIntents' = adminIntents BY <1>1 DEF SubmitInProcess
  <2>2. \A j \in adminIntents' : FoundIntent(j)'
    BY <2>1, StoreStep DEF IngestInv, FoundIntent
  <2> QED BY <2>1, <2>2, StoreStep DEF IngestInv
<1>2. ASSUME NEW issue, SubmitByAdmin(issue) PROVE IngestInv'
  <2> DEFINE mapped == MapAdminIssue(issue)
  <2>1. StoreIntent(mapped) /\ adminIntents' = adminIntents \cup {issue.intent}
    BY <1>2 DEF SubmitByAdmin
  <2>2. mapped.intent = TrimText[issue.intent] BY DEF MapAdminIssue
  <2> HIDE DEF mapped
  <2>3. \A j \in adminIntents' : FoundIntent(j)'
    BY <2>1, <2>2, StoreStep DEF IngestInv, FoundIntent
  <2> QED BY <2>1, <2>3, StoreStep DEF IngestInv
<1>3. ASSUME NEW i \in DOMAIN desired, NEW k \in DOMAIN desired[i].commands, AttributeEvent(i, k)
      PROVE  IngestInv'
  <2>1. UNCHANGED <<desired, adminIntents>> BY <1>3 DEF AttributeEvent
  <2> QED BY <1>3, <2>1, AttributeStep DEF IngestInv, FoundIntent
<1>4. CASE UNCHANGED ingestVars
  BY <1>4 DEF ingestVars, IngestInv, FoundIntent, EventFindsOwner
<1> QED BY <1>1, <1>2, <1>3, <1>4 DEF IngestNext

LEMMA IngestInvariant == IngestSpec => []IngestInv
BY IngestStarts, IngestStep, PTL DEF IngestSpec

\* However an admin client spells an intent id, and whatever is submitted
\* after it, the intent is found under that spelling with the commands that
\* belong to it (mapAdminIssue and SubmitIssue).
THEOREM SpellingFindsIntent == IngestSpec => []AdminIssueIsFound
<1>1. IngestInv => AdminIssueIsFound
  <2> SUFFICES ASSUME IngestInv, NEW i \in adminIntents
               PROVE  /\ FoundIntent(i)
                      /\ \A k \in DOMAIN desired[TrimText[i]].commands :
                           desired[TrimText[i]].commands[k].intent = TrimText[i]
    BY DEF AdminIssueIsFound
  <2>1. FoundIntent(i) /\ TrimText[i] \in DOMAIN desired BY DEF IngestInv, FoundIntent
  <2>2. \A k \in DOMAIN desired[TrimText[i]].commands :
          CommandOf(desired[TrimText[i]].commands[k], TrimText[i], k)
    BY <2>1 DEF IngestInv
  <2> QED BY <2>1, <2>2 DEF CommandOf
<1> QED BY <1>1, IngestInvariant, PTL

\* A session event is counted for another intent than its own only if blanks
\* and slashes were all that kept the two ids apart
\* (findPlannedCommandByCommandID).
THEOREM EventsFindOwners == IngestSpec => []EventFindsOwner
<1>1. IngestInv => EventFindsOwner BY DEF IngestInv
<1> QED BY <1>1, IngestInvariant, PTL
================================================================================

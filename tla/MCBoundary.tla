------------------------------ MODULE MCBoundary ------------------------------
(***************************************************************************)
(* What stands between the two programs on small instances: frames,        *)
(* payloads, the way to a session, the session and its events, the Ghost   *)
(* process that keeps it, and the way of an issue to a stored intent.  The *)
(* six share nothing, so one run takes them in turn: part says which of    *)
(* them a behaviour is about.  Init, Next, vars and Fairness are           *)
(* EventDelivery's.                                                        *)
(***************************************************************************)
EXTENDS Frame, WireForms, SessionConnect, EventDelivery, IssueIngest, GhostService

-----------------------------------------------------------------------------
(* Frame: lengths around zero, the limit and the width of header_len. *)

F(magic, version, flags, authLen, payloadLen) ==
  [magic |-> magic, version |-> version, flags |-> flags, auth |-> authLen, payload |-> payloadLen]

MCFrames ==
  {F("protocol", "unset", flags, a, p) :
     flags \in {{}, {"auth"}, {"response", "error"}, {"unknown"}},
     a \in {0, 1, 32, 65503, 65504, 65505, 65535, 65536, 65537}, p \in {0, 5, 8, 9}}
  \cup {F("other", "protocol", {}, 0, 1), F("unset", "other", {}, 1, 1)}

-----------------------------------------------------------------------------
(* WireForms: a base message of each kind and all messages that differ     *)
(* from it in at most two fields.                                          *)

HeaderBytes == <<0, 6, 4, 0, 0, 0, 8>>

StringsFor(f) ==
  IF f.mode = "args" THEN {<<>>, <<58>>}
  ELSE IF f.type = TypeString THEN {<<>>, <<Space>>, <<Space, 97>>, HeaderBytes}
  ELSE {0, 1, 16909060}

BaseMessage(kind) ==
  [id \in IdsOf(kind) |->
     LET f == Entry(kind, id)
     IN  CASE f.mode = "args" -> <<>>
           [] f.mode # "args" /\ f.type = TypeString -> <<97>>
           [] OTHER -> 7]

MessagesOf(kind) ==
  UNION {{[BaseMessage(kind) EXCEPT ![i] = v, ![j] = w] :
            v \in StringsFor(Entry(kind, i)), w \in StringsFor(Entry(kind, j))} :
           i, j \in IdsOf(kind)}

MCMessages == [kind \in Kinds |-> MessagesOf(kind)]

MCExtraFields == {[id |-> 900, type |-> TypeBytes, value |-> HeaderBytes]}

-----------------------------------------------------------------------------
(* SessionConnect *)

T(mode, enabled, mutual, skip, files) ==
  [mode |-> mode, enabled |-> enabled, mutual |-> mutual, skipVerify |-> skip,
   cert |-> files, key |-> files, ca |-> files]

Transports ==
  {T("development", FALSE, FALSE, FALSE, FALSE), T("development", TRUE, FALSE, FALSE, TRUE),
   T("development", TRUE, TRUE, FALSE, TRUE), T("production", TRUE, TRUE, FALSE, TRUE),
   T("production", TRUE, FALSE, FALSE, TRUE), T("production", TRUE, TRUE, TRUE, TRUE),
   T("other", TRUE, TRUE, FALSE, TRUE)}

MCMirages == [transport : Transports, requireIdentityBinding : BOOLEAN]

MCTrimName == [n \in {"", "a", "b", "a "} |-> IF n = "a " THEN "a" ELSE n]

Cert(trusted, cn, uri) == [trusted |-> trusted, commonName |-> cn, uri |-> uri, dns |-> ""]

Certs ==
  {Cert(FALSE, "a", ""), Cert(TRUE, "a", "b"), Cert(TRUE, "a ", ""), Cert(TRUE, "", "b"),
   Cert(TRUE, "", "")}

BaseGhost ==
  [transport |-> T("development", FALSE, FALSE, FALSE, FALSE), certificate |-> Cert(FALSE, "a", ""),
   ghostID |-> "a", peerIdentity |-> "", maxConnectAttempts |-> 1,
   initialDelay |-> 0, multiplier |-> 0, maxDelay |-> 0, jitter |-> TRUE]

\* Every transport and identity with one attempt, every backoff without TLS.
MCGhosts ==
  {[BaseGhost EXCEPT !.transport = t, !.certificate = c, !.ghostID = g, !.peerIdentity = p] :
     t \in Transports, c \in Certs, g \in {"a", "a "}, p \in {"", "a", "b"}}
  \cup {[BaseGhost EXCEPT !.maxConnectAttempts = n, !.initialDelay = i, !.maxDelay = x, !.jitter = j] :
          n \in {0, 2}, i \in {0, 3000, 9000}, x \in {0, 4000}, j \in BOOLEAN}

\* A Ghost with the defaults: 250 ms, doubled, 5000 ms, jitter, and no end.
MCDefaultGhosts == {[BaseGhost EXCEPT !.maxConnectAttempts = 0]}

MCNoMessages == [kind \in Kinds |-> {}]

-----------------------------------------------------------------------------
(* IssueIngest: the ids "i/1" and "i.1" meet as command ids. *)

MCTrimText ==
  [t \in {"", "i/1", "i.1", " i.1", "j", "ghost:g", "g", "g ", "seed.flow", "seed.kv"} |->
     CASE t = " i.1" -> "i.1"
       [] t = "g " -> "g"
       [] OTHER -> t]

\* "ghost::seed"
MCJoinText == [p \in (DOMAIN MCTrimText) \X (DOMAIN MCTrimText) |-> p[1] \o "::" \o p[2]]

MCDotText == [t \in DOMAIN MCTrimText |-> CASE t = "i/1" -> "i.1" [] OTHER -> t]

MCStripGhostPrefix == [t \in DOMAIN MCTrimText |-> IF t = "ghost:g" THEN "g" ELSE t]

Step(g, s) == [ghost |-> g, seed |-> s, operation |-> "j", blocking |-> TRUE]

MCIssues ==
  {[intent |-> i, actor |-> "j", scope |-> s, objective |-> "j", seed |-> sd, operation |-> "",
    plan |-> p] :
     i \in {"", "i/1", "i.1", " i.1", "j"}, s \in {"", "g", "ghost:g"}, sd \in {"", "seed.kv"},
     p \in {<<>>, <<Step("g", "seed.flow"), Step("g ", "seed.flow")>>, <<Step("g", "")>>}}

-----------------------------------------------------------------------------
(* GhostService: configurations that are refused, a headless host of       *)
(* children, and the two policies with and without an address.             *)

Config(policy, heartbeat, addressed, adminAddr, cluster, project) ==
  [policy |-> policy, heartbeat |-> heartbeat, addressed |-> addressed, admin |-> adminAddr,
   cluster |-> cluster, project |-> project]

MCServiceConfigs ==
  {Config("other", 1, TRUE, TRUE, TRUE, TRUE), Config("auto", 0, TRUE, TRUE, TRUE, TRUE),
   Config("headless", 1, FALSE, TRUE, TRUE, FALSE), Config("auto", 1, TRUE, FALSE, FALSE, TRUE),
   Config("auto", 1, FALSE, FALSE, FALSE, FALSE), Config("required", 1, FALSE, FALSE, FALSE, FALSE),
   Config("required", 1, TRUE, TRUE, FALSE, FALSE)}

MCNormalizeSuffix == [n \in {"Web", "web", "--"} |-> IF n = "--" THEN "" ELSE "web"]

-----------------------------------------------------------------------------
VARIABLE part

boundaryVars == <<part, frameVars, wireFormVars, connectVars, vars, ingestVars, serviceVars>>

MCInit ==
  /\ part \in {"frame", "wire forms", "connect", "delivery", "ingest", "service"}
  /\ FrameInit /\ WireFormInit /\ ConnectInit /\ Init /\ IngestInit /\ ServiceInit
  /\ part # "service" => cfg = CHOOSE c \in ServiceConfigs : TRUE

FrameStep ==
  /\ part = "frame"
  /\ FrameNext
  /\ UNCHANGED <<part, wireFormVars, connectVars, vars, ingestVars, serviceVars>>

WireFormStep ==
  /\ part = "wire forms"
  /\ WireFormNext
  /\ UNCHANGED <<part, frameVars, connectVars, vars, ingestVars, serviceVars>>

ConnectStep ==
  /\ part = "connect"
  /\ ConnectNext
  /\ UNCHANGED <<part, frameVars, wireFormVars, vars, ingestVars, serviceVars>>

DeliveryStep ==
  /\ part = "delivery"
  /\ Next
  /\ UNCHANGED <<part, frameVars, wireFormVars, connectVars, ingestVars, serviceVars>>

IngestStep ==
  /\ part = "ingest"
  /\ IngestNext
  /\ UNCHANGED <<part, frameVars, wireFormVars, connectVars, vars, serviceVars>>

ServiceStep ==
  /\ part = "service"
  /\ ServiceNext
  /\ UNCHANGED <<part, frameVars, wireFormVars, connectVars, vars, ingestVars>>

MCNext == FrameStep \/ WireFormStep \/ ConnectStep \/ DeliveryStep \/ IngestStep \/ ServiceStep

\* The fairness of EventDelivery and of GhostService.  Where nothing was ever
\* dialled the first asks nothing; a Ghost process always has something to do,
\* so the second is for the behaviours that are about it.
MCSpec ==
  /\ MCInit
  /\ [][MCNext]_boundaryVars
  /\ Fairness
  /\ WF_serviceVars(part = "service" /\ MainNext)
  /\ WF_serviceVars(part = "service" /\ LoopNext)
=============================================================================

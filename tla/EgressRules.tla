------------------------------ MODULE EgressRules ------------------------------
(***************************************************************************)
(* What the egress policy decides: host patterns (shared/hosts.ts), the    *)
(* addresses an agent may reach (shared/cidr.ts), the policy that the      *)
(* orchestrator composes and the proxy parses (egress.ts, policy.ts), the  *)
(* way of one request through the proxy (forward.ts), the swap of a        *)
(* placeholder (policy.ts), and the list of refused targets (refused.ts).  *)
(*                                                                         *)
(* A question is one input of one of these functions. The module answers   *)
(* it as the code does, and the properties answer it again, from what the  *)
(* docs of the code promise. A hostname is a sequence of labels, so the    *)
(* split of the text at its dots is done. A request that needs the DNS is  *)
(* answered in two steps, and the policy and the engine of the proxy may   *)
(* change between them.                                                    *)
(***************************************************************************)
EXTENDS Integers, FiniteSets, Sequences, SequencesExt

CONSTANTS Label,       \* the labels of the hostnames
          MaxTargets   \* MAX_REFUSED_TARGETS

ASSUME TargetsAssumption == MaxTargets \in Nat \ {0}

VARIABLES asked,     \* the question
          given,     \* empty, and then the answer of the code
          inForce,   \* main.ts: the policy of the proxy, and the engine of the interceptor
          captured   \* the policy that the handler of the request has read, or none

rulesVars == <<asked, given, inForce, captured>>

(***************************************************************************)
(* hosts.ts                                                                *)
(***************************************************************************)

DefaultPorts == {80, 443}
Port == {80, 443, 8443}       \* the ports of the questions
NoPort == -1
Literal == <<"1.2.3.4">>      \* an IP literal, which is no hostname

Names(depth) == UNION {[1..n -> Label] : n \in 1..depth} \cup {Literal}

\* splitHostPattern: the optional star, the labels after it, and the optional port.
Pattern == [star : BOOLEAN, labels : Names(2) \cup {<<>>}, port : {NoPort} \cup Port]

\* hostMatches, the comparison of the port: a pattern without one takes the default ports.
PortMatches(port, pattern) ==
  IF pattern.port = NoPort THEN port \in DefaultPorts ELSE pattern.port = port


\* hostMatches: the star stands for exactly one label, and for no part of a literal.
HostMatches(host, port, pattern) ==
  /\ PortMatches(port, pattern)
  /\ host # <<>> /\ pattern.labels # <<>>
  /\ IF ~pattern.star
       THEN host = pattern.labels
       ELSE /\ host # Literal
            /\ IsStrictSuffix(pattern.labels, host)
            /\ Len(host) - Len(pattern.labels) = 1

(***************************************************************************)
(* cidr.ts. An IPv4 address is its two halves of 16 bits, so the values    *)
(* stay in the integers of TLC; an IPv6 address is its eight groups.       *)
(***************************************************************************)

\* V4_BLOCKED: the base, as its first two octets, and the prefix.
V4Blocked == {<<<<10, 0>>, 8>>, <<<<172, 16>>, 12>>, <<<<192, 168>>, 16>>, <<<<169, 254>>, 16>>,
              <<<<127, 0>>, 8>>, <<<<100, 64>>, 10>>, <<<<0, 0>>, 8>>, <<<<192, 0>>, 24>>,
              <<<<198, 18>>, 15>>, <<<<224, 0>>, 4>>, <<<<240, 0>>, 4>>}

High(octets) == octets[1] * 256 + octets[2]

\* inV4Range: the bits under the mask are equal.
InV4Range(v4, base, prefix) ==
  IF prefix <= 16
    THEN v4[1] \div (2^(16 - prefix)) = High(base) \div (2^(16 - prefix))
    ELSE v4[1] = High(base) /\ v4[2] \div (2^(32 - prefix)) = 0

BlockedV4(v4) == \E range \in V4Blocked : InV4Range(v4, range[1], range[2])

NoAddress == <<>>
Zeros(groups, n) == \A i \in 1..n : groups[i] = 0

\* embeddedV4: the mapped, translated, compatible, NAT64 and 6to4 forms.
EmbeddedV4(g) ==
  CASE Zeros(g, 5) /\ g[6] = 65535 -> <<g[7], g[8]>>
    [] Zeros(g, 4) /\ g[5] = 65535 /\ g[6] = 0 -> <<g[7], g[8]>>
    [] Zeros(g, 6) /\ ~(g[7] = 0 /\ g[8] = 0) -> <<g[7], g[8]>>
    [] g[1] = 100 /\ g[2] = 65435 /\ \A i \in 3..6 : g[i] = 0 -> <<g[7], g[8]>>
    [] g[1] = 8194 -> <<g[2], g[3]>>
    [] OTHER -> NoAddress

\* isBlockedAddress: the embedded address decides first, then the ranges of IPv6.
BlockedV6(g) ==
  IF EmbeddedV4(g) # NoAddress THEN BlockedV4(EmbeddedV4(g))
  ELSE \/ Zeros(g, 8)
       \/ g[1] \div 512 = 126            \* fc00::/7
       \/ g[1] \div 64 = 1018            \* fe80::/10
       \/ g[1] \div 256 = 255            \* ff00::/8

IsBlockedAddress(address) == IF Len(address) = 2 THEN BlockedV4(address) ELSE BlockedV6(address)

\* allAddressesAllowed: no answer is no address.
AllAddressesAllowed(answers) ==
  answers # <<>> /\ \A i \in DOMAIN answers : answers[i] = "public"

(***************************************************************************)
(* The policy of one box at the proxy (policy.ts) and a request through it *)
(* (forward.ts). The hosts of a request are two names and two literals,    *)
(* and those of a policy are patterns, with their ports.                   *)
(***************************************************************************)

Api == <<"api", "com">>
Other == <<"other", "com">>
PrivateLiteral == <<"10.0.0.1">>

HostMatchesAny(host, port, patterns) == \E p \in patterns : HostMatches(host, port, p)

\* hostAllowed: an open box reaches every host, on the default ports only.
HostAllowed(q, box) ==
  (box.open /\ q.port \in DefaultPorts) \/ HostMatchesAny(q.host, q.port, box.hosts)

\* isInjectionHost: the policy has a CA whenever it has credentials (composePolicy).
IsInjectionHost(q, policy) == HostMatchesAny(q.host, q.port, policy.secrets)

\* upstreamBoxPolicy: the engine has no box, and reaches the credential hosts only. Its
\* own connections do not go to the engine again.
BoxPolicy(q, policy) ==
  IF q.via = "front" THEN [open |-> policy.open, hosts |-> policy.hosts]
                     ELSE [open |-> FALSE, hosts |-> policy.secrets]
InterceptPort(q, policy) == q.via = "front" /\ policy.engine

\* vetTarget up to the lookup: the profile first, then a literal as it is.
VetBefore(q, policy) ==
  CASE ~HostAllowed(q, BoxPolicy(q, policy)) -> IF q.port \in DefaultPorts THEN "allowlist" ELSE "port"
    [] HostAllowed(q, BoxPolicy(q, policy)) ->
         CASE q.host = PrivateLiteral -> "blocked-address"
           [] q.host = Literal -> "ok"
           [] OTHER -> "lookup"

\* vetTarget after the lookup, which every answer has to pass.
VetAnswers(answers) ==
  IF answers \in {<<>>, <<"failed">>} THEN "dns"
  ELSE IF AllAddressesAllowed(answers) THEN "ok" ELSE "blocked-address"

\* What a handler answers before it vets the target, or "none". The request handler
\* takes plain HTTP with an absolute URI, and keeps credential hosts from it.
RefusedBefore(q, policy) ==
  CASE ~policy.applied -> "no-policy"
    [] policy.applied /\ q.uri = "relative" -> "bad request"
    [] policy.applied /\ q.uri \in {"malformed", "https"} ->
         IF q.verb = "http" THEN "denied" ELSE "bad request"
    [] policy.applied /\ q.uri = "ok" /\ q.via = "front" /\ q.box # "good" -> "proxy-auth"
    [] OTHER -> CASE q.verb = "connect" -> "none"
                  [] q.verb = "http" /\ q.upgrade -> "no upgrade"
                  [] q.verb = "http" /\ ~q.upgrade ->
                       IF InterceptPort(q, policy) /\ IsInjectionHost(q, policy)
                         THEN "plaintext" ELSE "none"

\* What a handler does with a vetted target: the connect handler reads the port of the
\* engine now, and looks for a credential in the policy that it read before the lookup.
Route(q, policy, now) ==
  IF q.verb = "connect" /\ InterceptPort(q, now) /\ IsInjectionHost(q, policy)
    THEN IF q.port = 80 THEN "plaintext" ELSE "engine"
    ELSE "direct"

(***************************************************************************)
(* The swap. A credential names its headers, or none for every header, and *)
(* a header value holds placeholders, bare or inside HTTP Basic.           *)
(***************************************************************************)

Header == {"authorization", "x-key"}

\* swapCredentialValue: a bare placeholder goes first, and Basic is decoded only then.
Holds(value, credential) ==
  \/ credential \in value.bare
  \/ value.basic # {} /\ value.bare = {} /\ credential \in value.basic

\* decideCredentials, for one header: the first credential in policy order that may
\* travel in it and whose placeholder it holds, or 0. The order is that of the numbers.
Swapped(q, header) ==
  LET candidates == {c \in DOMAIN q.credentials :
                       /\ q.credentials[c].here
                       /\ q.credentials[c].headers = {} \/ header \in q.credentials[c].headers
                       /\ Holds(q.values[header], c)}
  IN IF candidates = {} THEN 0 ELSE CHOOSE c \in candidates : \A d \in candidates : c <= d

\* The headers that the function reads: those that a credential of the host names,
\* and every one when a credential names none.
Read(q) ==
  LET here == {c \in DOMAIN q.credentials : q.credentials[c].here}
  IN IF \E c \in here : q.credentials[c].headers = {} THEN Header
     ELSE UNION {q.credentials[c].headers : c \in here}

\* decideCredentials: the credential that each header gets.
DecideCredentials(q) == [h \in Header |-> IF h \in Read(q) THEN Swapped(q, h) ELSE 0]

(***************************************************************************)
(* composePolicy and parsePolicy, for two users with a box each.           *)
(***************************************************************************)

User == {"ann", "bob"}

\* mcpHostPattern: the pattern of a server names the port of its URL, which
\* validMcpServer takes as it is.
McpHostPattern(url) == [host |-> url.host, port |-> url.port]

\* hostPatternProblem: a port that is named is one of 1 to 65535.
GoodPattern(pattern) == pattern.port = NoPort \/ pattern.port \in 1..65535

\* composePolicy: the credentials with a deliverable secret, and for the box of each
\* user the hosts of its profile, of the secrets of its owner and of the MCP servers of
\* its agent set. A secret of a server is delivered also when no box has the server.
ComposePolicy(q) ==
  LET patternOf(r) == IF r.kind = "mcp" THEN McpHostPattern(r.at) ELSE r.at
      stored == {r \in q.rows : r.secret}
  IN [credentials |-> {[owner |-> r.owner, host |-> patternOf(r)] : r \in stored},
      boxes |-> [u \in User |->
                   [open |-> q.open[u],
                    hosts |-> q.hosts[u]
                              \cup {r.at : r \in {s \in stored : s.owner = u /\ s.kind = "key"}}
                              \cup {McpHostPattern(r.at) :
                                       r \in {s \in q.rows : s.owner = u /\ s.kind = "mcp" /\ s.used}}]]]

\* parsePolicy: one bad pattern refuses the whole policy.
ParsePolicy(composed) ==
  /\ \A u \in User : \A p \in composed.boxes[u].hosts : GoodPattern(p)
  /\ \A c \in composed.credentials : GoodPattern(c.host)

(***************************************************************************)
(* RefusedTargets: the list of one box, oldest first.                      *)
(***************************************************************************)

\* record: the target moves to the end, and the oldest one goes at the limit.
RecordOne(list, target) ==
  LET count == IF \E i \in DOMAIN list : list[i].target = target
                 THEN (CHOOSE e \in Range(list) : e.target = target).count ELSE 0
      others == SelectSeq(list, LAMBDA e : e.target # target)
      grown == Append(others, [target |-> target, count |-> count + 1])
  IN IF Len(grown) > MaxTargets THEN Tail(grown) ELSE grown

RecordAll(targets) == FoldLeft(RecordOne, <<>>, targets)

(***************************************************************************)
(* The questions.                                                          *)
(***************************************************************************)

V4Edges == {<<High(r[1]) + d, l>> : r \in V4Blocked, d \in {-1, 0, 1}, l \in {0, 255, 256, 65535}}
           \cup {<<h * 256 + 255, 65535>> : h \in {9, 10, 11, 99, 100, 126, 127, 172, 191, 223, 239, 255}}
           \cup {<<44063, 65535>>, <<44064, 0>>, <<25727, 65535>>, <<25728, 0>>, <<50707, 1>>,
                 <<50708, 0>>, <<2056, 2056>>}
Addresses == V4Edges \cap ((0..65535) \X (0..65535))
Forms == {"v4", "mapped", "translated", "compatible", "nat64", "6to4"}

\* An address as the DNS gives it: plain, or embedded in one of the forms.
Write(form, v4) ==
  CASE form = "v4" -> v4
    [] form = "mapped" -> <<0, 0, 0, 0, 0, 65535, v4[1], v4[2]>>
    [] form = "translated" -> <<0, 0, 0, 0, 65535, 0, v4[1], v4[2]>>
    [] form = "compatible" -> <<0, 0, 0, 0, 0, 0, v4[1], v4[2]>>
    [] form = "nat64" -> <<100, 65435, 0, 0, 0, 0, v4[1], v4[2]>>
    [] form = "6to4" -> <<8194, v4[1], v4[2], 0, 0, 0, 0, 1>>

MatchQuestions == [kind : {"match"}, host : Names(3), port : Port, pattern : Pattern]
AddressQuestions == [kind : {"address"}, form : Forms, v4 : Addresses]
V6Questions == [kind : {"v6"}, first : {1, 8193, 64511, 64512, 65023, 65024, 65151, 65152, 65215,
                                        65216, 65279, 65280, 65535}]
Requests == [kind : {"request"}, verb : {"http", "connect"}, via : {"front", "upstream"},
             uri : {"ok"}, box : {"good"}, upgrade : {FALSE},
             host : {Api, Other, PrivateLiteral, Literal}, port : Port]
BadRequests == [kind : {"request"}, verb : {"http", "connect"}, via : {"front"},
                uri : {"ok", "relative", "malformed", "https"},
                box : {"good", "none", "token of another box"}, upgrade : BOOLEAN,
                host : {Api}, port : {80, 443}]

\* What the proxy holds: the profile of the box, the patterns of the credentials, and
\* whether the engine runs, which is only with credentials, and not at once.
On(host, port) == [star |-> FALSE, labels |-> host, port |-> port]
AllOf(domain) == [star |-> TRUE, labels |-> <<domain>>, port |-> NoPort]
ProfileHosts == {{}, {On(Api, NoPort)}, {On(Api, 443), On(Other, 8443)}, {AllOf("com")},
                 {On(PrivateLiteral, NoPort)}}
SecretHosts == {{}, {On(Api, NoPort)}, {On(Api, 80), On(Other, 443)}, {On(Api, 8443)}, {AllOf("com")}}
Held(opens, hosts) ==
  {p \in [applied : {TRUE}, open : opens, hosts : hosts, secrets : SecretHosts, engine : BOOLEAN] :
     p.engine => p.secrets # {}}
Holdings == Held(BOOLEAN, ProfileHosts)
Pushed == Held({FALSE}, {{}})     \* the policies of a push during a lookup
NoPolicy == [applied |-> FALSE, open |-> FALSE, hosts |-> {}, secrets |-> {}, engine |-> FALSE]
Answers == {<<>>, <<"failed">>, <<"public">>, <<"public", "private">>, <<"private", "public">>}
Values == [bare : SUBSET {1, 2}, basic : SUBSET {1, 2}]
Swaps == [kind : {"swap"},
          credentials : [{1, 2} -> [here : BOOLEAN, headers : {{}, {"authorization"}, {"x-key"}}]],
          values : [Header -> Values]]
AtPort(host, port) == [host |-> host, port |-> port]
Rows == {[kind |-> "key", owner |-> u, at |-> AtPort(h, NoPort), secret |-> TRUE, used |-> TRUE] :
           u \in User, h \in {"k1", "k2"}}
        \cup {[kind |-> "key", owner |-> "ann", at |-> AtPort("k3", NoPort), secret |-> FALSE, used |-> TRUE]}
        \cup {[kind |-> "mcp", owner |-> "ann", at |-> AtPort("m1", 8443), secret |-> TRUE, used |-> b] :
                 b \in BOOLEAN}
        \cup {[kind |-> "mcp", owner |-> "bob", at |-> AtPort("m2", 0), secret |-> b, used |-> ~b] :
                 b \in BOOLEAN}
Composes == [kind : {"compose"}, rows : SUBSET Rows, open : [User -> {FALSE}],
             hosts : [User -> SUBSET {AtPort("own", NoPort)}]]
Records == [kind : {"record"}, targets : UNION {[1..n -> 1..(MaxTargets + 1)] : n \in 0..5}]

RulesInit ==
  /\ asked \in MatchQuestions \cup AddressQuestions \cup V6Questions \cup Requests \cup BadRequests
               \cup Swaps \cup Composes \cup Records
  /\ given = <<>> /\ captured = <<>>
  /\ inForce \in IF asked \in Requests THEN Holdings
                 ELSE IF asked \in BadRequests THEN Held({TRUE}, {{}}) \cup {NoPolicy}
                 ELSE {NoPolicy}

Judges(kind) == asked.kind = kind /\ given = <<>> /\ UNCHANGED <<asked, inForce, captured>>

JudgeMatch == Judges("match") /\ given' = <<HostMatches(asked.host, asked.port, asked.pattern)>>
JudgeAddress ==
  Judges("address") /\ given' = <<IsBlockedAddress(Write(asked.form, asked.v4))>>
JudgeV6 == Judges("v6") /\ given' = <<IsBlockedAddress(<<asked.first, 0, 0, 0, 0, 0, 0, 1>>)>>

\* A request arrives. The handler reads the policy once, and answers at once unless the
\* target is a name that the profile allows.
RequestArrives ==
  /\ asked.kind = "request" /\ given = <<>> /\ captured = <<>>
  /\ captured' = <<inForce>>
  /\ LET refused == RefusedBefore(asked, inForce)
         vetted == VetBefore(asked, inForce)
     IN given' = CASE refused # "none" -> <<refused>>
                   [] refused = "none" /\ vetted = "ok" -> <<Route(asked, inForce, inForce)>>
                   [] refused = "none" /\ vetted = "lookup" -> <<>>
                   [] OTHER -> <<vetted>>
  /\ UNCHANGED <<asked, inForce>>

\* The proxy takes a policy, or its engine starts or stops, while the lookup runs.
ProxyChanges(p) ==
  /\ captured # <<>> /\ given = <<>>
  /\ inForce' = p
  /\ UNCHANGED <<asked, given, captured>>

\* The lookup ends, and the handler goes on with what it read before.
LookupEnds(answers) ==
  /\ captured # <<>> /\ given = <<>>
  /\ given' = <<IF VetAnswers(answers) = "ok" THEN Route(asked, captured[1], inForce)
                                             ELSE VetAnswers(answers), answers>>
  /\ UNCHANGED <<asked, inForce, captured>>

JudgeSwap == Judges("swap") /\ given' = <<DecideCredentials(asked)>>
JudgeCompose == Judges("compose") /\ given' = <<ComposePolicy(asked)>>
JudgeRecord == Judges("record") /\ given' = <<RecordAll(asked.targets)>>

RulesNext == \/ JudgeMatch \/ JudgeAddress \/ JudgeV6 \/ JudgeSwap \/ JudgeCompose \/ JudgeRecord
             \/ RequestArrives \/ \E p \in Pushed : ProxyChanges(p)
             \/ \E answers \in Answers : LookupEnds(answers)

RulesSpec == RulesInit /\ [][RulesNext]_rulesVars

(***************************************************************************)
(* Properties.                                                             *)
(***************************************************************************)

Judged(kind) == asked.kind = kind /\ given # <<>>
Verdict == given[1]

\* The hosts and the ports that the doc of hostMatches says a pattern stands for: itself,
\* or each name with one more label in front, and never a literal by a star.
StandsFor(pattern, host, port) ==
  /\ IF pattern.star THEN host # <<>> /\ host = <<Head(host)>> \o pattern.labels ELSE host = pattern.labels
  /\ pattern.labels # <<>>
  /\ port \in IF pattern.port = NoPort THEN {80, 443} ELSE {pattern.port}

\* A pattern matches exactly what it stands for.
PatternsNameTheirHosts ==
  Judged("match") => Verdict = StandsFor(asked.pattern, asked.host, asked.port)

\* The blocked addresses, as the first and the last address of each range.
BlockedIntervals ==
  {<<<<0, 0>>, <<255, 65535>>>>, <<<<2560, 0>>, <<2815, 65535>>>>,
   <<<<25664, 0>>, <<25727, 65535>>>>, <<<<32512, 0>>, <<32767, 65535>>>>,
   <<<<43518, 0>>, <<43518, 65535>>>>, <<<<44048, 0>>, <<44063, 65535>>>>,
   <<<<49152, 0>>, <<49152, 255>>>>, <<<<49320, 0>>, <<49320, 65535>>>>,
   <<<<50706, 0>>, <<50707, 65535>>>>, <<<<57344, 0>>, <<65535, 65535>>>>}
AtMost(a, b) == a[1] < b[1] \/ (a[1] = b[1] /\ a[2] <= b[2])

\* The bit masks block exactly the intended intervals, in every form that an IPv6
\* address can embed an IPv4 address in.
AddressesAreJudged ==
  /\ Judged("address") =>
       Verdict = (\E i \in BlockedIntervals : AtMost(i[1], asked.v4) /\ AtMost(asked.v4, i[2]))
  /\ Judged("v6") =>
       Verdict = (asked.first \in 64512..65023 \cup 65152..65215 \cup 65280..65535)

\* A connection leaves the proxy only for an identified box whose profile, as the request
\* found it, allows the host on this port, and when every address is public. The engine
\* gets only CONNECTs to a port of a credential other than 80. And no connection goes
\* past an engine that runs to a port of a credential: a CONNECT finds the engine after
\* the lookup, and a plain request before it.
ConnectionsAreVetted ==
  Judged("request") /\ Verdict \in {"direct", "engine"} =>
    LET q == asked
        policy == captured[1]
        front == q.via = "front"
        secret == \E p \in policy.secrets : StandsFor(p, q.host, q.port)
        read == IF q.verb = "connect" THEN inForce ELSE policy
    IN /\ policy.applied /\ q.uri = "ok" /\ (front => q.box = "good")
       /\ \/ \E p \in (IF front THEN policy.hosts ELSE policy.secrets) : StandsFor(p, q.host, q.port)
          \/ front /\ policy.open /\ q.port \in {80, 443}
       /\ q.host = Literal \/ (q.host \in {Api, Other} /\ given[2] = <<"public">>)
       /\ Verdict = "engine" => q.verb = "connect" /\ front /\ secret /\ q.port # 80 /\ inForce.engine
       /\ Verdict = "direct" /\ front /\ secret => ~read.engine

\* A header gets the secret of the first credential of this host that may travel in
\* it and whose placeholder it holds, and every other header stays as it is.
SwapsAreExact ==
  Judged("swap") =>
    \A h \in Header :
      LET usable == {c \in {1, 2} : /\ asked.credentials[c].here
                                    /\ asked.credentials[c].headers \in {{}, {"authorization"}} \/ h = "x-key"
                                    /\ asked.credentials[c].headers \in {{}, {"x-key"}} \/ h = "authorization"
                                    /\ c \in asked.values[h].bare
                                         \/ (asked.values[h].bare = {} /\ c \in asked.values[h].basic)}
      IN Verdict[h] = IF 1 \in usable THEN 1 ELSE IF 2 \in usable THEN 2 ELSE 0

\* The hosts that composePolicy gives a box come from its own profile, the MCP servers of
\* its own agent set and the secrets of its own user, and a key of a user is for a host
\* that his boxes reach. The proxy takes the policy unless it names the port 0, which
\* validMcpServer lets a user save: then it takes the policy of nobody.
PoliciesKeepUsersApart ==
  Judged("compose") =>
    /\ \A u \in User : \A p \in Verdict.boxes[u].hosts :
         \/ p \in asked.hosts[u]
         \/ \E r \in asked.rows : r.owner = u /\ r.at = p /\ r.used /\ (r.kind = "key" => r.secret)
    /\ \A r \in asked.rows : r.kind = "key" /\ r.secret => r.at \in Verdict.boxes[r.owner].hosts
    /\ ParsePolicy(Verdict) = (\A r \in asked.rows : r.at.port # 0)

\* The list of a box holds its most recent distinct targets, and no more.
RefusedListIsRecent ==
  Judged("record") =>
    LET n == Len(asked.targets)
        last(t) == CHOOSE i \in 1..n : asked.targets[i] = t /\ \A j \in (i + 1)..n : asked.targets[j] # t
        distinct == Range(asked.targets)
    IN /\ Len(Verdict) = IF Cardinality(distinct) < MaxTargets THEN Cardinality(distinct) ELSE MaxTargets
       /\ \A i, j \in DOMAIN Verdict : i < j => last(Verdict[i].target) < last(Verdict[j].target)
       /\ \A t \in distinct : (\A i \in DOMAIN Verdict : Verdict[i].target # t)
            => \A i \in DOMAIN Verdict : last(t) < last(Verdict[i].target)

=============================================================================

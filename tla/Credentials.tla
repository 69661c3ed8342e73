----------------------------- MODULE Credentials -----------------------------
(***************************************************************************)
(* Access tokens and admin API keys over a rolling deployment: how a       *)
(* replica loads its keys (internal/domain/auth), signs and verifies       *)
(* tokens (auth/jwt, middleware/auth.go), how logout revokes one           *)
(* (middleware/token_blocklist.go), and the dual admin key.  A replica     *)
(* keeps what it loaded until it is restarted; the operator changes the    *)
(* configuration in between.                                               *)
(***************************************************************************)
EXTENDS Naturals, FiniteSets, Sequences

CONSTANTS
  Replicas,
  Material,   \* the JWT key pairs: a function from 1..n to [priv, pub] key kinds
  KidGiven,   \* the configuration names the key ids
  TTL,        \* lifetime of an access token
  MaxTime,    \* bound: the clock
  MaxFaults,  \* bound: Redis commands that fail
  MaxTokens,  \* bound: distinct tokens
  MaxAtOnce   \* bound: replacements of the JWT pair at once

VARIABLES
  conf,     \* the configuration as the operator left it
  runbook,  \* the phases of the rotations of the admin key and of the JWT pair
  scraper,  \* the admin key the scrapers send
  node,     \* what each replica loaded, cur = 0 while it is down
  tokens,   \* tokens issued
  blocked,  \* token:blocklist:<hash>, with the time the entry expires
  request,  \* the request in flight
  verdict,  \* the outcome of the last request
  now, faults

credVars == <<conf, runbook, scraper, node, tokens, blocked, request, verdict, now, faults>>
requestVars == <<request, verdict>>
deployVars == <<conf, runbook, scraper, node>>

Pairs == DOMAIN Material
-----------------------------------------------------------------------------
(* minRSABits and the three curves; anything else is refused. *)
rsaSigningMethod(kind) == IF kind = "rsa4096" THEN "RS256" ELSE "none"
ecdsaSigningMethod(kind) ==
  IF kind = "p256" THEN "ES256" ELSE IF kind = "p384" THEN "ES384" ELSE "none"
signingMethod(kind) ==
  IF kind \in {"rsa4096", "rsa1024"} THEN rsaSigningMethod(kind) ELSE ecdsaSigningMethod(kind)
ParsePrivateSigningKey(k) == signingMethod(Material[k].priv)
ParsePublicVerifyingKey(k) == signingMethod(Material[k].pub)

(* Both halves parse and agree on the algorithm. *)
ParseKeyPair(k) ==
  /\ ParsePublicVerifyingKey(k) # "none"
  /\ ParsePrivateSigningKey(k) = ParsePublicVerifyingKey(k)

(* The key id of the auth service: the configured one or a fingerprint of   *)
(* the public key; the middleware only ever computes the fingerprint.       *)
ServiceKid(k) == <<IF KidGiven THEN "named" ELSE "print", k>>
Fingerprint(k) == <<"print", k>>

(* Every block of a public key file; one that does not parse fails it. *)
ParsePublicVerifyingKeys(pem) ==
  IF \A i \in DOMAIN pem : ParsePublicVerifyingKey(pem[i]) # "none"
  THEN {[key |-> pem[i], kid |-> Fingerprint(pem[i])] : i \in DOMAIN pem} ELSE {}

(* NewServiceWithKeyConfig: startup fails unless every configured pair parses. *)
NewServiceWithKeyConfig(c) == ParseKeyPair(c.cur) /\ (c.prev # 0 => ParseKeyPair(c.prev))

(* The keys of every file given; of a file that fails, the first block     *)
(* without a key id.  A file whose first block fails too is an error.       *)
parseVerifyingKeys(pems) ==
  LET keys(pem) == IF ParsePublicVerifyingKeys(pem) # {} THEN ParsePublicVerifyingKeys(pem)
                   ELSE {[key |-> k, kid |-> <<"", 0>>] :
                           k \in {x \in {pem[1]} : ParsePublicVerifyingKey(x) # "none"}}
  IN  IF \E pem \in pems : keys(pem) = {} THEN {} ELSE UNION {keys(pem) : pem \in pems}

(* The router gives AuthMiddleware the current public key file alone, not   *)
(* the previous one.  The operator may have appended a further public key.  *)
jwtPublicKey(c) == IF c.extra = 0 THEN <<c.cur>> ELSE <<c.cur, c.extra>>
Middleware(c) == parseVerifyingKeys({jwtPublicKey(c)})

Down == [cur |-> 0, prev |-> 0, mw |-> {}, prim |-> 0, sec |-> 0]
Loaded(c) ==
  IF NewServiceWithKeyConfig(c) /\ Middleware(c) # {}
  THEN [cur |-> c.cur, prev |-> c.prev, mw |-> Middleware(c), prim |-> c.prim, sec |-> c.sec]
  ELSE Down
Up(r) == node[r].cur # 0
-----------------------------------------------------------------------------
(* A token is what was signed: two of the same second are the same string. *)
GenerateToken(r) ==
  /\ Up(r)
  /\ LET t == [key |-> node[r].cur, kid |-> ServiceKid(node[r].cur), exp |-> now + TTL]
     IN  /\ Cardinality(tokens \cup {t}) <= MaxTokens
         /\ tokens' = tokens \cup {t}
  /\ UNCHANGED <<deployVars, blocked, requestVars, now, faults>>

Verifies(t, k) ==
  /\ ParsePrivateSigningKey(t.key) = ParsePublicVerifyingKey(k)
  /\ t.key = k /\ now < t.exp

(* jwt.ValidateToken: the key the kid names first, then the other.          *)
ValidateToken(r, t) == \E k \in {node[r].cur, node[r].prev} \ {0} : Verifies(t, k)

(* The keys whose id matches come first, but all are tried. *)
validateTokenWithKeys(t, keys) == \E k \in keys : Verifies(t, k.key)
-----------------------------------------------------------------------------
NoRequest == [on |-> FALSE, t |-> [key |-> 0, kid |-> <<"", 0>>, exp |-> 0], revoked |-> FALSE]
Refused == [ok |-> FALSE, revoked |-> FALSE, lapsed |-> FALSE]

(* revoked: the token had been revoked before the request came in. *)
AuthMiddleware(r, t) ==
  /\ ~request.on /\ Up(r)
  /\ IF validateTokenWithKeys(t, node[r].mw)
     THEN /\ request' = [on |-> TRUE, t |-> t, revoked |-> t \in DOMAIN blocked]
          /\ UNCHANGED verdict
     ELSE verdict' = Refused /\ UNCHANGED request
  /\ UNCHANGED <<deployVars, tokens, blocked, now, faults>>

Blocklisted(t) == t \in DOMAIN blocked /\ now < blocked[t]

TokenBlocklistMiddleware ==
  /\ request.on /\ request' = NoRequest
  /\ \/ faults < MaxFaults /\ faults' = faults + 1 /\ verdict' = Refused
     \/ Blocklisted(request.t) /\ verdict' = Refused /\ UNCHANGED faults
     \/ /\ ~Blocklisted(request.t) /\ UNCHANGED faults
        /\ verdict' = [ok |-> TRUE, revoked |-> request.revoked,
                       lapsed |-> now >= request.t.exp]
  /\ UNCHANGED <<deployVars, tokens, blocked, now>>

(* Mutated form: the entry is kept for a fixed time, shorter than the token's. *)
BlocklistTokenShort(t) ==
  blocked' = [x \in DOMAIN blocked \cup {t} |->
                IF x = t THEN now + 1 ELSE blocked[x]]

(* ttl is the time left to the token's exp; nothing is stored when it is up. *)
BlocklistToken(t) ==
  IF now < t.exp
  THEN blocked' = [x \in DOMAIN blocked \cup {t} |-> IF x = t THEN t.exp ELSE blocked[x]]
  ELSE UNCHANGED blocked

(* Logout, behind the two middlewares like any other route: the verdict on  *)
(* its own request let it in.  A failed SET is only logged.                 *)
Logout(t) ==
  /\ t \in tokens /\ now < t.exp
  /\ \/ BlocklistToken(t) /\ UNCHANGED faults
     \/ faults < MaxFaults /\ faults' = faults + 1 /\ UNCHANGED blocked
  /\ UNCHANGED <<deployVars, tokens, requestVars, now>>

Tick ==
  /\ now < MaxTime /\ now' = now + 1
  /\ UNCHANGED <<deployVars, tokens, blocked, requestVars, faults>>
-----------------------------------------------------------------------------

AdminAPIKeyMiddleware(r, key) ==
  /\ key # 0
  /\ \/ node[r].prim # 0 /\ key = node[r].prim
     \/ node[r].sec # 0 /\ key = node[r].sec

(* A deployment restarts one replica at a time; the one being restarted is  *)
(* out of rotation until it has loaded.                                     *)
Restart(r) ==
  /\ node' = [node EXCEPT ![r] = Loaded(conf)]
  /\ UNCHANGED <<conf, runbook, scraper, tokens, blocked, requestVars, now, faults>>

AllLoaded == \A r \in Replicas : node[r].prim = conf.prim /\ node[r].sec = conf.sec

(* docs/security/admin-key-rotation.md: stage the new key, let every replica *)
(* load it, move the consumers, promote it.                                  *)
RotateAdminKey ==
  /\ \/ /\ runbook.admin = "start" /\ runbook' = [runbook EXCEPT !.admin = "staged"]
        /\ conf' = [conf EXCEPT !.sec = 2] /\ UNCHANGED scraper
     \/ /\ runbook.admin = "staged" /\ AllLoaded /\ runbook' = [runbook EXCEPT !.admin = "migrated"]
        /\ scraper' = 2 /\ UNCHANGED conf
     \/ /\ runbook.admin = "migrated" /\ runbook' = [runbook EXCEPT !.admin = "promoted"]
        /\ conf' = [conf EXCEPT !.prim = 2, !.sec = 0] /\ UNCHANGED scraper
  /\ UNCHANGED <<node, tokens, blocked, requestVars, now, faults>>

(* The JWT pair is replaced and the old one kept as the previous pair; its  *)
(* public key, or another, may be left in the current public key file.      *)
RotateJWTKey(k, extra) ==
  /\ k \in Pairs \ {conf.cur} /\ runbook.atOnce < MaxAtOnce
  /\ conf' = [conf EXCEPT !.prev = conf.cur, !.cur = k, !.extra = extra]
  /\ runbook' = [runbook EXCEPT !.atOnce = @ + 1]
  /\ UNCHANGED <<scraper, node, tokens, blocked, requestVars, now, faults>>

(* The rotation in steps that the public key file allows: the next public   *)
(* key is appended and every replica loads it, the pair is replaced, and    *)
(* the old public key is removed when every replica has loaded the new pair *)
(* and no token of the old one is alive.                                    *)
AllHaveKeys == \A r \in Replicas : node[r].cur = conf.cur /\ node[r].mw = Middleware(conf)
RotateInSteps(k) ==
  /\ runbook.atOnce = 0
  /\ \/ /\ runbook.jwt = "start" /\ ParseKeyPair(k) /\ k # conf.cur
        /\ runbook' = [runbook EXCEPT !.jwt = "published"] /\ conf' = [conf EXCEPT !.extra = k]
     \/ /\ runbook.jwt = "published" /\ k = conf.extra /\ AllHaveKeys
        /\ runbook' = [runbook EXCEPT !.jwt = "replaced"]
        /\ conf' = [conf EXCEPT !.prev = conf.cur, !.cur = k, !.extra = conf.cur]
     \/ /\ runbook.jwt = "replaced" /\ k = conf.cur /\ AllHaveKeys
        /\ \A t \in tokens : t.key = conf.prev => now >= t.exp
        /\ runbook' = [runbook EXCEPT !.jwt = "done"] /\ conf' = [conf EXCEPT !.extra = 0]
  /\ UNCHANGED <<scraper, node, tokens, blocked, requestVars, now, faults>>

CredInit ==
  /\ conf = [cur |-> 1, prev |-> 0, extra |-> 0, prim |-> 1, sec |-> 0]
  /\ runbook = [admin |-> "start", jwt |-> "start", atOnce |-> 0] /\ scraper = 1
  /\ node = [r \in Replicas |-> Loaded(conf)]
  /\ tokens = {} /\ blocked = [t \in {} |-> 0]
  /\ request = NoRequest /\ verdict = Refused
  /\ now = 0 /\ faults = 0

CredNext ==
  \/ Tick \/ TokenBlocklistMiddleware \/ RotateAdminKey
  \/ \E r \in Replicas : GenerateToken(r) \/ Restart(r)
  \/ \E r \in Replicas, t \in tokens : AuthMiddleware(r, t)
  \/ \E t \in tokens : Logout(t)
  \/ \E k \in Pairs : RotateInSteps(k) \/ \E extra \in (Pairs \ {k}) \cup {0} : RotateJWTKey(k, extra)

CredSpec == CredInit /\ [][CredNext]_credVars
-----------------------------------------------------------------------------
CredTypeOK ==
  /\ conf \in [cur : Pairs, prev : Pairs \cup {0}, extra : Pairs \cup {0}, prim : 1..2, sec : {0, 2}]
  /\ runbook \in [admin : {"start", "staged", "migrated", "promoted"},
                  jwt : {"start", "published", "replaced", "done"}, atOnce : 0..MaxAtOnce]
  /\ scraper \in 1..2
  /\ \A r \in Replicas : Up(r) => ParseKeyPair(node[r].cur) /\ node[r].prim # 0
  /\ \A t \in tokens : ParseKeyPair(t.key) /\ t.exp <= now + TTL
  /\ DOMAIN blocked \subseteq tokens
  /\ now \in 0..MaxTime /\ faults \in 0..MaxFaults

(* Through every phase of the rotation and every order of restarts, a       *)
(* replica that is up accepts the key the scrapers are told to use          *)
(* (AdminAPIKeyMiddleware's "zero-downtime key rotation").                  *)
ScrapeAccepted == \A r \in Replicas : Up(r) => AdminAPIKeyMiddleware(r, scraper)

(* A token that logout has put on the blocklist is not accepted from a      *)
(* request that comes in later, unless its own lifetime ran out between     *)
(* the two middlewares: the entry lives as long as the token.               *)
RevokedRefused == verdict.ok /\ verdict.revoked => verdict.lapsed

(* A replica lets in every token that its own jwt service honours, however  *)
(* the public key file was made up, except tokens of the previous pair,     *)
(* which the router does not hand to the middleware.  A rotation in steps   *)
(* through the public key file refuses no live token at any replica, in     *)
(* whatever order the replicas restart.                                     *)
VerifiersAgree ==
  \A r \in Replicas, t \in tokens :
    Up(r) /\ now < t.exp /\ ~validateTokenWithKeys(t, node[r].mw) =>
      /\ ValidateToken(r, t) => t.key = node[r].prev
      /\ runbook.atOnce > 0
=============================================================================

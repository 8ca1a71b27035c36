------------------------------ MODULE HttpApi ------------------------------
(***************************************************************************)
(* The HTTP endpoints of handlers.go: APIHandler (API-key auth, a stream   *)
(* of commands decoded from the body and executed one by one against the  *)
(* node) and AdminHandler (a password login that issues a signed token,   *)
(* and /admin/api, which checks the token and then runs APIHandler in     *)
(* insecure mode).                                                        *)
(*                                                                         *)
(* The configuration is fixed when the handlers are built, so Init picks  *)
(* any configuration and it never changes.  A request's Authorization     *)
(* header is the list of fields strings.Fields makes of it.  A command is *)
(* abstracted to its method class and whether its params decode; what     *)
(* the node does with it is a nondeterministic outcome.  Requests are     *)
(* served one at a time: concurrent requests share nothing but the node.  *)
(***************************************************************************)
EXTENDS Integers, Sequences, FiniteSets

CONSTANTS
  Keys,         \* non-empty values APIConfig.Key may have
  Passwords,    \* non-empty values AdminConfig.Password may have
  Secrets,      \* non-empty values AdminConfig.Secret may have
  MaxCmds,      \* bound: commands in one request body
  MaxRequests   \* bound: requests served in one behaviour

\* generateSecureAdminToken: securecookie's signed encoding of
\* "token"="authorized" under a secret.
CONSTANT TokenOf(_)

\* Go's empty string: an unset setting, a missing header field or token.
NoValue == ""

ASSUME HttpAssumption ==
  /\ Keys # {} /\ NoValue \notin Keys
  /\ Passwords # {} /\ NoValue \notin Passwords
  /\ Secrets # {} /\ NoValue \notin Secrets
  /\ MaxCmds \in Nat /\ MaxRequests \in Nat

\* APIConfig and AdminConfig; NoValue is an unset key, password or secret.
Configs == [apiKey : Keys \cup {NoValue}, apiInsecure : BOOLEAN,
            adminInsecure : BOOLEAN, password : Passwords \cup {NoValue},
            secret : Secrets \cup {NoValue}]

\* checkSecureAdminToken decodes a token only with the secret it was
\* signed with, and only a non-empty one.
TokenValid(s, t) == s # NoValue /\ t = TokenOf(s)

\* securecookie signs the token with an HMAC of the secret: no API key, no
\* guess a client makes, and not the insecure-mode token, is a valid one.
ASSUME TokenAssumption ==
  \A s \in Secrets : TokenOf(s) \notin Keys \cup {"wrong", "insecure", NoValue}

\* The first field of the header, after strings.ToLower, on the words a
\* client may send.
SchemeWords == {"APIKey", "token", "bearer"}
ToLower(w) == IF w = "APIKey" THEN "apikey" ELSE w

\* A command of the body: whether Decode succeeds, its method class
\* ("params": a method of the switch, "unknown": not in the switch) and
\* whether its params decode (Channels and Info have none to fail).
Cmd == [dec : BOOLEAN, method : {"params", "unknown"}, paramsOK : BOOLEAN]
Undecodable == [dec |-> FALSE, method |-> "unknown", paramsOK |-> FALSE]
Cmds == {Undecodable} \cup
        {c \in Cmd : c.dec /\ (c.method # "params" => c.paramsOK)}
Bodies == UNION {[1 .. n -> Cmds] : n \in 0 .. MaxCmds}

\* Replies that follow a call of s.api, and the ones that do not.
ExecutedReplies == {"result", "empty", "api_error"}
ReplyKinds == ExecutedReplies \cup {"bad_request", "not_found"}

VARIABLES
  cfg,      \* the handlers' configuration
  known,    \* values clients may present: guesses and tokens they obtained
  pc,       \* "idle", or where the current APIHandler.ServeHTTP is
  req,      \* the current request: endpoint, header fields, body
  rest,     \* commands of the body not yet decoded
  replies,  \* reply kinds encoded so far
  executed, \* commands of this request executed by the node (s.api)
  log       \* every answered request

vars == <<cfg, known, pc, req, rest, replies, executed, log>>

\* The request slot between two requests.
NoRequest == [kind |-> "api", hdr |-> <<>>, body |-> <<>>]

Init ==
  /\ cfg \in Configs
  /\ known = {"wrong"} \cup Keys
  /\ pc = "idle"
  /\ req = NoRequest
  /\ rest = <<>>
  /\ replies = <<>>
  /\ executed = 0
  /\ log = <<>>

\* The value a request presents as its credential (second header field).
Cred(hdr) == IF Len(hdr) >= 2 THEN hdr[2] ELSE NoValue

\* The replies that report a call of s.api.
NExec(rs) == Cardinality({k \in DOMAIN rs : rs[k] \in ExecutedReplies})

\* Answer the current request with status st, the node having executed ex
\* of its commands, and go back to idle.
Answer(st, ex) ==
  /\ log' = Append(log, [kind |-> req.kind, cred |-> Cred(req.hdr),
                         status |-> st, token |-> NoValue, ncmds |-> Len(req.body),
                         executed |-> ex, nreplies |-> Len(replies),
                         nexec |-> NExec(replies)])
  /\ pc' = "idle"
  /\ req' = NoRequest
  /\ rest' = <<>>
  /\ replies' = <<>>
  /\ executed' = 0
  /\ UNCHANGED <<cfg, known>>

\* Header values a client may send: no header, a scheme alone, a scheme and
\* a value it knows, or one field too many.
Headers == {<<>>} \cup {<<m>> : m \in SchemeWords}
           \cup {<<m, v>> : m \in SchemeWords, v \in known}
           \cup {<<"APIKey", v, v>> : v \in known}

-----------------------------------------------------------------------------
(* AdminHandler.authHandler: POST /admin/auth with a form password.        *)

\* The answer to a login with password form, ok when it is accepted in
\* secure mode; the token obtained becomes known to clients.
AuthReply(form, ok) ==
  \E genFails \in IF ok THEN BOOLEAN ELSE {FALSE} :
    LET tok == IF cfg.adminInsecure THEN "insecure"
               ELSE IF ok /\ ~genFails THEN TokenOf(cfg.secret) ELSE NoValue
        st  == IF genFails THEN 500
               ELSE IF cfg.adminInsecure \/ ok THEN 200 ELSE 400
    IN /\ log' = Append(log, [kind |-> "auth", cred |-> form, status |-> st,
                              token |-> tok, ncmds |-> 0, executed |-> 0,
                              nreplies |-> 0, nexec |-> 0])
       /\ known' = (known \cup {tok}) \ {NoValue}

\* Mutant: a login is accepted without looking for an unset password.
AuthHandlerEmptyPassword(form) ==
  LET ok == ~cfg.adminInsecure /\ cfg.secret # NoValue /\ form = cfg.password
  IN  AuthReply(form, ok)

\* Insecure mode hands out the token "insecure"; otherwise an unset
\* password or secret is a bad request, and a matching password gets a
\* token signed with the secret unless generateSecureAdminToken fails
\* (Internal Server Error).
AuthHandler(form) ==
  LET ok == /\ ~cfg.adminInsecure
            /\ cfg.password # NoValue /\ cfg.secret # NoValue
            /\ form = cfg.password
  IN  AuthReply(form, ok)

Login ==
  /\ pc = "idle"
  /\ Len(log) < MaxRequests
  /\ \E form \in Passwords \cup {NoValue, "wrong"} : AuthHandler(form)
  /\ UNCHANGED <<cfg, pc, req, rest, replies, executed>>

-----------------------------------------------------------------------------
(* APIHandler.ServeHTTP, reached directly or through /admin/api.           *)

Receive ==
  /\ pc = "idle"
  /\ Len(log) < MaxRequests
  /\ \E kind \in {"api", "admin_api"}, hdr \in Headers, body \in Bodies :
       /\ req' = [kind |-> kind, hdr |-> hdr, body |-> body]
       /\ rest' = body
  /\ pc' = "auth"
  /\ replies' = <<>>
  /\ executed' = 0
  /\ UNCHANGED <<cfg, known, log>>

\* Mutant: the scheme and the key are both required to be wrong to refuse.
CheckAuthAnd(key, insecure, hdr) ==
  \/ insecure
  \/ /\ key # NoValue
     /\ Len(hdr) = 2
     /\ ToLower(hdr[1]) = "apikey" \/ hdr[2] = key

\* APIHandler.checkAuth.
CheckAuth(key, insecure, hdr) ==
  \/ insecure
  \/ /\ key # NoValue
     /\ Len(hdr) = 2
     /\ ToLower(hdr[1]) = "apikey" /\ hdr[2] = key

\* adminSecureTokenAuth, before APIHandler{Insecure: true}.
AdminTokenAuth(hdr) ==
  \/ cfg.adminInsecure
  \/ /\ cfg.secret # NoValue
     /\ Len(hdr) = 2
     /\ ToLower(hdr[1]) = "token" /\ TokenValid(cfg.secret, hdr[2])

\* The endpoint's auth check: checkAuth for /api; adminSecureTokenAuth and
\* then the checkAuth of APIHandler{Insecure: true} for /admin/api.
Authorized(r) ==
  IF r.kind = "api" THEN CheckAuth(cfg.apiKey, cfg.apiInsecure, r.hdr)
  ELSE AdminTokenAuth(r.hdr) /\ CheckAuth(NoValue, TRUE, r.hdr)

Authorize ==
  /\ pc = "auth"
  /\ \/ /\ Authorized(req)
        /\ pc' = "read"
        /\ UNCHANGED <<cfg, known, req, rest, replies, executed, log>>
     \/ ~Authorized(req) /\ Answer(401, executed)

\* ioutil.ReadAll fails (the client went away), or the body is empty.
ReadBody ==
  /\ pc = "read"
  /\ \/ Answer(500, executed)
     \/ req.body = <<>> /\ Answer(400, executed)
     \/ /\ req.body # <<>>
        /\ pc' = "decode"
        /\ UNCHANGED <<cfg, known, req, rest, replies, executed, log>>

\* decoder.Decode returns io.EOF: the encoded replies are written.
DecodeEOF ==
  /\ pc = "decode"
  /\ rest = <<>>
  /\ Answer(200, executed)

\* decoder.Decode fails: Bad Request, whatever was executed before.
DecodeError ==
  /\ pc = "decode"
  /\ rest # <<>>
  /\ ~Head(rest).dec
  /\ Answer(400, executed)

\* One reply is encoded and the decoder moves to the next command.
Reply(r, ex) ==
  /\ replies' = Append(replies, r)
  /\ executed' = ex
  /\ rest' = Tail(rest)
  /\ UNCHANGED <<cfg, known, pc, req, log>>

\* Mutant: a params decoding error does not return before s.api is called.
HandleCommandNoReturn ==
  /\ pc = "decode"
  /\ rest # <<>>
  /\ Head(rest).dec
  /\ LET c == Head(rest) IN
     \/ c.method = "unknown" /\ Reply("not_found", executed)
     \/ c.method = "params" /\ ~c.paramsOK /\ Reply("bad_request", executed + 1)
     \/ /\ c.method # "unknown" /\ c.paramsOK
        /\ \/ \E r \in ExecutedReplies : Reply(r, executed + 1)
           \/ Answer(500, executed + 1)

\* handleAPICommand and encoder.Encode for one decoded command: an unknown
\* method gets ErrMethodNotFound, undecodable params ErrBadRequest, and
\* otherwise s.api executes it and its error, result or empty reply is
\* encoded; a result that cannot be encoded ends the request with 500.
HandleCommand ==
  /\ pc = "decode"
  /\ rest # <<>>
  /\ Head(rest).dec
  /\ LET c == Head(rest) IN
     \/ c.method = "unknown" /\ Reply("not_found", executed)
     \/ c.method = "params" /\ ~c.paramsOK /\ Reply("bad_request", executed)
     \/ /\ c.method # "unknown" /\ c.paramsOK
        /\ \/ \E r \in ExecutedReplies : Reply(r, executed + 1)
           \/ Answer(500, executed + 1)

Serve == Authorize \/ ReadBody \/ DecodeEOF \/ DecodeError \/ HandleCommand

Next == Login \/ Receive \/ Serve

Spec == Init /\ [][Next]_vars

-----------------------------------------------------------------------------
(* Properties                                                              *)

\* No request changes the node without a credential the configuration
\* issued: on /api the configured (non-empty) API key unless insecure; on
\* /admin/api a token that an earlier /admin/auth login obtained with the
\* configured, non-empty, password, unless admin is insecure.  This ties
\* checkAuth, adminSecureTokenAuth and authHandler together across requests.
CredentialRequired ==
  \A i \in 1 .. Len(log) :
    LET e == log[i] IN
    e.executed > 0 =>
      /\ e.kind = "api" =>
           cfg.apiInsecure \/ (cfg.apiKey # NoValue /\ e.cred = cfg.apiKey)
      /\ e.kind = "admin_api" =>
           \/ cfg.adminInsecure
           \/ \E j \in 1 .. i - 1 :
                /\ log[j].kind = "auth" /\ log[j].status = 200
                /\ cfg.password # NoValue /\ log[j].cred = cfg.password
                /\ log[j].token = e.cred

\* A request answered 200 carries one reply per command of its body, in
\* order, and every command the node executed is among them: the replies of
\* handleAPICommand account for what it did.
RepliesMatchCommands ==
  \A i \in 1 .. Len(log) :
    LET e == log[i] IN
    e.kind # "auth" /\ e.status = 200 =>
      /\ e.nreplies = e.ncmds
      /\ e.nexec = e.executed

=============================================================================

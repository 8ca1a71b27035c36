---------------------------- MODULE HttpApiProofs ----------------------------
(***************************************************************************)
(* Proofs about HttpApi for every value of its constants: the credential   *)
(* check of every request that changed the node, and the replies of every  *)
(* request answered 200.                                                   *)
(***************************************************************************)
EXTENDS HttpApi, FiniteSetTheorems, TLAPS

USE HttpAssumption, TokenAssumption

\* Every value a header field may hold: the schemes, the guesses and keys
\* clients start with, and the tokens authHandler can hand out.
HdrValues ==
  SchemeWords \cup Keys \cup {"wrong", "insecure"} \cup {TokenOf(s) : s \in Secrets}

\* An entry of the request log.
Entries ==
  [kind : {"auth", "api", "admin_api"}, cred : HdrValues \cup Passwords \cup {NoValue},
   status : {200, 400, 401, 500}, token : HdrValues \cup {NoValue},
   ncmds : Nat, executed : Nat, nreplies : Nat, nexec : Nat]

TypeOK ==
  /\ cfg \in Configs
  /\ known \subseteq HdrValues
  /\ pc \in {"idle", "auth", "read", "decode"}
  /\ req \in [kind : {"api", "admin_api"}, hdr : Seq(HdrValues), body : Seq(Cmds)]
  /\ rest \in Seq(Cmds)
  /\ replies \in Seq(ReplyKinds)
  /\ executed \in Nat
  /\ log \in Seq(Entries)

\* t was handed out by a successful login with the configured password.
Issued(t) ==
  \E j \in 1 .. Len(log) :
    /\ log[j].kind = "auth" /\ log[j].status = 200
    /\ cfg.password # NoValue /\ log[j].cred = cfg.password
    /\ log[j].token = t

(* Clients know the signed token only once a login with the configured     *)
(* password obtained it: they cannot forge it (TokenAssumption).           *)
TokenKnownIssued ==
  /\ ~cfg.adminInsecure /\ cfg.secret # NoValue /\ TokenOf(cfg.secret) \in known
  => Issued(TokenOf(cfg.secret))

(* The request being served: its credential is one clients knew; past the  *)
(* auth check it is authorized, and on /admin/api in secure mode its token *)
(* was issued; the node executes its commands only while they are decoded, *)
(* and each encoded reply accounts for one command of the body.            *)
RequestInv ==
  /\ pc # "idle" => Cred(req.hdr) \in known \cup {NoValue}
  /\ pc \in {"read", "decode"} => Authorized(req)
  /\ pc \in {"read", "decode"} /\ req.kind = "admin_api" /\ ~cfg.adminInsecure
     => Issued(Cred(req.hdr))
  /\ pc # "decode" => executed = 0
  /\ Len(replies) + Len(rest) = Len(req.body)
  /\ NExec(replies) = executed

(* The inductive invariant of the handlers: what a request in progress has *)
(* established (authorization, issued token, replies counted) and that a   *)
(* signed token is known only after a login issued it, together with the   *)
(* two properties of the answered requests it makes inductive.             *)
IInv ==
  /\ TypeOK /\ TokenKnownIssued /\ RequestInv
  /\ CredentialRequired /\ RepliesMatchCommands

\* CredentialRequired and RepliesMatchCommands for the i-th entry of a log l
\* under configuration c.
CredOK(c, l, i) ==
  l[i].executed > 0 =>
    /\ l[i].kind = "api" =>
         c.apiInsecure \/ (c.apiKey # NoValue /\ l[i].cred = c.apiKey)
    /\ l[i].kind = "admin_api" =>
         \/ c.adminInsecure
         \/ \E j \in 1 .. i - 1 :
              /\ l[j].kind = "auth" /\ l[j].status = 200
              /\ c.password # NoValue /\ l[j].cred = c.password
              /\ l[j].token = l[i].cred
RepliesOK(l, i) ==
  l[i].kind # "auth" /\ l[i].status = 200 =>
    /\ l[i].nreplies = l[i].ncmds
    /\ l[i].nexec = l[i].executed

-----------------------------------------------------------------------------
(* Lemmas about the operators                                              *)

\* No reply yet reports a call of s.api.
LEMMA NExecEmpty == NExec(<<>>) = 0
<1>1. {k \in DOMAIN <<>> : <<>>[k] \in ExecutedReplies} = {}
  OBVIOUS
<1>2. QED
  BY <1>1, FS_EmptySet DEF NExec

\* Encoding one more reply counts it when it reports a call of s.api.
LEMMA NExecAppend ==
  ASSUME NEW rs \in Seq(ReplyKinds), NEW r \in ReplyKinds
  PROVE  /\ NExec(rs) \in Nat
         /\ NExec(Append(rs, r)) =
              IF r \in ExecutedReplies THEN NExec(rs) + 1 ELSE NExec(rs)
<1> DEFINE S == {k \in 1 .. Len(rs) : rs[k] \in ExecutedReplies}
           T == {k \in 1 .. Len(rs) + 1 : Append(rs, r)[k] \in ExecutedReplies}
<1>1. IsFiniteSet(S) /\ Cardinality(S) \in Nat
  <2>1. IsFiniteSet(1 .. Len(rs))
    BY FS_Interval
  <2>2. IsFiniteSet(S)
    BY <2>1, FS_Subset
  <2>3. QED
    BY <2>2, FS_CardinalityType
<1>2. NExec(rs) = Cardinality(S) /\ NExec(Append(rs, r)) = Cardinality(T)
  <2>1. {k \in DOMAIN rs : rs[k] \in ExecutedReplies} = S
    OBVIOUS
  <2>2. {k \in DOMAIN Append(rs, r) : Append(rs, r)[k] \in ExecutedReplies} = T
    OBVIOUS
  <2>3. QED
    BY <2>1, <2>2, Zenon DEF NExec
<1>3. Len(rs) + 1 \notin S
  OBVIOUS
<1>4. CASE r \in ExecutedReplies
  <2>1. T = S \cup {Len(rs) + 1}
    BY <1>4
  <2>2. Cardinality(T) = Cardinality(S) + 1
    BY <1>1, <1>3, <2>1, FS_AddElement
  <2>3. QED
    BY <1>1, <1>2, <1>4, <2>2
<1>5. CASE r \notin ExecutedReplies
  <2>1. T = S
    BY <1>5
  <2>2. QED
    BY <1>1, <1>2, <1>5, <2>1
<1>6. QED
  BY <1>1, <1>2, <1>4, <1>5

\* Appending an entry keeps the earlier entries of the log.
LEMMA AppendLog ==
  ASSUME NEW l \in Seq(Entries), NEW e \in Entries
  PROVE  /\ Append(l, e) \in Seq(Entries)
         /\ Len(Append(l, e)) = Len(l) + 1
         /\ \A i \in 1 .. Len(l) : Append(l, e)[i] = l[i]
         /\ Append(l, e)[Len(l) + 1] = e
OBVIOUS

\* A token issued stays issued when the log grows.
LEMMA IssuedMono ==
  ASSUME TypeOK, NEW e \in Entries, log' = Append(log, e), cfg' = cfg,
         NEW t, Issued(t)
  PROVE  Issued(t)'
<1>1. PICK j \in 1 .. Len(log) :
        /\ log[j].kind = "auth" /\ log[j].status = 200
        /\ cfg.password # NoValue /\ log[j].cred = cfg.password
        /\ log[j].token = t
  BY DEF Issued
<1>2. j \in 1 .. Len(log') /\ log'[j] = log[j]
  BY AppendLog DEF TypeOK
<1>3. QED
  BY <1>1, <1>2 DEF Issued

\* The credential of a header of the request is a header value, or NoValue.
LEMMA CredType ==
  ASSUME NEW h \in Seq(HdrValues)
  PROVE  Cred(h) \in HdrValues \cup {NoValue}
BY DEF Cred

\* The two log properties, entry by entry.
LEMMA LogProps ==
  /\ CredentialRequired <=> \A i \in 1 .. Len(log) : CredOK(cfg, log, i)
  /\ RepliesMatchCommands <=> \A i \in 1 .. Len(log) : RepliesOK(log, i)
  /\ CredentialRequired' <=> \A i \in 1 .. Len(log') : CredOK(cfg', log', i)
  /\ RepliesMatchCommands' <=> \A i \in 1 .. Len(log') : RepliesOK(log', i)
BY Zenon DEF CredentialRequired, RepliesMatchCommands, CredOK, RepliesOK

\* An entry checked before the log grew stays checked.
LEMMA OldEntry ==
  ASSUME NEW c, NEW l \in Seq(Entries), NEW e \in Entries,
         NEW i \in 1 .. Len(l), CredOK(c, l, i), RepliesOK(l, i)
  PROVE  CredOK(c, Append(l, e), i) /\ RepliesOK(Append(l, e), i)
<1>1. \A k \in 1 .. i : Append(l, e)[k] = l[k]
  BY AppendLog
<1>2. CredOK(c, Append(l, e), i)
  BY <1>1 DEF CredOK
<1>3. QED
  BY <1>1, <1>2 DEF RepliesOK

\* A log that grows by an entry satisfying both properties keeps them.
LEMMA LogGrows ==
  ASSUME NEW e \in Entries, log \in Seq(Entries), log' = Append(log, e),
         cfg' = cfg, CredentialRequired, RepliesMatchCommands,
         CredOK(cfg, log', Len(log) + 1), RepliesOK(log', Len(log) + 1)
  PROVE  CredentialRequired' /\ RepliesMatchCommands'
<1>1. Len(log') = Len(log) + 1
  BY AppendLog
<1>2. ASSUME NEW i \in 1 .. Len(log)
      PROVE  CredOK(cfg', log', i) /\ RepliesOK(log', i)
  BY LogProps, OldEntry
<1>3. QED
  BY <1>1, <1>2, LogProps

-----------------------------------------------------------------------------
(* The inductive invariant, action by action                               *)

\* APIHandler answers the request and goes back to idle: the entry logged
\* obeys both properties when only a decoding request can have executed
\* commands and a 200 comes only once the whole body was decoded.
LEMMA AnswerStep ==
  ASSUME IInv, NEW st \in {200, 400, 401, 500}, NEW ex \in Nat, Answer(st, ex),
         ex > 0 => pc = "decode",
         st = 200 => rest = <<>> /\ ex = executed
  PROVE  IInv'
<1> DEFINE e == [kind |-> req.kind, cred |-> Cred(req.hdr),
                 status |-> st, token |-> NoValue, ncmds |-> Len(req.body),
                 executed |-> ex, nreplies |-> Len(replies),
                 nexec |-> NExec(replies)]
<1>1. /\ log' = Append(log, e) /\ pc' = "idle" /\ req' = NoRequest
      /\ rest' = <<>> /\ replies' = <<>> /\ executed' = 0
      /\ cfg' = cfg /\ known' = known
  BY DEF Answer
<1>2. e \in Entries
  <2>1. Cred(req.hdr) \in HdrValues \cup {NoValue}
    BY CredType DEF IInv, TypeOK
  <2>2. NExec(replies) \in Nat /\ Len(replies) \in Nat /\ Len(req.body) \in Nat
    BY DEF IInv, TypeOK, RequestInv
  <2>3. QED
    BY <2>1, <2>2 DEF IInv, TypeOK, Entries
<1>3. TypeOK'
  BY <1>1, <1>2, AppendLog DEF IInv, TypeOK, NoRequest
<1>4. TokenKnownIssued'
  BY <1>1, <1>2, IssuedMono DEF IInv, TokenKnownIssued
<1>5. RequestInv'
  BY <1>1, NExecEmpty DEF RequestInv, NoRequest
<1>6. CredOK(cfg, log', Len(log) + 1)
  <2>1. log'[Len(log) + 1] = e
    BY <1>1, AppendLog DEF IInv, TypeOK
  <2>2. SUFFICES ASSUME ex > 0
                 PROVE  /\ e.kind = "api" =>
                             cfg.apiInsecure \/
                             (cfg.apiKey # NoValue /\ e.cred = cfg.apiKey)
                        /\ e.kind = "admin_api" =>
                             \/ cfg.adminInsecure
                             \/ \E j \in 1 .. Len(log) :
                                  /\ log'[j].kind = "auth"
                                  /\ log'[j].status = 200
                                  /\ cfg.password # NoValue
                                  /\ log'[j].cred = cfg.password
                                  /\ log'[j].token = e.cred
    BY <2>1 DEF CredOK
  <2>3. pc = "decode" /\ Authorized(req)
    BY <2>2 DEF IInv, RequestInv
  <2>4. e.kind = "api" =>
          cfg.apiInsecure \/ (cfg.apiKey # NoValue /\ e.cred = cfg.apiKey)
    BY <2>3 DEF Authorized, CheckAuth, Cred
  <2>5. ASSUME e.kind = "admin_api", ~cfg.adminInsecure
        PROVE  \E j \in 1 .. Len(log) :
                 /\ log'[j].kind = "auth" /\ log'[j].status = 200
                 /\ cfg.password # NoValue /\ log'[j].cred = cfg.password
                 /\ log'[j].token = e.cred
    <3>1. Issued(Cred(req.hdr))
      BY <2>3, <2>5 DEF IInv, RequestInv
    <3>2. \A j \in 1 .. Len(log) : log'[j] = log[j]
      BY <1>1, AppendLog DEF IInv, TypeOK
    <3>3. QED
      BY <3>1, <3>2 DEF Issued
  <2>6. QED
    BY <2>4, <2>5
<1>7. RepliesOK(log', Len(log) + 1)
  <2>1. log'[Len(log) + 1] = e
    BY <1>1, AppendLog DEF IInv, TypeOK
  <2>2. st = 200 => Len(replies) = Len(req.body) /\ NExec(replies) = ex
    BY DEF IInv, RequestInv
  <2>3. QED
    BY <2>1, <2>2 DEF RepliesOK
<1>8. CredentialRequired' /\ RepliesMatchCommands'
  BY <1>1, <1>2, <1>6, <1>7, LogGrows DEF IInv, TypeOK
<1>9. QED
  BY <1>3, <1>4, <1>5, <1>8 DEF IInv

\* The handlers start idle with an empty log; clients know only guesses
\* and keys, never a signed token.
LEMMA InitInv == Init => IInv
<1> SUFFICES ASSUME Init PROVE IInv
  OBVIOUS
<1>1. TypeOK
  BY DEF Init, TypeOK, NoRequest, HdrValues
<1>2. TokenKnownIssued
  <2>1. cfg.secret # NoValue => cfg.secret \in Secrets
    BY DEF Init, Configs
  <2>2. cfg.secret # NoValue => TokenOf(cfg.secret) \notin known
    BY <2>1 DEF Init
  <2>3. QED
    BY <2>2 DEF TokenKnownIssued
<1>3. RequestInv
  BY NExecEmpty DEF Init, RequestInv, NoRequest
<1>4. CredentialRequired /\ RepliesMatchCommands
  BY DEF Init, CredentialRequired, RepliesMatchCommands
<1>5. QED
  BY <1>1, <1>2, <1>3, <1>4 DEF IInv

\* authHandler logs the login; the token it hands out becomes known, and a
\* signed one only after the configured password was presented.
LEMMA LoginStep ==
  ASSUME IInv, Login
  PROVE  IInv'
<1>1. PICK form \in Passwords \cup {NoValue, "wrong"} : AuthHandler(form)
  BY DEF Login
<1> DEFINE ok == /\ ~cfg.adminInsecure
                 /\ cfg.password # NoValue /\ cfg.secret # NoValue
                 /\ form = cfg.password
<1>2. PICK genFails \in IF ok THEN BOOLEAN ELSE {FALSE} :
        LET tok == IF cfg.adminInsecure THEN "insecure"
                   ELSE IF ok /\ ~genFails THEN TokenOf(cfg.secret) ELSE NoValue
            st  == IF genFails THEN 500
                   ELSE IF cfg.adminInsecure \/ ok THEN 200 ELSE 400
        IN /\ log' = Append(log, [kind |-> "auth", cred |-> form, status |-> st,
                                  token |-> tok, ncmds |-> 0, executed |-> 0,
                                  nreplies |-> 0, nexec |-> 0])
           /\ known' = (known \cup {tok}) \ {NoValue}
  BY <1>1 DEF AuthHandler, AuthReply
<1> DEFINE tok == IF cfg.adminInsecure THEN "insecure"
                  ELSE IF ok /\ ~genFails THEN TokenOf(cfg.secret) ELSE NoValue
           st  == IF genFails THEN 500
                  ELSE IF cfg.adminInsecure \/ ok THEN 200 ELSE 400
           e   == [kind |-> "auth", cred |-> form, status |-> st,
                   token |-> tok, ncmds |-> 0, executed |-> 0,
                   nreplies |-> 0, nexec |-> 0]
<1>3. /\ log' = Append(log, e)
      /\ known' = (known \cup {tok}) \ {NoValue}
      /\ UNCHANGED <<cfg, pc, req, rest, replies, executed>>
  BY <1>2 DEF Login
<1>4. tok \in HdrValues \cup {NoValue}
  <2>1. ok => cfg.secret \in Secrets
    BY DEF IInv, TypeOK, Configs
  <2>2. QED
    BY <2>1 DEF HdrValues
<1>5. e \in Entries
  BY <1>4 DEF Entries, HdrValues
<1>6. TypeOK'
  BY <1>3, <1>4, <1>5, AppendLog DEF IInv, TypeOK
<1>7. TokenKnownIssued'
  <2> SUFFICES ASSUME ~cfg.adminInsecure, cfg.secret # NoValue,
                      TokenOf(cfg.secret) \in known'
               PROVE  Issued(TokenOf(cfg.secret))'
    BY <1>3 DEF TokenKnownIssued
  <2>1. CASE TokenOf(cfg.secret) \in known
    BY <1>3, <1>5, <2>1, IssuedMono DEF IInv, TokenKnownIssued
  <2>2. CASE TokenOf(cfg.secret) \notin known
    <3>1. TokenOf(cfg.secret) = tok /\ tok # NoValue
      BY <1>3, <2>2
    <3>2. ok /\ ~genFails
      BY <3>1
    <3>3. e.status = 200 /\ e.cred = cfg.password /\ e.token = TokenOf(cfg.secret)
      BY <3>1, <3>2
    <3>4. Len(log) + 1 \in 1 .. Len(log') /\ log'[Len(log) + 1] = e
      BY <1>3, <1>5, AppendLog DEF IInv, TypeOK
    <3>5. QED
      BY <1>3, <3>2, <3>3, <3>4 DEF Issued
  <2>3. QED
    BY <2>1, <2>2
<1>8. RequestInv'
  <2>1. pc = "idle"
    BY DEF Login
  <2>4. replies' = replies /\ rest' = rest /\ req' = req /\ executed' = executed
    BY <1>3
  <2>2. /\ Len(replies') + Len(rest') = Len(req'.body)
        /\ NExec(replies') = executed'
        /\ executed' = 0
    BY <2>1, <2>4 DEF IInv, RequestInv
  <2>3. QED
    BY <1>3, <2>1, <2>2 DEF RequestInv
<1>9. CredOK(cfg, log', Len(log) + 1) /\ RepliesOK(log', Len(log) + 1)
  <2>1. log'[Len(log) + 1] = e
    BY <1>3, <1>5, AppendLog DEF IInv, TypeOK
  <2>2. QED
    BY <2>1 DEF CredOK, RepliesOK
<1>10. CredentialRequired' /\ RepliesMatchCommands'
  BY <1>3, <1>5, <1>9, LogGrows DEF IInv, TypeOK
<1>11. QED
  BY <1>6, <1>7, <1>8, <1>10 DEF IInv

\* A header a client sends is made of header values, and its credential is
\* one the client knows (or absent).
LEMMA HeadersType ==
  ASSUME known \subseteq HdrValues, NEW h \in Headers
  PROVE  h \in Seq(HdrValues) /\ Cred(h) \in known \cup {NoValue}
<1>1. SchemeWords \subseteq HdrValues /\ "APIKey" \in HdrValues
  BY DEF HdrValues, SchemeWords
<1>2. CASE h = <<>>
  BY <1>2 DEF Cred
<1>3. CASE \E m \in SchemeWords : h = <<m>>
  BY <1>1, <1>3 DEF Cred
<1>4. CASE \E m \in SchemeWords, v \in known : h = <<m, v>>
  BY <1>1, <1>4 DEF Cred
<1>5. CASE \E v \in known : h = <<"APIKey", v, v>>
  BY <1>1, <1>5 DEF Cred
<1>6. QED
  BY <1>2, <1>3, <1>4, <1>5 DEF Headers

\* A body is a sequence of commands.
LEMMA BodiesType ==
  ASSUME NEW b \in Bodies
  PROVE  b \in Seq(Cmds)
BY DEF Bodies

\* ServeHTTP starts on a new request: nothing decoded, replied or executed.
LEMMA ReceiveStep ==
  ASSUME IInv, Receive
  PROVE  IInv'
<1>1. PICK kind \in {"api", "admin_api"}, hdr \in Headers, body \in Bodies :
        req' = [kind |-> kind, hdr |-> hdr, body |-> body] /\ rest' = body
  BY DEF Receive
<1>2. /\ pc' = "auth" /\ replies' = <<>> /\ executed' = 0
      /\ UNCHANGED <<cfg, known, log>>
  BY DEF Receive
<1>3. hdr \in Seq(HdrValues) /\ Cred(hdr) \in known \cup {NoValue}
  BY HeadersType DEF IInv, TypeOK
<1>4. body \in Seq(Cmds)
  BY BodiesType
<1>5. TypeOK'
  BY <1>1, <1>2, <1>3, <1>4 DEF IInv, TypeOK
<1>6. TokenKnownIssued'
  BY <1>2 DEF IInv, TokenKnownIssued, Issued
<1>7. RequestInv'
  <2>1. NExec(replies') = 0
    BY <1>2, NExecEmpty
  <2>2. Len(replies') + Len(rest') = Len(req'.body)
    BY <1>1, <1>2, <1>4
  <2>3. QED
    BY <1>1, <1>2, <1>3, <2>1, <2>2 DEF RequestInv
<1>8. CredentialRequired' /\ RepliesMatchCommands'
  BY <1>2 DEF IInv, CredentialRequired, RepliesMatchCommands
<1>9. QED
  BY <1>5, <1>6, <1>7, <1>8 DEF IInv

\* The auth check: an authorized request goes on to read its body, with
\* the token it presents on /admin/api issued; any other is refused.
LEMMA AuthorizeStep ==
  ASSUME IInv, Authorize
  PROVE  IInv'
<1>1. pc = "auth" /\ executed = 0
  BY DEF Authorize, IInv, RequestInv
<1>2. CASE Authorized(req) /\ pc' = "read"
           /\ UNCHANGED <<cfg, known, req, rest, replies, executed, log>>
  <2>1. TypeOK' /\ TokenKnownIssued'
    BY <1>2 DEF IInv, TypeOK, TokenKnownIssued, Issued
  <2>2. CredentialRequired' /\ RepliesMatchCommands'
    BY <1>2 DEF IInv, CredentialRequired, RepliesMatchCommands
  <2>3. req.kind = "admin_api" /\ ~cfg.adminInsecure => Issued(Cred(req.hdr))
    <3> SUFFICES ASSUME req.kind = "admin_api", ~cfg.adminInsecure
                 PROVE  Issued(Cred(req.hdr))
      OBVIOUS
    <3>1. /\ cfg.secret # NoValue /\ Len(req.hdr) = 2
          /\ req.hdr[2] = TokenOf(cfg.secret)
      BY <1>2 DEF Authorized, AdminTokenAuth, TokenValid
    <3>2. Cred(req.hdr) = TokenOf(cfg.secret)
      BY <3>1 DEF Cred
    <3>3. cfg.secret \in Secrets
      BY <3>1 DEF IInv, TypeOK, Configs
    <3>4. TokenOf(cfg.secret) \in known
      BY <1>1, <3>2, <3>3 DEF IInv, RequestInv
    <3>5. QED
      BY <3>1, <3>2, <3>4 DEF IInv, TokenKnownIssued
  <2>4. RequestInv'
    <3>1. Cred(req.hdr) \in known \cup {NoValue}
      BY <1>1 DEF IInv, RequestInv
    <3>2. /\ Len(replies) + Len(rest) = Len(req.body)
          /\ NExec(replies) = executed
      BY DEF IInv, RequestInv
    <3>3. /\ req' = req /\ rest' = rest /\ replies' = replies
          /\ executed' = executed /\ known' = known /\ pc' = "read"
      BY <1>2
    <3>4. Issued(Cred(req.hdr)) => Issued(Cred(req.hdr))'
      BY <1>2 DEF Issued
    <3>5. Authorized(req)'
      BY <1>2 DEF Authorized, CheckAuth, AdminTokenAuth, TokenValid
    <3>6. QED
      BY <1>1, <1>2, <2>3, <3>1, <3>2, <3>3, <3>4, <3>5 DEF RequestInv
  <2>5. QED
    BY <2>1, <2>2, <2>4 DEF IInv
<1>3. CASE ~Authorized(req) /\ Answer(401, executed)
  BY <1>1, <1>3, AnswerStep
<1>4. QED
  BY <1>2, <1>3 DEF Authorize

\* A step of ServeHTTP that only moves pc on keeps the invariant, provided
\* it does not leave a state where a decoding request may have executed
\* commands for one where none may have.
LEMMA MoveStep ==
  ASSUME IInv, NEW p \in {"read", "decode"}, pc \in {"read", "decode"},
         pc = "read" \/ p = "decode", pc' = p,
         UNCHANGED <<cfg, known, req, rest, replies, executed, log>>
  PROVE  IInv'
<1>1. TypeOK' /\ TokenKnownIssued'
  BY DEF IInv, TypeOK, TokenKnownIssued, Issued
<1>2. CredentialRequired' /\ RepliesMatchCommands'
  BY DEF IInv, CredentialRequired, RepliesMatchCommands
<1>3. RequestInv'
  <2>1. Authorized(req)'
    BY DEF IInv, RequestInv, Authorized, CheckAuth, AdminTokenAuth, TokenValid
  <2>2. Issued(Cred(req.hdr)) => Issued(Cred(req.hdr))'
    BY DEF Issued
  <2>3. pc' # "decode" => executed' = 0
    BY DEF IInv, RequestInv
  <2>4. QED
    BY <2>1, <2>2, <2>3 DEF IInv, RequestInv
<1>4. QED
  BY <1>1, <1>2, <1>3 DEF IInv

\* ioutil.ReadAll fails or the body is empty (an error answer with nothing
\* executed), or the decoder starts on the body.
LEMMA ReadBodyStep ==
  ASSUME IInv, ReadBody
  PROVE  IInv'
<1>1. pc = "read" /\ executed = 0
  BY DEF ReadBody, IInv, RequestInv
<1>2. CASE Answer(500, executed)
  BY <1>1, <1>2, AnswerStep
<1>3. CASE req.body = <<>> /\ Answer(400, executed)
  BY <1>1, <1>3, AnswerStep
<1>4. CASE pc' = "decode"
           /\ UNCHANGED <<cfg, known, req, rest, replies, executed, log>>
  BY <1>1, <1>4, MoveStep
<1>5. QED
  BY <1>2, <1>3, <1>4 DEF ReadBody

\* io.EOF: the whole body was decoded and answered.
LEMMA DecodeEOFStep ==
  ASSUME IInv, DecodeEOF
  PROVE  IInv'
BY AnswerStep DEF DecodeEOF, IInv, TypeOK

\* A decoding error ends the request with 400.
LEMMA DecodeErrorStep ==
  ASSUME IInv, DecodeError
  PROVE  IInv'
BY AnswerStep DEF DecodeError, IInv, TypeOK

\* One command decoded and replied to: the reply accounts for it, and for
\* its execution exactly when s.api was called.
LEMMA ReplyStep ==
  ASSUME IInv, pc = "decode", rest # <<>>, NEW r \in ReplyKinds, NEW ex,
         ex = IF r \in ExecutedReplies THEN executed + 1 ELSE executed,
         Reply(r, ex)
  PROVE  IInv'
<1>1. /\ replies' = Append(replies, r) /\ executed' = ex
      /\ rest' = Tail(rest)
      /\ UNCHANGED <<cfg, known, pc, req, log>>
  BY DEF Reply
<1>2. /\ Len(replies') = Len(replies) + 1 /\ Len(rest') = Len(rest) - 1
      /\ replies' \in Seq(ReplyKinds) /\ rest' \in Seq(Cmds)
  BY <1>1 DEF IInv, TypeOK
<1>3. NExec(replies') = executed'
  BY <1>1, NExecAppend DEF IInv, TypeOK, RequestInv
<1>4. TypeOK'
  BY <1>1, <1>2, <1>3 DEF IInv, TypeOK
<1>5. TokenKnownIssued' /\ CredentialRequired' /\ RepliesMatchCommands'
  BY <1>1 DEF IInv, TokenKnownIssued, Issued, CredentialRequired,
              RepliesMatchCommands
<1>6. RequestInv'
  <2>1. Authorized(req)'
    BY <1>1 DEF IInv, RequestInv, Authorized, CheckAuth, AdminTokenAuth,
                TokenValid
  <2>2. Issued(Cred(req.hdr)) => Issued(Cred(req.hdr))'
    BY <1>1 DEF Issued
  <2>3. Len(replies') + Len(rest') = Len(req'.body)
    <3>1. Len(replies) + Len(rest) = Len(req.body)
      BY DEF IInv, RequestInv
    <3>2. req' = req /\ Len(replies) \in Nat /\ Len(rest) \in Nat
      BY <1>1 DEF IInv, TypeOK
    <3>3. QED
      BY <1>2, <3>1, <3>2
  <2>4. QED
    BY <1>1, <1>3, <2>1, <2>2, <2>3 DEF IInv, RequestInv
<1>7. QED
  BY <1>4, <1>5, <1>6 DEF IInv

\* handleAPICommand and the encoding of its reply.
LEMMA HandleCommandStep ==
  ASSUME IInv, HandleCommand
  PROVE  IInv'
<1>1. pc = "decode" /\ rest # <<>> /\ executed \in Nat
  BY DEF HandleCommand, IInv, TypeOK
<1> DEFINE c == Head(rest)
<1>2. CASE c.method = "unknown" /\ Reply("not_found", executed)
  BY <1>1, <1>2, ReplyStep DEF ReplyKinds, ExecutedReplies
<1>3. CASE c.method = "params" /\ ~c.paramsOK /\ Reply("bad_request", executed)
  BY <1>1, <1>3, ReplyStep DEF ReplyKinds, ExecutedReplies
<1>4. CASE \E r \in ExecutedReplies : Reply(r, executed + 1)
  BY <1>1, <1>4, ReplyStep DEF ReplyKinds, ExecutedReplies
<1>5. CASE Answer(500, executed + 1)
  BY <1>1, <1>5, AnswerStep
<1>6. QED
  BY <1>2, <1>3, <1>4, <1>5 DEF HandleCommand

\* Every step of the handlers keeps the inductive invariant.
LEMMA NextStep ==
  ASSUME IInv, [Next]_vars
  PROVE  IInv'
<1>1. CASE Login
  BY <1>1, LoginStep
<1>2. CASE Receive
  BY <1>2, ReceiveStep
<1>3. CASE Authorize
  BY <1>3, AuthorizeStep
<1>4. CASE ReadBody
  BY <1>4, ReadBodyStep
<1>5. CASE DecodeEOF
  BY <1>5, DecodeEOFStep
<1>6. CASE DecodeError
  BY <1>6, DecodeErrorStep
<1>7. CASE HandleCommand
  BY <1>7, HandleCommandStep
<1>8. CASE UNCHANGED vars
  BY <1>8 DEF vars, IInv, TypeOK, TokenKnownIssued, Issued, RequestInv,
              Authorized, CheckAuth, AdminTokenAuth, TokenValid,
              CredentialRequired, RepliesMatchCommands
<1>9. QED
  BY <1>1, <1>2, <1>3, <1>4, <1>5, <1>6, <1>7, <1>8 DEF Next, Serve

(* Theorem: every reachable state of the admin and API handlers satisfies  *)
(* IInv, for every configuration, set of keys, secrets and commands.       *)
LEMMA Invariant == Spec => []IInv
BY InitInv, NextStep, PTL DEF Spec

(* No request changes the node without a credential the configuration     *)
(* issued (checkAuth on /api; on /admin/api a token that an earlier login *)
(* with the configured password obtained), whatever the configuration,    *)
(* the keys, passwords and secrets, and however many requests and         *)
(* commands.                                                              *)
THEOREM CredentialSafe == Spec => []CredentialRequired
BY Invariant, PTL DEF IInv

(* Every request APIHandler answers 200 carries one reply per command of  *)
(* its body, and its replies report exactly the commands s.api executed.  *)
THEOREM RepliesAccounted == Spec => []RepliesMatchCommands
BY Invariant, PTL DEF IInv

=============================================================================

------------------------- MODULE WebAuthentication --------------------------
(***************************************************************************)
(* Basic and digest authentication of ESPAsyncWebServer: what the header   *)
(* Authorization of a request is taken apart into, and who passes.         *)
(* A text is a sequence of characters or words; an MD5 or a base64 text is *)
(* its argument in parentheses of its own, as no two arguments share one.  *)
(* What may be NULL is a set with at most one text.                        *)
(***************************************************************************)
EXTENDS Integers, SequencesExt

Colon(texts) ==    \* with colons between them
    FlattenSeq([i \in DOMAIN texts |-> IF i = 1 THEN texts[i] ELSE <<":">> \o texts[i]])

stringMD5(text)    == <<"md5(">> \o text \o <<")">>
base64_encode(text) == <<"base64(">> \o text \o <<")">>

indexOf(text, c) ==    \* 0 if it is not there
    LET at == {i \in DOMAIN text : text[i] = c} IN IF at = {} THEN 0 ELSE Min(at)

Behind(text, i) == SubSeq(text, i + 1, Len(text))
Before(text, i) == SubSeq(text, 1, i - 1)

RECURSIVE trim(_)
trim(text) ==
    CASE text # <<>> /\ Head(text) = " " -> trim(Tail(text))
      [] text # <<>> /\ Head(text) # " " /\ Last(text) = " " -> trim(Front(text))
      [] OTHER -> text

-----------------------------------------------------------------------------
(* Basic                                                                     *)

checkBasicAuthentication(hash, username, password) ==
    hash = base64_encode(Colon(<<username, password>>))

-----------------------------------------------------------------------------
(* Digest                                                                    *)

\* As it may be kept in place of a password.
generateDigestHash(username, password, realm) ==
    Colon(<<username, realm, stringMD5(Colon(<<username, realm, password>>))>>)

\* The random nonce and opaque of the challenge are accepted whatever they are.
requestDigestAuthentication(realm) ==
    [realm |-> IF realm = {} THEN <<"asyncesp">> ELSE CHOOSE r \in realm : TRUE,
     nonce |-> <<"random">>, opaque |-> <<"random">>]

Variables == {"username", "realm", "nonce", "uri", "response", "qop", "nc", "cnonce", "opaque"}
NothingRead == [v \in Variables |-> <<>>]

Unquoted(text) ==
    IF text # <<>> /\ Head(text) = "quote" THEN SubSeq(text, 2, Len(text) - 1) ELSE text

Failed == [ok |-> FALSE, read |-> NothingRead]

\* The loop over the commas, the first of which is at break: a variable that
\* is expected to have a value must have it; others may be there.
RECURSIVE ReadVariables(_, _, _, _)
ReadVariables(text, break, expected, read) ==
    LET line  == trim(Before(text, break))
        rest  == Behind(text, break)
        equal == indexOf(line, "=")
        name  == Before(line, equal)
        value == Unquoted(Behind(line, equal))
        known == {v \in Variables : name = <<v>>}
        all   == [v \in Variables |-> IF v \in known THEN value ELSE read[v]]
    IN  CASE equal = 0 -> Failed
          [] equal # 0 /\ \E v \in known : expected[v] # {} /\ value \notin expected[v] -> Failed
          [] equal # 0 /\ ~(\E v \in known : expected[v] # {} /\ value \notin expected[v])
               /\ indexOf(rest, ",") <= 1 -> [ok |-> TRUE, read |-> all]
          [] OTHER -> ReadVariables(rest, indexOf(rest, ","), expected, all)

ResponseWithoutMethod(ha1, method, read) ==    \* mutant
    stringMD5(Colon(<<ha1, read["nonce"], read["nc"], read["cnonce"], read["qop"],
                      stringMD5(read["uri"])>>))

ResponseTo(ha1, method, read) ==
    stringMD5(Colon(<<ha1, read["nonce"], read["nc"], read["cnonce"], read["qop"],
                      stringMD5(Colon(<<method, read["uri"]>>))>>))

checkDigestAuthentication(header, method, username, password, realm, passwordIsHash) ==
    LET expected == [v \in Variables |-> CASE v = "username" -> {username}
                                           [] v = "realm" -> realm
                                           [] OTHER -> {}]
        all      == ReadVariables(header \o <<",", " ">>, indexOf(header, ","), expected, NothingRead)
        ha1      == IF passwordIsHash THEN password
                    ELSE stringMD5(Colon(<<all.read["username"], all.read["realm"], password>>))
    IN  /\ indexOf(header, ",") # 0 /\ all.ok
        /\ all.read["response"] = ResponseTo(ha1, method, all.read)

-----------------------------------------------------------------------------
(* AsyncWebServerRequest                                                     *)

\* With a user and a password, which may be the hash of one.
authenticate(request, username, password, realm, passwordIsHash) ==
    /\ request.authorization # <<>>
    /\ CASE request.isDigest -> checkDigestAuthentication(request.authorization, request.method,
                                    username, password, realm, passwordIsHash)
         [] ~request.isDigest /\ ~passwordIsHash ->
              checkBasicAuthentication(request.authorization, username, password)
         [] OTHER -> request.authorization = password

\* With user:realm:md5, or base64 of user:password.
authenticateHash(request, hash) ==
    LET first  == indexOf(hash, ":")
        behind == Behind(hash, first)
        second == indexOf(behind, ":")
    IN  /\ request.authorization # <<>>
        /\ IF request.isDigest
           THEN /\ first > 1 /\ second > 1
                /\ checkDigestAuthentication(request.authorization, request.method, Before(hash, first),
                       Behind(behind, second), {Before(behind, second)}, TRUE)
           ELSE request.authorization = hash

-----------------------------------------------------------------------------
(* A browser (RFC 2617), and who passes                                      *)

Quote(text) == <<"quote">> \o text \o <<"quote">>

HashOf(user, realm) == <<"md5(">> \o user.name \o <<":">> \o realm \o <<":">> \o user.password \o <<")">>

\* The field response of a browser with a password.
ResponseOf(b, realm) ==
    <<"md5(">> \o HashOf(b.user, realm) \o <<":", "random", ":", "1", ":", "c", ":", "auth", ":">>
      \o <<"md5(">> \o b.method \o <<":">> \o b.url \o <<")">> \o <<")">>

\* The fields in the browser's order, with a comma and spaces between them;
\* the numbers and the name of the quality have no quotes.
Field(b, realm, v) ==
    CASE v = "username" -> <<v, "=">> \o Quote(b.user.name)
      [] v = "realm" -> <<v, "=">> \o Quote(realm)
      [] v \in {"nonce", "opaque"} -> <<v, "=">> \o Quote(<<"random">>)
      [] v = "uri" -> <<v, "=">> \o Quote(b.url)
      [] v = "response" -> <<v, "=">> \o Quote(ResponseOf(b, realm))
      [] v = "qop" -> <<v, "=", "auth">>
      [] v = "nc" -> <<v, "=", "1">>
      [] v = "cnonce" -> <<v, "=">> \o Quote(<<"c">>)
      [] OTHER -> <<v, "=", "MD5">>

Authorization(b, challenge) ==
    IF b.digest
    THEN FlattenSeq([i \in DOMAIN b.order |->
             (IF i = 1 THEN <<>> ELSE <<",">> \o b.between) \o Field(b, challenge.realm, b.order[i])])
    ELSE <<"base64(">> \o b.user.name \o <<":">> \o b.user.password \o <<")">>

\* The request of a browser b that has been challenged for the realm it was in,
\* as it arrives with a method.
RequestOf(b, method) ==
    [method |-> method, isDigest |-> b.digest,
     authorization |-> Authorization(b, requestDigestAuthentication(b.realm))]

\* What the server compares with: a login and a realm, kept as they are, with
\* the password hashed, or as one text.
Passes(request, login, realm, kept, digest) ==
    LET known == IF realm = {} THEN <<"asyncesp">> ELSE CHOOSE r \in realm : TRUE
    IN  CASE kept = "plain" -> authenticate(request, login.name, login.password, realm, FALSE)
          [] kept = "hash" /\ digest ->
               authenticate(request, login.name, HashOf(login, known), realm, TRUE)
          [] kept = "hash" /\ ~digest ->
               authenticate(request, login.name, base64_encode(Colon(<<login.name, login.password>>)), realm, TRUE)
          [] kept = "text" /\ digest ->
               authenticateHash(request, generateDigestHash(login.name, login.password, known))
          [] OTHER -> authenticateHash(request, base64_encode(Colon(<<login.name, login.password>>)))

\* Who has the name, the password and, if the server names one, the realm
\* passes, in whatever order a browser sends the fields; nobody else does, and
\* nobody with the answer to a request of another method.  A comma inside of a
\* field is taken for the end of it: those users are refused.
OwnerPasses(b, login, realm, kept, method) ==
    LET passes == Passes(RequestOf(b, method), login, realm, kept, b.digest)
        owner  == /\ b.user = login
                  /\ b.digest => b.method = method /\ (realm # {} \/ kept # "plain" => b.realm = realm)
        commas == b.digest /\ \E t \in {b.url, b.user.name} : indexOf(t, ",") # 0
    IN  IF commas THEN ~passes ELSE passes <=> owner
=============================================================================

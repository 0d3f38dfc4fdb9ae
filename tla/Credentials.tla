---------------------------- MODULE Credentials ----------------------------
(***************************************************************************)
(* Access boxes: the credential tool issues them (authmate/), FrostFS      *)
(* keeps them (creds/), gates read them to authenticate requests signed    *)
(* with AWS signature v4 (api/auth/) and to act on containers.             *)
(***************************************************************************)
EXTENDS Naturals, FiniteSets, Sequences

CONSTANTS
  Gates,        \* keys of gates
  Issuers,      \* runs of the credential tool
  Requests,
  Options,      \* what the tool may be asked for
  Allowed,      \* Allowed[g]: containers whose keys a gate takes, {} for all
  EpochLength,  \* ticks of the clock in an epoch, one at least
  CacheLife,    \* ticks a box is cached for
  None,
  MaxTime,      \* bound: the clock
  MaxBoxes,     \* bound: boxes issued
  MaxFaults     \* bound: calls to FrostFS that fail

VARIABLES clock, containers, boxes, minted, issue, cached, req, faults

vars == <<clock, containers, boxes, minted, issue, cached, req, faults>>

Epoch(t) == t \div EpochLength

(* Mutant: rounded down.                                                   *)
LastEpochFloor(life) == Epoch(clock) + life \div EpochLength

(* TimeToEpoch: the lifetime in epochs, rounded up.                        *)
LastEpoch(life) ==
  Epoch(clock) + life \div EpochLength
    + IF life % EpochLength # 0 THEN 1 ELSE 0

----------------------------------------------------------------------------
(* IssueSecret. Options: cnr, gates (a sequence), rules, life.             *)
Rule(verb, cnr) == [verb |-> verb, cnr |-> cnr]
HasVerb(rules, verb) == \E i \in DOMAIN rules : rules[i].verb = verb

(* buildContext; <<Rule(None, None)>> stands for "none".                   *)
BuildContext(rules) ==
  IF rules = <<>> THEN <<Rule("PUT", None), Rule("DELETE", None), Rule("SETEACL", None)>>
  ELSE IF rules[1].verb = None THEN <<>>
  ELSE IF HasVerb(rules, "PUT") /\ ~HasVerb(rules, "SETEACL")
       THEN Append(rules, Rule("SETEACL", None)) ELSE rules

(* createTokens, for the i-th gate.                                        *)
TokensOf(o, i, secret, exp) ==
  [secret |-> secret, bearer |-> [gate |-> o.gates[i], exp |-> exp],
   sessions |-> [k \in DOMAIN BuildContext(o.rules) |->
                   [rule |-> BuildContext(o.rules)[k], gate |-> o.gates[i], exp |-> exp]]]

(* PackTokens: what is encrypted can be read with either of the two keys.  *)
PackTokens(o, secret, exp) ==
  [i \in DOMAIN o.gates |->
     [gate |-> o.gates[i], between |-> {secret, o.gates[i]},
      tokens |-> TokensOf(o, i, secret, exp)]]

(* GetTokens: the first entry under the key of the gate.                   *)
EntriesOf(box, gate) == {i \in DOMAIN box.gates : box.gates[i].gate = gate}
GetTokens(box, gate) ==
  LET i == CHOOSE j \in EntriesOf(box, gate) : \A k \in EntriesOf(box, gate) : j <= k
  IN box.gates[i].tokens

Alive(box) == Epoch(clock) <= box.exp
Ends(box)  == (box.exp + 1) * EpochLength

NoIssue == [pc |-> "idle", o |-> None, box |-> None]
SetIssue(i, rec) == issue' = [issue EXCEPT ![i] = rec]
Fault == faults < MaxFaults /\ faults' = faults + 1
NoFault == UNCHANGED faults

StartIssue(i) ==
  /\ issue[i].pc \in {"idle", "printed", "failed"}
  /\ minted < MaxBoxes /\ minted' = minted + 1
  /\ \E o \in Options :
       SetIssue(i, [pc |-> "container", o |-> o,
         box |-> [id |-> minted + 1, cnr |-> o.cnr, exp |-> LastEpoch(o.life),
                  gates |-> PackTokens(o, minted + 1, LastEpoch(o.life)),
                  life |-> o.life, at |-> clock]])
  /\ UNCHANGED <<clock, containers, boxes, cached, req>> /\ NoFault

(* The container of the box must exist, or is created.                     *)
CheckContainer(i) ==
  LET new == Cardinality(containers) + 1 IN
  /\ issue[i].pc = "container"
  /\ \/ /\ issue[i].box.cnr \in containers /\ NoFault
        /\ SetIssue(i, [issue[i] EXCEPT !.pc = "put"]) /\ UNCHANGED containers
     \/ /\ issue[i].box.cnr = None /\ containers' = containers \cup {new} /\ NoFault
        /\ SetIssue(i, [issue[i] EXCEPT !.pc = "put", !.box.cnr = new])
     \/ /\ issue[i].box.cnr # None /\ issue[i].box.cnr \notin containers /\ NoFault
        /\ SetIssue(i, [issue[i] EXCEPT !.pc = "failed"]) /\ UNCHANGED containers
     \/ /\ Fault /\ SetIssue(i, [issue[i] EXCEPT !.pc = "failed"]) /\ UNCHANGED containers
  /\ UNCHANGED <<clock, boxes, minted, cached, req>>

(* Put of the credentials; FrostFS takes no object that has expired.       *)
StoreBox(i) ==
  /\ issue[i].pc = "put"
  /\ \/ /\ Alive(issue[i].box) /\ boxes' = boxes \cup {issue[i].box} /\ NoFault
        /\ SetIssue(i, [issue[i] EXCEPT !.pc = "printed"])
     \/ /\ SetIssue(i, [issue[i] EXCEPT !.pc = "failed"]) /\ UNCHANGED boxes
        /\ IF Alive(issue[i].box) THEN Fault ELSE NoFault
  /\ UNCHANGED <<clock, containers, minted, cached, req>>

----------------------------------------------------------------------------
(* Signature v4. A request: method, path, query, and its headers, a        *)
(* function from names. 0 is what the client had in mind, 1 another value, *)
(* 2 the hash of nothing, 3 an unsigned payload.                           *)
Ignored(presign) == IF presign THEN {"auth", "agent"} ELSE {"auth"}
Hoistable == {"date"}        \* an X-Amz- header that is not in requiredSignedHeaders
Among(f, names) == [h \in DOMAIN f \cap names |-> f[h]]
Over(f, g) == [h \in DOMAIN f \cup DOMAIN g |-> IF h \in DOMAIN f THEN f[h] ELSE g[h]]

(* Mutant: the query is left out.                                          *)
CanonicalWithoutQuery(c, headers, hoisted, signed, digest, presign, escape, date, expires) ==
  [method |-> c.method, path |-> <<c.path, c.spaced, escape /\ c.spaced>>, query |-> 0,
   added |-> <<presign, expires>>, headers |-> Among(headers, signed),
   digest |-> digest, date |-> date]

(* buildCanonicalString, buildStringToSign: an escaped path is escaped     *)
(* again unless the signer is told not to.                                 *)
Canonical(c, headers, hoisted, signed, digest, presign, escape, date, expires) ==
  [method |-> c.method, path |-> <<c.path, c.spaced, escape /\ c.spaced>>, query |-> c.query,
   added |-> <<presign, expires>>, headers |-> Among(headers, signed),
   digest |-> digest, date |-> date]

(* signWithBody and build, for service s3 and a nil body: the fields that  *)
(* are signed, and what is signed, with which secret.                      *)
Sign(c, secret, presign, escape, date, expires) ==
  LET dated == IF presign THEN c.headers ELSE Over([h \in {"date"} |-> date], c.headers)
      hashed == "sha" \in DOMAIN dated
      digest == IF hashed THEN dated["sha"] ELSE IF presign THEN 3 ELSE 2
      headers == IF hashed \/ presign THEN dated ELSE Over([h \in {"sha"} |-> digest], dated)
      hoisted == IF presign THEN Hoistable \cap DOMAIN headers ELSE {}
      signed == DOMAIN headers \ (hoisted \cup Ignored(presign))
  IN [fields |-> signed \cup {"host"},
      signature |-> <<secret, Canonical(c, headers, hoisted, signed, digest,
                                        presign, escape, date, expires)>>]

(* A client signs: an S3 library with the headers it wants signed, or      *)
(* generate-presigned-url of the credential tool, whose signer escapes the *)
(* path. A form carries the signature of its policy, here the query.       *)
FormSignature(secret, date, policy) == <<secret, "form", date, policy>>

SignedBy(kind, box, c, date, expires) ==
  LET s == Sign(c, box, kind # "header", kind = "tool", date, expires)
  IN IF kind = "form" THEN [fields |-> {}, signature |-> FormSignature(box, date, c.query)] ELSE s

(* What becomes of a request on its way: nothing, a header that was not    *)
(* signed is added, or a part of it is changed.                            *)
Changes == {"nothing", "agent", "method", "path", "query", "meta", "date", "expires"}
Altered(msg, change) ==
  IF change = "nothing" THEN msg
  ELSE IF change = "agent" THEN [msg EXCEPT !.c.headers = Over([h \in {"agent"} |-> 1], @)]
  ELSE IF change = "meta" THEN [msg EXCEPT !.c.headers = Over([h \in {"meta"} |-> 1], @)]
  ELSE IF change \in {"date", "expires"} THEN [msg EXCEPT ![change] = @ + 1]
  ELSE [msg EXCEPT !.c = [@ EXCEPT ![change] = 1]]

(* What is sent: one thing at a time is out of the ordinary. "meta" is a   *)
(* header the client signs, "spaced" a path with something to escape,      *)
(* "ahead" a clock of the client that is fast.                             *)
Sendings ==
  {s \in [kind : {"header", "presigned", "tool", "form"}, meta : BOOLEAN,
          spaced : BOOLEAN, change : Changes, ahead : {0, 1}] :
     /\ s.kind \in {"tool", "form"} => ~s.meta
     /\ s.kind \in {"header", "form"} => s.ahead = 0
     /\ s.meta => s.change \in {"nothing", "agent", "meta"}
     /\ s.spaced \/ s.ahead = 1 => s.change = "nothing" /\ ~s.meta
     /\ ~(s.spaced /\ s.ahead = 1)}

----------------------------------------------------------------------------
(* A gate authenticates a request.                                         *)
NoRequest == [pc |-> "idle", gate |-> None, msg |-> None, sent |-> None, data |-> None,
              read |-> 0, faulty |-> FALSE, known |-> FALSE, token |-> None, rule |-> None]
SetReq(r, rec) == req' = [req EXCEPT ![r] = rec]
Refuse(r) == SetReq(r, [req[r] EXCEPT !.pc = "refused"])
BoxOf(r) == CHOOSE b \in boxes : b.id = req[r].msg.box

(* Parse of Authenticate and checkAccessKeyID, which forms do not see.     *)
Arrive(r) ==
  /\ req[r].pc = "idle"
  /\ \E g \in Gates, b \in boxes, x \in Sendings :
       LET names == (IF x.kind = "header" THEN {"sha"} ELSE {})
                      \cup (IF x.meta THEN {"meta"} ELSE {})
           c == [method |-> 0, path |-> 0, spaced |-> x.spaced, query |-> 0,
                 headers |-> [h \in names |-> 0]]
           s == SignedBy(x.kind, b.id, c, clock + x.ahead, EpochLength)
           sent == [kind |-> x.kind, box |-> b.id, c |-> c, date |-> clock + x.ahead,
                    expires |-> EpochLength, fields |-> s.fields, signature |-> s.signature]
       IN SetReq(r, [NoRequest EXCEPT
            !.pc = IF x.kind # "form" /\ Allowed[g] # {} /\ b.cnr \notin Allowed[g]
                   THEN "refused" ELSE "box",
            !.gate = g, !.sent = sent, !.msg = Altered(sent, x.change)])
  /\ UNCHANGED <<clock, containers, boxes, minted, issue, cached>> /\ NoFault

Hit(e) == e

(* GetBox: cached, or read and decoded with the key of the gate.           *)
GetBox(r) ==
  LET g == req[r].gate
      fresh == {e \in cached[g] : e.box = req[r].msg.box /\ clock < e.until} IN
  /\ req[r].pc = "box"
  /\ \/ \E e \in fresh :
          /\ SetReq(r, [req[r] EXCEPT !.pc = "check", !.data = e.data])
          /\ cached' = [cached EXCEPT ![g] = (@ \ {e}) \cup {Hit(e)}] /\ NoFault
     \/ /\ fresh = {} /\ Alive(BoxOf(r)) /\ EntriesOf(BoxOf(r), g) # {}
        /\ SetReq(r, [req[r] EXCEPT !.pc = "cache", !.data = GetTokens(BoxOf(r), g),
                                    !.read = clock])
        /\ UNCHANGED cached /\ NoFault
     \/ /\ fresh = {} /\ ~(Alive(BoxOf(r)) /\ EntriesOf(BoxOf(r), g) # {})
        /\ Refuse(r) /\ UNCHANGED cached /\ NoFault
     \/ /\ fresh = {} /\ Fault /\ UNCHANGED cached
        /\ SetReq(r, [req[r] EXCEPT !.pc = "refused", !.faulty = TRUE])
  /\ UNCHANGED <<clock, containers, boxes, minted, issue>>

CacheBox(r) ==
  LET g == req[r].gate IN
  /\ req[r].pc = "cache"
  /\ cached' = [cached EXCEPT ![g] = {e \in @ : e.box # req[r].msg.box} \cup
       {[box |-> req[r].msg.box, data |-> req[r].data, until |-> clock + CacheLife,
         delay |-> clock - req[r].read]}]
  /\ SetReq(r, [req[r] EXCEPT !.pc = "check"])
  /\ UNCHANGED <<clock, containers, boxes, minted, issue>> /\ NoFault

(* cloneRequest: only headers among the fields that were signed. Those of  *)
(* a presigned request are one string, whatever their number.              *)
Cloned(msg) ==
  LET names == IF msg.kind = "header" THEN msg.fields
               ELSE {h \in msg.fields : msg.fields = {h}}
  IN [msg.c EXCEPT !.headers = Among(@, names)]

InTime(msg) == msg.kind = "header" \/ (msg.date <= clock /\ clock <= msg.date + msg.expires)

(* checkSign and checkFormData                                             *)
Expected(msg, secret) ==
  IF msg.kind = "form" THEN FormSignature(secret, msg.date, msg.c.query)
  ELSE Sign(Cloned(msg), secret, msg.kind # "header", msg.kind # "header",
            msg.date, msg.expires).signature

CheckSign(r) ==
  LET msg == req[r].msg IN
  /\ req[r].pc = "check"
  /\ IF (msg.kind = "form" \/ InTime(msg)) /\ msg.signature = Expected(msg, req[r].data.secret)
     THEN SetReq(r, [req[r] EXCEPT !.pc = "accepted"])
     ELSE SetReq(r, [req[r] EXCEPT !.pc = "refused", !.known = InTime(msg)])
  /\ UNCHANGED <<clock, containers, boxes, minted, issue, cached>> /\ NoFault

(* SessionTokenForPut, -Delete, -SetEACL: the first token for the verb,    *)
(* whatever container it is bound to.                                      *)
TokenFor(data, verb) ==
  LET fit == {i \in DOMAIN data.sessions : data.sessions[i].rule.verb = verb}
  IN IF fit = {} THEN None ELSE data.sessions[CHOOSE i \in fit : \A j \in fit : i <= j]

(* The request acts on a container of its owner.                           *)
Act(r) ==
  /\ req[r].pc = "accepted"
  /\ \E verb \in {"PUT", "DELETE", "SETEACL"}, cnr \in {"c1", "c2"} :
       SetReq(r, [req[r] EXCEPT !.pc = "acted", !.rule = Rule(verb, cnr),
                                !.token = TokenFor(req[r].data, verb)])
  /\ UNCHANGED <<clock, containers, boxes, minted, issue, cached>> /\ NoFault

Finish(r) ==
  /\ req[r].pc \in {"refused", "acted"} /\ SetReq(r, NoRequest)
  /\ UNCHANGED <<clock, containers, boxes, minted, issue, cached>> /\ NoFault

Tick ==
  /\ clock < MaxTime /\ clock' = clock + 1
  /\ UNCHANGED <<containers, boxes, minted, issue, cached, req>> /\ NoFault

Init ==
  /\ clock = 0 /\ containers = {1} /\ boxes = {} /\ minted = 0 /\ faults = 0
  /\ issue = [i \in Issuers |-> NoIssue]
  /\ cached = [g \in Gates |-> {}]
  /\ req = [r \in Requests |-> NoRequest]

Next ==
  \/ Tick
  \/ \E i \in Issuers : StartIssue(i) \/ CheckContainer(i) \/ StoreBox(i)
  \/ \E r \in Requests : Arrive(r) \/ GetBox(r) \/ CacheBox(r) \/ CheckSign(r)
                         \/ Act(r) \/ Finish(r)

Spec == Init /\ [][Next]_vars

----------------------------------------------------------------------------
TypeOK ==
  /\ clock \in 0 .. MaxTime /\ minted \in 0 .. MaxBoxes /\ faults \in 0 .. MaxFaults
  /\ containers \subseteq 1 .. MaxBoxes + 1
  /\ \A i \in Issuers : issue[i].pc \in {"idle", "container", "put", "printed", "failed"}
  /\ \A r \in Requests : req[r].pc \in {"idle", "box", "cache", "check", "accepted",
                                        "refused", "acted"}
  /\ \A b \in boxes : b.cnr \in containers

(* A request signed with a printed secret for a gate of its box is taken,  *)
(* as long as the box lives and the request is as it was signed, but for   *)
(* headers added on the way (center.go:130-208, v4.go:313-371) - a         *)
(* presigned one only when it signs no header but the host                 *)
(* (center.go:151), and when it escapes its path as this signer does       *)
(* (center.go:321).                                                        *)
SignedIsTaken ==
  \A r \in Requests : req[r].pc = "refused" =>
    LET msg == req[r].msg
        sent == req[r].sent IN
    \/ req[r].faulty
    \/ msg # sent /\ msg # Altered(sent, "agent")
    \/ EntriesOf(BoxOf(r), req[r].gate) = {} \/ ~Alive(BoxOf(r))
    \/ msg.kind # "form" /\ BoxOf(r).cnr \notin Allowed[req[r].gate] /\ Allowed[req[r].gate] # {}
    \/ msg.kind \in {"presigned", "tool"} /\ ~req[r].known
    \/ msg.kind = "presigned" /\ (sent.fields # {"host"} \/ sent.c.spaced)

(* What is taken is what was signed, by one who has the secret of the box: *)
(* its method, path and query, its date and the headers that were signed   *)
(* (v4.go:613-640) - of a form, the policy and the date.                   *)
TakenIsSigned ==
  \A r \in Requests : req[r].pc = "accepted" =>
    LET msg == req[r].msg
        sent == req[r].sent IN
    /\ msg.c.query = sent.c.query /\ msg.date = sent.date
    /\ msg.kind # "form" =>
         /\ msg.c.method = sent.c.method /\ msg.c.path = sent.c.path
         /\ \A h \in sent.fields \ {"host", "date"} : msg.c.headers[h] = sent.c.headers[h]
    /\ msg.kind \in {"presigned", "tool"} => msg.expires = sent.expires

(* A gate gets from a box the tokens that were issued for it, with the     *)
(* secret that was printed: its bearer, and a session for each rule,       *)
(* SETEACL with PUT (accessbox.go:130, authmate.go:405).                   *)
GateGetsItsOwn ==
  \A r \in Requests : req[r].data # None =>
    LET d == req[r].data IN
    /\ d.secret = req[r].msg.box /\ d.bearer.gate = req[r].gate
    /\ \A k \in DOMAIN d.sessions : d.sessions[k].gate = req[r].gate
    /\ HasVerb([k \in DOMAIN d.sessions |-> d.sessions[k].rule], "PUT")
       => HasVerb([k \in DOMAIN d.sessions |-> d.sessions[k].rule], "SETEACL")

(* Credentials outlive the time that was asked for, in whichever tick of   *)
(* an epoch they were issued, and by less than two epochs (frostfs.go:60). *)
LivesAsAsked ==
  \A b \in boxes : /\ Ends(b) > b.at + b.life
                   /\ Ends(b) <= b.at + b.life + 2 * EpochLength

(* A gate forgets a box that has expired after the life of its cache, and  *)
(* the time it took to read it, whoever keeps using it (credentials.go:79).*)
ExpiredIsForgotten ==
  \A g \in Gates : \A e \in cached[g] : \A b \in boxes :
    b.id = e.box => e.until < Ends(b) + CacheLife + e.delay

(* A request for which the box has a session is not refused for want of    *)
(* one: the token it is sent with is for its verb and its container        *)
(* (accessbox.go:84) - unless an earlier rule for the verb is bound to     *)
(* another container.                                                      *)
SessionFits ==
  \A r \in Requests : req[r].pc = "acted" =>
    LET d == req[r].data
        rule == req[r].rule
        Fits(k) == d.sessions[k].rule \in {rule, Rule(rule.verb, None)}
        fit == {k \in DOMAIN d.sessions : Fits(k)} IN
    fit # {} =>
      \/ /\ req[r].token # None
         /\ req[r].token.rule \in {rule, Rule(rule.verb, None)}
      \/ \E k \in DOMAIN d.sessions : /\ d.sessions[k].rule.verb = rule.verb /\ ~Fits(k)
                                      /\ \A j \in fit : k < j
=============================================================================

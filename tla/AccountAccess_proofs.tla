------------------------ MODULE AccountAccess_proofs ------------------------
(***************************************************************************)
(* The safety invariants of AccountAccess for any accounts, senders,       *)
(* addresses and browsers, and any number of codes and requests.           *)
(*                                                                         *)
(* Requests write what they have read, so the invariants must also say     *)
(* what a request may still hold when it commits (RequestOK).  It keeps    *)
(* holding because some things never change once they are there, whoever   *)
(* commits in between: the origin and the address of an account, the       *)
(* binding of a sender, and what an artifact is and whose (Settled).       *)
(***************************************************************************)
EXTENDS AccountAccess, TLAPS

\* Requests that present an artifact, and the type it has.
Keyed == {"login_url", "claim", "complete", "verify", "reset", "resend", "pairing",
          "redeem"}
TypeFor(op) ==
    CASE op = "login_url" -> "login_url"
      [] op \in {"claim", "complete"} -> "claim_code"
      [] op \in {"verify", "resend"} -> "email_verification"
      [] op = "reset" -> "password_reset"
      [] op \in {"pairing", "redeem"} -> "pairing_code"

\* Account a redeemed claim code k from its messages.
Claimed(k, a) == \E u \in redeemed : u.k = k /\ u.op = "claim" /\ u.account = a

\* The account of an artifact is there; a consumed pairing code has bound a
\* sender, the target of a claim code has redeemed it.
ArtifactOK(k) ==
    /\ artifact[k].type \in {"email_verification", "password_reset", "pairing_code"} =>
          artifact[k].account \in Accounts /\ account[artifact[k].account] = "web_first"
    /\ artifact[k].type = "login_url" => artifact[k].account \in Registered
    /\ artifact[k].type = "pairing_code" /\ artifact[k].consumed =>
          \E s \in Subjects : identity[s] = artifact[k].account
    /\ artifact[k].target # NoAccount => Claimed(k, artifact[k].target)

\* What a request has read is still true in what it will write of it.
RequestOK(r) ==
    /\ r.op = "register" => r.email \in Emails
    /\ r.op = "login" => r.who \in Accounts /\ account[r.who] = "web_first"
    /\ r.op \notin Keyed => r.k = 0
    /\ r.op \in Keyed =>
          /\ r.k \in DOMAIN artifact
          /\ r.row.type = TypeFor(r.op)
          /\ r.row.type = artifact[r.k].type
          /\ r.row.account = artifact[r.k].account
          /\ r.row.browser = artifact[r.k].browser
          /\ r.row.target # NoAccount => Claimed(r.k, r.row.target)
    /\ r.op \in {"login_url", "verify", "reset", "resend", "pairing", "redeem"} =>
          r.who = r.row.account
    /\ r.op = "complete" =>
          r.who = r.row.target /\ r.who # NoAccount /\ r.browser = r.row.browser
    /\ r.op \in {"verify", "reset"} /\ r.held => r.credential.email = credential[r.who].email
    /\ r.op \in {"inbound", "pairing", "redeem", "wechat"} => r.subject \in Subjects
    /\ r.op \in {"wechat", "guidance"} => r.who \in Accounts
    /\ r.activation.completed => r.activation.inbound /\ r.who \in everUp

\* Sessions go back to a password, or to an artifact that may open one.
SessionOK(o) ==
    /\ o.by = 0 => account[o.account] = "web_first"
    /\ o.by # 0 =>
          /\ o.by \in DOMAIN artifact
          /\ artifact[o.by].type \in {"login_url", "email_verification", "claim_code"}
          /\ artifact[o.by].type # "claim_code" => artifact[o.by].account = o.account
          /\ artifact[o.by].type = "claim_code" =>
                artifact[o.by].browser = o.browser /\ Claimed(o.by, o.account)

IInv ==
    /\ TypeOK
    /\ OneAccountPerPerson
    /\ \A k \in DOMAIN artifact : ArtifactOK(k)
    /\ \A r \in requests : RequestOK(r)
    /\ \A o \in opened : SessionOK(o) /\ o.account \in Accounts /\ o.by \in Nat
    /\ CompletedIsGrounded

-----------------------------------------------------------------------------
(* Types.                                                                  *)

LEMMA AskedType ==
  ASSUME TypeOK, count < MaxRequests, NEW op \in Operations
  PROVE  /\ Asked(op) \in Requests
         /\ \A k \in DOMAIN artifact : Presenting(op, k) \in Requests
<1>1. /\ count + 1 \in 1 .. MaxRequests
      /\ NoArtifact \in Artifacts /\ NoCredential \in Credentials /\ NotActivated \in Activations
      /\ 0 \in 0 .. MaxArtifacts
  BY AccountAssumption
     DEF TypeOK, NoArtifact, Artifacts, ArtifactTypes, NoCredential, Credentials, NotActivated,
         Activations
<1>2. Asked(op) \in Requests
  BY <1>1 DEF Asked, Reading, Requests
<1>3. ASSUME NEW k \in DOMAIN artifact PROVE Presenting(op, k) \in Requests
  <2>1. /\ artifact[k] \in Artifacts /\ k \in 0 .. MaxArtifacts
        /\ artifact[k].account \in Accounts \cup {NoAccount}
    <3>1. artifact[k] \in Artifacts /\ k \in 1 .. Len(artifact)
      BY DEF TypeOK
    <3>2. artifact[k].account \in Accounts \cup {NoAccount}
      BY <3>1 DEF Artifacts
    <3> QED
      BY <3>1, <3>2, AccountAssumption DEF TypeOK
  <2> DEFINE x == artifact[k]
             y == artifact[k].account
  <2> HIDE DEF x, y
  <2>2. Reading(op, k, x, y) \in Requests
    BY <1>1, <2>1 DEF Reading, Requests, x, y
  <2> QED
    BY <2>2 DEF Presenting, x, y
<1> QED
  BY <1>2, <1>3

LEMMA TypeInit == Init => TypeOK
BY AccountAssumption
   DEF Init, TypeOK, Origins, Credentials, NoCredential, Activations, NotActivated

\* A row that is appended, or written in the place of another one.
LEMMA ArtifactTypesKept ==
  ASSUME TypeOK
  PROVE  /\ \A x \in Artifacts : \A k \in DOMAIN artifact :
               /\ [artifact EXCEPT ![k] = x] \in Seq(Artifacts)
               /\ DOMAIN [artifact EXCEPT ![k] = x] = DOMAIN artifact
               /\ Len([artifact EXCEPT ![k] = x]) = Len(artifact)
         /\ \A type \in ArtifactTypes, a \in Accounts \cup {NoAccount},
               b \in Browsers \cup {Nobody} :
               /\ Issued(artifact, type, a, b) \in Seq(Artifacts)
               /\ Len(Issued(artifact, type, a, b)) = Len(artifact) + 1
               /\ DOMAIN artifact \subseteq DOMAIN Issued(artifact, type, a, b)
<1>1. artifact \in Seq(Artifacts)
  BY DEF TypeOK
<1>2. ASSUME NEW x \in Artifacts, NEW k \in DOMAIN artifact
      PROVE  /\ [artifact EXCEPT ![k] = x] \in Seq(Artifacts)
             /\ DOMAIN [artifact EXCEPT ![k] = x] = DOMAIN artifact
             /\ Len([artifact EXCEPT ![k] = x]) = Len(artifact)
  BY <1>1
<1>3. ASSUME NEW type \in ArtifactTypes, NEW a \in Accounts \cup {NoAccount},
             NEW b \in Browsers \cup {Nobody}
      PROVE  /\ Issued(artifact, type, a, b) \in Seq(Artifacts)
             /\ Len(Issued(artifact, type, a, b)) = Len(artifact) + 1
             /\ DOMAIN artifact \subseteq DOMAIN Issued(artifact, type, a, b)
  <2> DEFINE row == [NoArtifact EXCEPT !.type = type, !.account = a, !.browser = b]
  <2>1. row \in Artifacts
    BY DEF NoArtifact, Artifacts
  <2> HIDE DEF row
  <2>2. Issued(artifact, type, a, b) = Append(artifact, row)
    BY DEF Issued, row
  <2> QED
    BY <1>1, <2>1, <2>2
<1> QED
  BY <1>2, <1>3

-----------------------------------------------------------------------------
(* What requests read.                                                     *)

\* A request with the fields that the operations fill in.
LEMMA Filled ==
  ASSUME NEW r \in Requests
  PROVE  /\ \A e \in Emails \cup {Nobody}, p \in Passwords \cup {Nobody} :
               [r EXCEPT !.email = e, !.password = p] \in Requests
         /\ \A p \in Passwords \cup {Nobody} : [r EXCEPT !.password = p] \in Requests
         /\ \A b \in Browsers \cup {Nobody} : [r EXCEPT !.browser = b] \in Requests
         /\ \A s \in Subjects \cup {Nobody} : [r EXCEPT !.subject = s] \in Requests
         /\ \A a \in Accounts \cup {NoAccount} :
               /\ [r EXCEPT !.who = a] \in Requests
               /\ \A b \in Browsers \cup {Nobody} : [r EXCEPT !.who = a, !.browser = b] \in Requests
               /\ \A s \in Subjects \cup {Nobody} :
                     /\ [r EXCEPT !.who = a, !.subject = s] \in Requests
                     /\ [r EXCEPT !.subject = s, !.who = a] \in Requests
         /\ \A act \in Activations :
               /\ \A s \in Subjects \cup {Nobody} :
                     [r EXCEPT !.subject = s, !.activation = act] \in Requests
               /\ \A up \in BOOLEAN : [r EXCEPT !.activation = act, !.up = up] \in Requests
               /\ \A a \in Accounts \cup {NoAccount} :
                     [r EXCEPT !.who = a, !.activation = act] \in Requests
<1>1. \A e \in Emails \cup {Nobody}, p \in Passwords \cup {Nobody} :
         [r EXCEPT !.email = e, !.password = p] \in Requests
  BY DEF Requests
<1>2. \A p \in Passwords \cup {Nobody} : [r EXCEPT !.password = p] \in Requests
  BY DEF Requests
<1>3. \A b \in Browsers \cup {Nobody} : [r EXCEPT !.browser = b] \in Requests
  BY DEF Requests
<1>4. ASSUME NEW a \in Accounts \cup {NoAccount}
      PROVE  /\ [r EXCEPT !.who = a] \in Requests
             /\ \A b \in Browsers \cup {Nobody} : [r EXCEPT !.who = a, !.browser = b] \in Requests
  BY DEF Requests
<1>5. ASSUME NEW a \in Accounts \cup {NoAccount}, NEW s \in Subjects \cup {Nobody}
      PROVE  /\ [r EXCEPT !.who = a, !.subject = s] \in Requests
             /\ [r EXCEPT !.subject = s, !.who = a] \in Requests
  BY DEF Requests
<1>6. ASSUME NEW act \in Activations, NEW s \in Subjects \cup {Nobody}
      PROVE  [r EXCEPT !.subject = s, !.activation = act] \in Requests
  BY DEF Requests
<1>7. ASSUME NEW act \in Activations, NEW up \in BOOLEAN
      PROVE  [r EXCEPT !.activation = act, !.up = up] \in Requests
  BY DEF Requests
<1>8. ASSUME NEW act \in Activations, NEW a \in Accounts \cup {NoAccount}
      PROVE  [r EXCEPT !.who = a, !.activation = act] \in Requests
  BY DEF Requests
<1>9. \A s \in Subjects \cup {Nobody} : [r EXCEPT !.subject = s] \in Requests
  BY DEF Requests
<1> QED
  BY <1>1, <1>2, <1>3, <1>4, <1>5, <1>6, <1>7, <1>8, <1>9

\* Every request that begins has read something that RequestOK allows.
LEMMA AskingBegins ==
  ASSUME IInv, Asking
  PROVE  \E r \in Requests : Begin(r) /\ RequestOK(r)
<1> USE DEF IInv
<1>0. /\ {"register", "login", "login_url", "claim", "complete", "verify", "reset", "resend",
          "pairing", "redeem", "inbound", "wechat", "guidance"} \subseteq Operations
      /\ ~NotActivated.completed
  BY DEF Operations, NotActivated
<1>1. ASSUME NEW e \in Emails, NEW p \in Passwords, RegisterBegin(e, p)
      PROVE  \E r \in Requests : Begin(r) /\ RequestOK(r)
  <2> DEFINE r == [Asked("register") EXCEPT !.email = e, !.password = p]
  <2>1. r \in Requests
    BY <1>1, <1>0, AskedType, Filled DEF RegisterBegin, Begin
  <2>2. RequestOK(r)
    BY <1>0 DEF RequestOK, Asked, Reading, Keyed
  <2> QED
    BY <1>1, <2>1, <2>2 DEF RegisterBegin
<1>2. ASSUME NEW e \in Emails, NEW p \in Passwords, LoginBegin(e, p)
      PROVE  \E r \in Requests : Begin(r) /\ RequestOK(r)
  <2>1. PICK a \in Of(e) : Begin([Asked("login") EXCEPT !.who = a])
    BY <1>2 DEF LoginBegin
  <2> DEFINE r == [Asked("login") EXCEPT !.who = a]
  <2>2. a \in Accounts /\ account[a] = "web_first"
    BY AccountAssumption DEF Of, Registered, OneAccountPerPerson
  <2>3. r \in Requests
    BY <2>1, <2>2, <1>0, AskedType, Filled DEF Begin
  <2>4. RequestOK(r)
    BY <2>2, <1>0 DEF RequestOK, Asked, Reading, Keyed
  <2> QED
    BY <2>1, <2>3, <2>4
<1>3. ASSUME NEW e \in Emails, ResendBegin(e)
      PROVE  \E r \in Requests : Begin(r) /\ RequestOK(r)
  <2>0. PICK a \in Of(e) : \E k \in Latest("email_verification", a) : Begin(Presenting("resend", k))
    BY <1>3 DEF ResendBegin
  <2>1. PICK k \in Latest("email_verification", a) : Begin(Presenting("resend", k))
    BY <2>0
  <2>2. k \in DOMAIN artifact /\ artifact[k].type = "email_verification"
    BY DEF Latest
  <2>3. Presenting("resend", k) \in Requests
    BY <2>1, <2>2, <1>0, AskedType DEF Begin
  <2>4. RequestOK(Presenting("resend", k))
    BY <2>2, <1>0 DEF Presenting, Reading, RequestOK, Keyed, TypeFor, ArtifactOK
  <2> QED
    BY <2>1, <2>3, <2>4
<1>4. ASSUME NEW k \in DOMAIN artifact, NEW b \in Browsers, RedeemLoginUrlBegin(k, b)
      PROVE  \E r \in Requests : Begin(r) /\ RequestOK(r)
  <2> DEFINE r == [Presenting("login_url", k) EXCEPT !.browser = b]
  <2>1. Begin(r) /\ artifact[k].type = "login_url"
    BY <1>4 DEF RedeemLoginUrlBegin, Usable
  <2>2. r \in Requests
    BY <2>1, <1>0, AskedType, Filled DEF Begin
  <2>3. RequestOK(r)
    BY <2>1, <1>0 DEF Presenting, Reading, RequestOK, Keyed, TypeFor, ArtifactOK
  <2> QED
    BY <2>1, <2>2, <2>3
<1>5. ASSUME NEW k \in DOMAIN artifact, NEW b \in Browsers, CompleteBegin(k, b)
      PROVE  \E r \in Requests : Begin(r) /\ RequestOK(r)
  <2> DEFINE a == artifact[k].target
             r == [Presenting("complete", k) EXCEPT !.who = a, !.browser = b]
  <2>1. /\ Begin(r) /\ artifact[k].type = "claim_code" /\ artifact[k].browser = b
        /\ a # NoAccount
    BY <1>5 DEF CompleteBegin
  <2>2. a \in Accounts \cup {NoAccount}
    <3>1. artifact[k] \in Artifacts
      BY DEF TypeOK
    <3> QED
      BY <3>1 DEF Artifacts
  <2>3. r \in Requests
    <3> HIDE DEF a
    <3> QED
      BY <2>1, <2>2, <1>0, AskedType, Filled DEF Begin
  <2>4. RequestOK(r)
    BY <2>1, <1>0 DEF Presenting, Reading, RequestOK, Keyed, TypeFor, ArtifactOK
  <2> QED
    BY <2>1, <2>3, <2>4
<1>6. ASSUME NEW k \in DOMAIN artifact, NEW op \in {"verify", "reset"},
             NEW p \in Passwords \cup {Nobody}, TokenBegin(op, k, p)
      PROVE  \E r \in Requests : Begin(r) /\ RequestOK(r)
  <2> DEFINE r == [Presenting(op, k) EXCEPT !.password = p]
  <2>1. Begin(r) /\ artifact[k].type = TypeFor(op)
    BY <1>6 DEF TokenBegin, Usable, TokenType, TypeFor
  <2>2. r \in Requests
    BY <2>1, <1>0, AskedType, Filled DEF Begin
  <2>3. RequestOK(r)
    BY <2>1, <1>0 DEF Presenting, Reading, RequestOK, Keyed, ArtifactOK
  <2> QED
    BY <2>1, <2>2, <2>3
<1>7. ASSUME NEW k \in DOMAIN artifact, NEW s \in Subjects, RedeemClaimBegin(k, s)
      PROVE  \E r \in Requests : Begin(r) /\ RequestOK(r)
  <2> DEFINE a == identity[s]
             r == [Presenting("claim", k) EXCEPT !.who = a, !.subject = s]
  <2>1. Begin(r) /\ artifact[k].type = "claim_code" /\ a \in Accounts
    BY <1>7 DEF RedeemClaimBegin, Usable, TypeOK
  <2>2. r \in Requests
    <3> HIDE DEF a
    <3> QED
      BY <2>1, <1>0, AskedType, Filled DEF Begin
  <2>3. RequestOK(r)
    BY <2>1, <1>0 DEF Presenting, Reading, RequestOK, Keyed, TypeFor, ArtifactOK
  <2> QED
    BY <2>1, <2>2, <2>3
<1>8. ASSUME NEW k \in DOMAIN artifact, NEW s \in WhatsApp, PairingBegin(s, k)
      PROVE  \E r \in Requests : Begin(r) /\ RequestOK(r)
  <2> DEFINE act == activation[artifact[k].account]
             r == [Presenting("pairing", k) EXCEPT !.subject = s, !.activation = act]
  <2>1. Begin(r) /\ artifact[k].type = "pairing_code" /\ s \in Subjects
    BY <1>8 DEF PairingBegin, Usable, Subjects
  <2>2. artifact[k].account \in Accounts
    BY <2>1 DEF ArtifactOK
  <2>3. act \in Activations
    BY <2>2 DEF TypeOK
  <2>4. r \in Requests
    <3> HIDE DEF act
    <3> QED
      BY <2>1, <2>3, <1>0, AskedType, Filled DEF Begin
  <2>5. act.completed => act.inbound /\ artifact[k].account \in everUp
    BY <2>2 DEF CompletedIsGrounded
  <2>6. RequestOK(r)
    <3> HIDE DEF act
    <3> QED
      BY <2>1, <2>5, <1>0 DEF Presenting, Reading, RequestOK, Keyed, TypeFor, ArtifactOK
  <2> QED
    BY <2>1, <2>4, <2>6
<1>9. ASSUME NEW s \in WhatsApp, InboundBegin(s)
      PROVE  \E r \in Requests : Begin(r) /\ RequestOK(r)
  <2> DEFINE a == identity[s]
             r == [Asked("inbound") EXCEPT !.subject = s, !.who = a]
  <2>1. s \in Subjects /\ a \in Accounts \cup {NoAccount}
    BY DEF Subjects, TypeOK
  <2>2. CASE Begin(r)
    <3>1. r \in Requests
      <4> HIDE DEF a
      <4> QED
        BY <2>1, <2>2, <1>0, AskedType, Filled DEF Begin
    <3>2. RequestOK(r)
      <4> HIDE DEF a
      <4> QED
        BY <2>1, <1>0 DEF RequestOK, Asked, Reading, Keyed
    <3> QED
      BY <2>2, <3>1, <3>2
  <2>3. CASE /\ a # NoAccount
             /\ Begin([r EXCEPT !.activation = activation[a], !.up = a \in connected])
    <3> DEFINE act == activation[a]
               up == a \in connected
               q == [r EXCEPT !.activation = act, !.up = up]
    <3>1. act \in Activations /\ up \in BOOLEAN /\ (act.completed => act.inbound /\ a \in everUp)
      BY <2>1, <2>3 DEF TypeOK, CompletedIsGrounded
    <3> HIDE DEF act, up, a
    <3>2. q \in Requests
      BY <2>1, <2>3, <3>1, <1>0, AskedType, Filled DEF Begin
    <3>3. RequestOK(q)
      BY <2>1, <3>1, <1>0 DEF RequestOK, Asked, Reading, Keyed
    <3>4. Begin(q)
      BY <2>3 DEF act, up
    <3> QED
      BY <3>2, <3>3, <3>4
  <2> QED
    BY <1>9, <2>2, <2>3 DEF InboundBegin
<1>10. ASSUME NEW s \in WeChat, NEW a \in Accounts, WeChatBegin(s, a)
       PROVE  \E r \in Requests : Begin(r) /\ RequestOK(r)
  <2> DEFINE act == activation[a]
             up == a \in connected
             r == [Asked("wechat") EXCEPT !.subject = s, !.who = a, !.activation = act, !.up = up]
  <2>1. /\ s \in Subjects /\ act \in Activations /\ up \in BOOLEAN
        /\ act.completed => act.inbound /\ a \in everUp
    BY DEF Subjects, TypeOK, CompletedIsGrounded
  <2>2. Begin(r)
    BY <1>10 DEF WeChatBegin
  <2> HIDE DEF act, up
  <2>3. r \in Requests
    BY <2>1, <2>2, <1>0, AskedType, Filled DEF Begin
  <2>4. RequestOK(r)
    BY <2>1, <1>0 DEF RequestOK, Asked, Reading, Keyed
  <2> QED
    BY <2>2, <2>3, <2>4
<1>11. ASSUME NEW a \in Registered, GuidanceBegin(a)
       PROVE  \E r \in Requests : Begin(r) /\ RequestOK(r)
  <2> DEFINE act == activation[a]
             r == [Asked("guidance") EXCEPT !.who = a, !.activation = act]
  <2>1. /\ a \in Accounts /\ act \in Activations /\ (act.completed => act.inbound /\ a \in everUp)
    BY DEF Registered, TypeOK, CompletedIsGrounded
  <2>2. Begin(r)
    BY <1>11 DEF GuidanceBegin
  <2> HIDE DEF act
  <2>3. r \in Requests
    BY <2>1, <2>2, <1>0, AskedType, Filled DEF Begin
  <2>4. RequestOK(r)
    BY <2>1, <1>0 DEF RequestOK, Asked, Reading, Keyed
  <2> QED
    BY <2>2, <2>3, <2>4
<1>12. ASSUME NEW k \in DOMAIN artifact, NEW s \in Subjects, RedeemPairingBegin(s, k)
       PROVE  \E r \in Requests : Begin(r) /\ RequestOK(r)
  <2> DEFINE r == [Presenting("redeem", k) EXCEPT !.subject = s]
  <2>1. Begin(r) /\ artifact[k].type = "pairing_code"
    BY <1>12 DEF RedeemPairingBegin, Usable
  <2>2. r \in Requests
    BY <2>1, <1>0, AskedType, Filled DEF Begin
  <2>3. RequestOK(r)
    BY <2>1, <1>0 DEF Presenting, Reading, RequestOK, Keyed, TypeFor, ArtifactOK
  <2> QED
    BY <2>1, <2>2, <2>3
<1> QED
  BY <1>1, <1>2, <1>3, <1>4, <1>5, <1>6, <1>7, <1>8, <1>9, <1>10, <1>11, <1>12 DEF Asking

-----------------------------------------------------------------------------
(* What steps write.                                                       *)

\* What is issued is issued to an account that is there.
LEMMA IssuingIssues ==
  ASSUME IInv, Issuing
  PROVE  \E type \in ArtifactTypes, a \in Accounts \cup {NoAccount}, b \in Browsers \cup {Nobody} :
            /\ Issue(type, a, b)
            /\ type \in {"email_verification", "password_reset", "pairing_code"} =>
                  a \in Accounts /\ account[a] = "web_first"
            /\ type = "login_url" => a \in Registered
<1>1. \A e \in Emails : \A a \in Of(e) : a \in Accounts /\ account[a] = "web_first"
  BY AccountAssumption DEF IInv, Of, Registered, OneAccountPerPerson
<1>2. Nobody \in Browsers \cup {Nobody} /\ Registered \subseteq Accounts
  BY DEF Registered
<1>3. {"login_url", "claim_code", "pairing_code", "password_reset", "email_verification"}
         \subseteq ArtifactTypes
  BY DEF ArtifactTypes
<1>4. ASSUME NEW a \in Accounts, IssueLoginUrl(a)
      PROVE  Issue("login_url", a, Nobody) /\ a \in Registered
  BY <1>4 DEF IssueLoginUrl
<1>5. ASSUME NEW a \in Accounts, IssuePairingCode(a)
      PROVE  Issue("pairing_code", a, Nobody) /\ account[a] = "web_first"
  BY <1>5 DEF IssuePairingCode
<1>6. ASSUME NEW b \in Browsers, IssueClaimCode(b)
      PROVE  Issue("claim_code", NoAccount, b)
  BY <1>6 DEF IssueClaimCode
<1>7. ASSUME NEW e \in Emails, IssuePasswordReset(e)
      PROVE  \E a \in Of(e) : Issue("password_reset", a, Nobody)
  BY <1>7 DEF IssuePasswordReset
<1>8. ASSUME NEW e \in Emails, ResendNew(e)
      PROVE  \E a \in Of(e) : Issue("email_verification", a, Nobody)
  BY <1>8 DEF ResendNew
<1> QED
  BY <1>1, <1>2, <1>3, <1>4, <1>5, <1>6, <1>7, <1>8 DEF Issuing

\* The row that a request saves: what it read of it, and what it changes.
LEMMA RowSaved ==
  ASSUME NEW row \in Artifacts, NEW a \in Accounts \cup {NoAccount}
  PROVE  /\ [row EXCEPT !.consumed = TRUE] \in Artifacts
         /\ [row EXCEPT !.completed = TRUE] \in Artifacts
         /\ [[row EXCEPT !.consumed = TRUE] EXCEPT !.target = a] \in Artifacts
         /\ [row EXCEPT !.consumed = TRUE].type = row.type
         /\ [row EXCEPT !.consumed = TRUE].account = row.account
         /\ [row EXCEPT !.consumed = TRUE].browser = row.browser
         /\ [row EXCEPT !.consumed = TRUE].target = row.target
         /\ [row EXCEPT !.completed = TRUE].type = row.type
         /\ [row EXCEPT !.completed = TRUE].account = row.account
         /\ [row EXCEPT !.completed = TRUE].browser = row.browser
         /\ [row EXCEPT !.completed = TRUE].target = row.target
         /\ [[row EXCEPT !.consumed = TRUE] EXCEPT !.target = a].type = row.type
         /\ [[row EXCEPT !.consumed = TRUE] EXCEPT !.target = a].account = row.account
         /\ [[row EXCEPT !.consumed = TRUE] EXCEPT !.target = a].browser = row.browser
         /\ [[row EXCEPT !.consumed = TRUE] EXCEPT !.target = a].target = a
BY DEF Artifacts

\* Saving x in the place of the artifact that request r presented.
LEMMA Saving ==
  ASSUME IInv, NEW r \in requests, r.op \in Keyed, NEW x \in Artifacts,
         x.type = r.row.type, x.account = r.row.account, x.browser = r.row.browser,
         artifact' = [artifact EXCEPT ![r.k] = x]
  PROVE  /\ artifact' \in Seq(Artifacts) /\ Len(artifact') = Len(artifact)
         /\ DOMAIN artifact' = DOMAIN artifact
         /\ r.k \in DOMAIN artifact /\ artifact'[r.k] = x
         /\ \A k \in DOMAIN artifact : k # r.k => artifact'[k] = artifact[k]
         /\ \A k \in DOMAIN artifact :
               /\ artifact'[k].type = artifact[k].type
               /\ artifact'[k].account = artifact[k].account
               /\ artifact'[k].browser = artifact[k].browser
<1>1. RequestOK(r)
  BY DEF IInv
<1>2. /\ r.k \in DOMAIN artifact /\ r.row.type = artifact[r.k].type
      /\ r.row.account = artifact[r.k].account /\ r.row.browser = artifact[r.k].browser
  BY <1>1 DEF RequestOK
<1>3. artifact \in Seq(Artifacts)
  BY DEF IInv, TypeOK
<1>4. /\ artifact' \in Seq(Artifacts) /\ Len(artifact') = Len(artifact)
      /\ DOMAIN artifact' = DOMAIN artifact
  BY <1>2, ArtifactTypesKept DEF IInv
<1>5. artifact'[r.k] = x /\ \A k \in DOMAIN artifact : k # r.k => artifact'[k] = artifact[k]
  BY <1>2, <1>3
<1> QED
  BY <1>2, <1>4, <1>5

\* Issuing an artifact.
LEMMA Appending ==
  ASSUME TypeOK, NEW type \in ArtifactTypes, NEW a \in Accounts \cup {NoAccount},
         NEW b \in Browsers \cup {Nobody}, artifact' = Issued(artifact, type, a, b), Room
  PROVE  /\ artifact' \in Seq(Artifacts) /\ Len(artifact') <= MaxArtifacts
         /\ DOMAIN artifact \subseteq DOMAIN artifact'
         /\ \A k \in DOMAIN artifact : artifact'[k] = artifact[k]
         /\ \A k \in DOMAIN artifact' : k \notin DOMAIN artifact =>
               /\ artifact'[k].type = type /\ artifact'[k].account = a
               /\ artifact'[k].target = NoAccount /\ ~artifact'[k].consumed
<1> DEFINE row == [NoArtifact EXCEPT !.type = type, !.account = a, !.browser = b]
<1>1. /\ row \in Artifacts /\ row.type = type /\ row.account = a /\ row.target = NoAccount
      /\ ~row.consumed
  BY DEF NoArtifact, Artifacts
<1> HIDE DEF row
<1>2. artifact' = Append(artifact, row) /\ artifact \in Seq(Artifacts)
  BY DEF Issued, row, TypeOK
<1>3. ASSUME NEW k \in DOMAIN artifact', k \notin DOMAIN artifact PROVE artifact'[k] = row
  <2>1. Len(artifact) \in Nat /\ DOMAIN artifact = 1 .. Len(artifact)
    BY <1>2
  <2>2. Append(artifact, row) \in Seq(Artifacts)
    BY <1>1, <1>2
  <2>3. Len(Append(artifact, row)) = Len(artifact) + 1
    BY <1>2
  <2>4. k \in 1 .. Len(artifact) + 1 /\ k \notin 1 .. Len(artifact)
    BY <1>2, <1>3, <2>1, <2>2, <2>3
  <2>5. k = Len(artifact) + 1
    BY <2>1, <2>4
  <2> QED
    BY <1>2, <2>5
<1>4. /\ artifact' \in Seq(Artifacts) /\ Len(artifact') = Len(artifact) + 1
      /\ \A k \in DOMAIN artifact : artifact'[k] = artifact[k]
      /\ DOMAIN artifact \subseteq DOMAIN artifact'
  BY <1>1, <1>2
<1>5. Len(artifact') <= MaxArtifacts
  BY <1>2, <1>4, AccountAssumption DEF Room
<1> QED
  BY <1>1, <1>3, <1>4, <1>5

\* A message: the channel that answered it, and the activation row.
LEMMA Reached ==
  ASSUME IInv, NEW r \in requests, NEW a \in Accounts, Reach(a, r),
         r.activation.completed => r.activation.inbound /\ a \in everUp
  PROVE  /\ connected' \subseteq Accounts
         /\ everUp \subseteq everUp' /\ everUp' \subseteq Accounts
         /\ activation' \in [Accounts -> Activations]
         /\ CompletedIsGrounded'
<1> DEFINE up == a \in connected'
           row == IF r.activation.inbound THEN activation[a]
                  ELSE [r.activation EXCEPT !.inbound = TRUE]
           new == [row EXCEPT !.completed = @ \/ (up /\ row.inbound)]
<1>1. /\ connected' \subseteq Accounts
      /\ everUp' = everUp \cup connected'
  BY DEF Reach, IInv, TypeOK
<1>2. everUp' \subseteq Accounts
  BY <1>1 DEF IInv, TypeOK
<1>3. r.activation \in Activations /\ activation \in [Accounts -> Activations]
  BY DEF IInv, TypeOK, Requests
<1>4. row \in Activations
  BY <1>3 DEF Activations
<1>5. row.completed => row.inbound /\ a \in everUp
  BY <1>3 DEF IInv, CompletedIsGrounded, Activations
<1>6. activation' = [activation EXCEPT ![a] = new]
  BY DEF Reach, Received, Recomputed
<1> HIDE DEF row
<1>7. new \in Activations
  BY <1>4 DEF Activations
<1>8. new.completed => new.inbound /\ a \in everUp'
  BY <1>1, <1>4, <1>5 DEF Activations
<1> HIDE DEF new
<1>9. activation' \in [Accounts -> Activations]
  BY <1>3, <1>6, <1>7
<1>10. CompletedIsGrounded'
  BY <1>1, <1>3, <1>6, <1>8 DEF IInv, CompletedIsGrounded
<1> QED
  BY <1>1, <1>2, <1>9, <1>10

-----------------------------------------------------------------------------
(* What never changes once it is there.                                    *)

Settled ==
    /\ \A a \in Accounts : account[a] # "absent" =>
          account'[a] = account[a] /\ credential'[a].email = credential[a].email
    /\ \A s \in Subjects : identity[s] # NoAccount => identity'[s] = identity[s]
    /\ DOMAIN artifact \subseteq DOMAIN artifact'
    /\ \A k \in DOMAIN artifact :
          /\ artifact'[k].type = artifact[k].type
          /\ artifact'[k].account = artifact[k].account
          /\ artifact'[k].browser = artifact[k].browser
    /\ redeemed \subseteq redeemed' /\ everUp \subseteq everUp'

\* A request that only waits keeps what it holds.
LEMMA RequestStays ==
  ASSUME IInv, Settled, NEW r \in Requests, RequestOK(r)
  PROVE  RequestOK(r)'
<1>1. \A k, a : Claimed(k, a) => Claimed(k, a)'
  BY DEF Claimed, Settled
<1>2. ASSUME r.op \in Keyed
      PROVE  /\ r.k \in DOMAIN artifact' /\ r.row.type = TypeFor(r.op)
             /\ r.row.type = artifact'[r.k].type /\ r.row.account = artifact'[r.k].account
             /\ r.row.browser = artifact'[r.k].browser
             /\ r.row.target # NoAccount => Claimed(r.k, r.row.target)'
  BY <1>1, <1>2 DEF RequestOK, Settled
<1>3. r.op = "login" => r.who \in Accounts /\ account'[r.who] = "web_first"
  BY DEF RequestOK, Settled
<1>4. ASSUME r.op \in {"verify", "reset"}, r.held
      PROVE  r.credential.email = credential'[r.who].email
  <2>1. /\ r.k \in DOMAIN artifact /\ r.who = artifact[r.k].account
        /\ artifact[r.k].type \in {"email_verification", "password_reset"}
    BY <1>4 DEF RequestOK, Keyed, TypeFor
  <2>2. r.who \in Accounts /\ account[r.who] = "web_first"
    BY <2>1 DEF IInv, ArtifactOK
  <2> QED
    BY <1>4, <2>2 DEF RequestOK, Settled
<1>5. r.activation.completed => r.activation.inbound /\ r.who \in everUp'
  BY DEF RequestOK, Settled
<1> QED
  BY <1>2, <1>3, <1>4, <1>5 DEF RequestOK

LEMMA SessionStays ==
  ASSUME IInv, Settled, NEW o \in opened
  PROVE  SessionOK(o)'
<1>1. Claimed(o.by, o.account) => Claimed(o.by, o.account)'
  BY DEF Claimed, Settled
<1>2. SessionOK(o) /\ o.account \in Accounts
  BY DEF IInv
<1>3. o.by = 0 => account'[o.account] = "web_first"
  BY <1>2 DEF SessionOK, Settled
<1> QED
  BY <1>1, <1>2, <1>3 DEF SessionOK, Settled

\* An artifact whose consumption and target are as they were, or justified.
LEMMA ArtifactStays ==
  ASSUME IInv, Settled, NEW k \in DOMAIN artifact,
         artifact'[k].consumed =>
            \/ artifact[k].consumed \/ artifact[k].type # "pairing_code"
            \/ \E s \in Subjects : identity'[s] = artifact[k].account,
         artifact'[k].target # NoAccount =>
            artifact'[k].target = artifact[k].target \/ Claimed(k, artifact[k].target)'
  PROVE  ArtifactOK(k)'
<1>1. ArtifactOK(k)
  BY DEF IInv
<1>2. \A a : Claimed(k, a) => Claimed(k, a)'
  BY DEF Claimed, Settled
<1>3. /\ artifact'[k].type \in {"email_verification", "password_reset", "pairing_code"} =>
            artifact'[k].account \in Accounts /\ account'[artifact'[k].account] = "web_first"
      /\ artifact'[k].type = "login_url" => artifact'[k].account \in Registered'
  BY <1>1 DEF ArtifactOK, Settled, Registered
<1>4. artifact'[k].type = "pairing_code" /\ artifact'[k].consumed =>
          \E s \in Subjects : identity'[s] = artifact'[k].account
  <2> SUFFICES ASSUME artifact[k].type = "pairing_code", artifact'[k].consumed
               PROVE  \E s \in Subjects : identity'[s] = artifact[k].account
    BY DEF Settled
  <2>1. CASE artifact[k].consumed
    <3>1. artifact[k].account \in Accounts
      BY <1>1 DEF ArtifactOK
    <3> QED
      BY <1>1, <2>1, <3>1, AccountAssumption DEF ArtifactOK, Settled
  <2> QED
    BY <2>1
<1>5. artifact'[k].target # NoAccount => Claimed(k, artifact[k].target)'
  BY <1>1, <1>2 DEF ArtifactOK
<1> QED
  BY <1>3, <1>4, <1>5 DEF ArtifactOK

\* A request that leaves.
LEMMA Leaving ==
  ASSUME IInv, Settled, NEW r \in requests, Leave(r)
  PROVE  /\ expired' \subseteq DOMAIN artifact' /\ requests' \subseteq Requests
         /\ count' \in 0 .. MaxRequests /\ outside' \in 0 .. MaxOutside
         /\ \A q \in requests' : RequestOK(q)'
<1>1. requests' \subseteq requests /\ UNCHANGED <<expired, count, outside>>
  BY DEF Leave
<1>2. ASSUME NEW q \in requests' PROVE RequestOK(q)'
  <2>1. q \in Requests /\ RequestOK(q)
    BY <1>1 DEF IInv, TypeOK
  <2> QED
    BY <2>1, RequestStays
<1> QED
  BY <1>1, <1>2 DEF IInv, TypeOK, Settled

\* A session that request r opens.
LEMMA Opening ==
  ASSUME NEW r \in Requests, NEW a
  PROVE  /\ Session(r, a).account = a /\ Session(r, a).by = r.k
         /\ Session(r, a).browser = r.browser /\ Session(r, a).by \in Nat
BY AccountAssumption DEF Session, Requests

-----------------------------------------------------------------------------
(* Commits that write the artifact alone.                                  *)

LEMMA SaveKeeps ==
  ASSUME IInv, NEW r \in requests, Leave(r), r.op \in Keyed, NEW x \in Artifacts,
         x.type = r.row.type, x.account = r.row.account, x.browser = r.row.browser,
         artifact' = [artifact EXCEPT ![r.k] = x],
         UNCHANGED <<account, credential, access, identity, activation, connected, everUp>>,
         redeemed \subseteq redeemed',
         x.type # "pairing_code",
         x.target # NoAccount => \E u \in redeemed' : u.k = r.k /\ u.op = "claim" /\ u.account = x.target,
         \A o \in opened' : o \in opened \/ (SessionOK(o)' /\ o.account \in Accounts /\ o.by \in Nat)
  PROVE  IInv'
<1>1. /\ artifact' \in Seq(Artifacts) /\ Len(artifact') = Len(artifact)
      /\ DOMAIN artifact' = DOMAIN artifact
      /\ r.k \in DOMAIN artifact /\ artifact'[r.k] = x
      /\ \A k \in DOMAIN artifact : k # r.k => artifact'[k] = artifact[k]
      /\ \A k \in DOMAIN artifact :
            /\ artifact'[k].type = artifact[k].type
            /\ artifact'[k].account = artifact[k].account
            /\ artifact'[k].browser = artifact[k].browser
  BY Saving
<1>2. Settled
  BY <1>1 DEF Settled
<1>3. TypeOK'
  BY <1>1, <1>2, Leaving DEF IInv, TypeOK
<1>4. OneAccountPerPerson'
  BY DEF IInv, OneAccountPerPerson
<1>5. ASSUME NEW k \in DOMAIN artifact' PROVE ArtifactOK(k)'
  <2>1. k \in DOMAIN artifact
    BY <1>1
  <2>2. CASE k = r.k
    <3>1. artifact'[k].target # NoAccount => Claimed(k, artifact[k].target)' 
      BY <1>1, <2>2 DEF Claimed
    <3>2. artifact[k].type # "pairing_code"
      BY <1>1, <2>2
    <3> QED
      BY <1>2, <2>1, <3>1, <3>2, ArtifactStays
  <2>3. CASE k # r.k
    BY <1>1, <1>2, <2>1, <2>3, ArtifactStays
  <2> QED
    BY <2>2, <2>3
<1>6. \A q \in requests' : RequestOK(q)'
  BY <1>2, Leaving
<1>7. \A o \in opened' : SessionOK(o)' /\ o.account \in Accounts /\ o.by \in Nat
  BY <1>2, SessionStays DEF IInv
<1>8. CompletedIsGrounded'
  BY DEF IInv, CompletedIsGrounded
<1> QED
  BY <1>3, <1>4, <1>5, <1>6, <1>7, <1>8 DEF IInv

LEMMA RedeemLoginUrlKeeps ==
  ASSUME IInv, NEW r \in requests, RedeemLoginUrlCommit(r)
  PROVE  IInv'
<1> DEFINE x == Consumed(r)
<1>1. r \in Requests /\ RequestOK(r) /\ r.row \in Artifacts
  BY DEF IInv, TypeOK, Requests
<1>2. /\ x \in Artifacts /\ x.type = r.row.type /\ x.account = r.row.account
      /\ x.browser = r.row.browser /\ x.target = r.row.target
  BY <1>1, RowSaved DEF Consumed
<1>3. /\ r.op = "login_url" /\ r.op \in Keyed /\ Leave(r)
      /\ artifact' = [artifact EXCEPT ![r.k] = x]
      /\ opened' = opened \cup {Session(r, r.who)} /\ redeemed \subseteq redeemed'
      /\ UNCHANGED <<account, credential, access, identity, activation, connected, everUp>>
  BY DEF RedeemLoginUrlCommit, Keyed
<1> HIDE DEF x
<1>4. /\ r.row.type = "login_url" /\ r.k \in DOMAIN artifact /\ r.who = r.row.account
      /\ r.row.type = artifact[r.k].type /\ r.row.account = artifact[r.k].account
      /\ r.row.target # NoAccount => Claimed(r.k, r.row.target)
  BY <1>1, <1>3 DEF RequestOK, TypeFor
<1>5. r.who \in Accounts
  BY <1>4 DEF IInv, ArtifactOK, Registered
<1>6. x.target # NoAccount => \E u \in redeemed' : u.k = r.k /\ u.op = "claim" /\ u.account = x.target
  BY <1>2, <1>3, <1>4 DEF Claimed
<1>7. r.k # 0 /\ r.k \in DOMAIN artifact' /\ artifact'[r.k].type = "login_url"
      /\ artifact'[r.k].account = r.who
  BY <1>1, <1>2, <1>3, <1>4, Saving DEF IInv, TypeOK
<1>8. \A o \in opened' : o \in opened \/ (SessionOK(o)' /\ o.account \in Accounts /\ o.by \in Nat)
  BY <1>1, <1>3, <1>5, <1>7, Opening DEF SessionOK
<1> QED
  BY <1>2, <1>3, <1>4, <1>6, <1>8, SaveKeeps

LEMMA RedeemClaimKeeps ==
  ASSUME IInv, NEW r \in requests, RedeemClaimCommit(r)
  PROVE  IInv'
<1> DEFINE x == [Consumed(r) EXCEPT !.target = r.who]
<1>1. r \in Requests /\ RequestOK(r) /\ r.row \in Artifacts /\ r.who \in Accounts \cup {NoAccount}
  BY DEF IInv, TypeOK, Requests
<1>2. /\ x \in Artifacts /\ x.type = r.row.type /\ x.account = r.row.account
      /\ x.browser = r.row.browser /\ x.target = r.who
  BY <1>1, RowSaved DEF Consumed
<1>3. /\ r.op = "claim" /\ r.op \in Keyed /\ Leave(r)
      /\ artifact' = [artifact EXCEPT ![r.k] = x]
      /\ opened' = opened /\ redeemed' = redeemed \cup {Used(r, r.who)}
      /\ UNCHANGED <<account, credential, access, identity, activation, connected, everUp>>
  BY DEF RedeemClaimCommit, Keyed
<1> HIDE DEF x
<1>4. r.row.type = "claim_code"
  BY <1>1, <1>3 DEF RequestOK, TypeFor
<1>5. \E u \in redeemed' : u.k = r.k /\ u.op = "claim" /\ u.account = x.target
  <2>1. Used(r, r.who).k = r.k /\ Used(r, r.who).op = r.op /\ Used(r, r.who).account = r.who
    BY DEF Used
  <2>2. Used(r, r.who) \in redeemed'
    BY <1>3
  <2> QED
    BY <1>2, <1>3, <2>1, <2>2
<1> QED
  BY <1>2, <1>3, <1>4, <1>5, SaveKeeps

LEMMA CompleteKeeps ==
  ASSUME IInv, NEW r \in requests, CompleteCommit(r)
  PROVE  IInv'
<1> DEFINE x == [r.row EXCEPT !.completed = TRUE]
<1>1. r \in Requests /\ RequestOK(r) /\ r.row \in Artifacts /\ r.who \in Accounts \cup {NoAccount}
  BY DEF IInv, TypeOK, Requests
<1>2. /\ x \in Artifacts /\ x.type = r.row.type /\ x.account = r.row.account
      /\ x.browser = r.row.browser /\ x.target = r.row.target
  BY <1>1, RowSaved
<1>3. /\ r.op = "complete" /\ r.op \in Keyed /\ Leave(r)
      /\ artifact' = [artifact EXCEPT ![r.k] = x]
      /\ opened' = opened \cup {Session(r, r.who)} /\ redeemed \subseteq redeemed'
      /\ UNCHANGED <<account, credential, access, identity, activation, connected, everUp>>
  BY DEF CompleteCommit, Keyed
<1> HIDE DEF x
<1>4. /\ r.row.type = "claim_code" /\ r.k \in DOMAIN artifact
      /\ r.row.browser = artifact[r.k].browser /\ r.browser = r.row.browser
      /\ r.row.type = artifact[r.k].type
      /\ r.who = r.row.target /\ r.who # NoAccount /\ Claimed(r.k, r.who)
  BY <1>1, <1>3 DEF RequestOK, TypeFor
<1>5. r.who \in Accounts
  BY <1>1, <1>4
<1>6. \E u \in redeemed' : u.k = r.k /\ u.op = "claim" /\ u.account = r.who
  BY <1>3, <1>4 DEF Claimed
<1>7. r.k # 0 /\ r.k \in DOMAIN artifact' /\ artifact'[r.k].type = "claim_code"
      /\ artifact'[r.k].browser = r.browser
  BY <1>1, <1>2, <1>3, <1>4, Saving DEF IInv, TypeOK
<1>8. \A o \in opened' : o \in opened \/ (SessionOK(o)' /\ o.account \in Accounts /\ o.by \in Nat)
  BY <1>1, <1>3, <1>5, <1>6, <1>7, Opening DEF SessionOK, Claimed
<1> QED
  BY <1>2, <1>3, <1>4, <1>6, <1>8, SaveKeeps

LEMMA ResendKeeps ==
  ASSUME IInv, NEW r \in requests, ResendCommit(r)
  PROVE  IInv'
<1>1. RequestOK(r) /\ r.row \in Artifacts
  BY DEF IInv, TypeOK, Requests
<1>2. /\ r.op = "resend" /\ r.op \in Keyed /\ Leave(r)
      /\ artifact' = [artifact EXCEPT ![r.k] = r.row]
      /\ opened' = opened /\ redeemed' = redeemed
      /\ UNCHANGED <<account, credential, access, identity, activation, connected, everUp>>
  BY DEF ResendCommit, Keyed, historyVars
<1>3. r.row.type = "email_verification" /\ (r.row.target # NoAccount => Claimed(r.k, r.row.target))
  BY <1>1, <1>2 DEF RequestOK, TypeFor
<1> QED
  BY <1>1, <1>2, <1>3, SaveKeeps DEF Claimed

-----------------------------------------------------------------------------
(* Commits that write accounts and credentials.                            *)

LEMMA LoginKeeps ==
  ASSUME IInv, NEW r \in requests, LoginCommit(r)
  PROVE  IInv'
<1>1. r \in Requests /\ RequestOK(r)
  BY DEF IInv, TypeOK
<1>2. /\ r.op = "login" /\ Leave(r) /\ opened' = opened \cup {Session(r, r.who)}
      /\ UNCHANGED <<account, credential, access, identity, activation, connected, artifact,
                     redeemed, everUp>>
  BY DEF LoginCommit, rowVars
<1>3. r.k = 0 /\ r.who \in Accounts /\ account[r.who] = "web_first"
  BY <1>1, <1>2 DEF RequestOK, Keyed
<1>4. Settled
  BY <1>2 DEF Settled
<1>5. TypeOK'
  BY <1>2, <1>4, Leaving DEF IInv, TypeOK
<1>6. \A q \in requests' : RequestOK(q)'
  BY <1>2, <1>4, Leaving
<1>7. SessionOK(Session(r, r.who))'
  BY <1>1, <1>2, <1>3, Opening DEF SessionOK
<1>8. \A o \in opened' : SessionOK(o)' /\ o.account \in Accounts /\ o.by \in Nat
  BY <1>1, <1>2, <1>3, <1>4, <1>7, SessionStays, Opening DEF IInv
<1>9. \A k \in DOMAIN artifact' : ArtifactOK(k)'
  BY <1>2, <1>4, ArtifactStays
<1>10. OneAccountPerPerson' /\ CompletedIsGrounded'
  BY <1>2 DEF IInv, OneAccountPerPerson, CompletedIsGrounded
<1> QED
  BY <1>5, <1>6, <1>8, <1>9, <1>10 DEF IInv

LEMMA RegisterKeeps ==
  ASSUME IInv, NEW r \in requests, RegisterCommit(r)
  PROVE  IInv'
<1> USE AccountAssumption
<1>1. r \in Requests /\ RequestOK(r)
  BY DEF IInv, TypeOK
<1>2. PICK a \in Accounts \ Registered :
         /\ NewAccount(a, "web_first")
         /\ credential' = [credential EXCEPT ![a] =
               [email |-> r.email, password |-> r.password, verified |-> ~EmailAuth]]
         /\ artifact' = IF EmailAuth THEN Issued(artifact, "email_verification", a, Nobody)
                                     ELSE artifact
         /\ opened' = opened \cup {Session(r, a)}
  BY DEF RegisterCommit
<1>3. /\ r.op = "register" /\ Leave(r) /\ Of(r.email) = {} /\ (EmailAuth => Room)
      /\ UNCHANGED <<identity, activation, connected, redeemed, everUp>>
  BY DEF RegisterCommit
<1>4. r.k = 0 /\ r.email \in Emails /\ r.password \in Passwords \cup {Nobody}
  BY <1>1, <1>3 DEF RequestOK, Keyed, Requests
<1>5. /\ account[a] = "absent" /\ account' = [account EXCEPT ![a] = "web_first"]
      /\ access' = [access EXCEPT ![a].verified = ~EmailAuth]
  BY <1>2 DEF NewAccount, Registered
<1>6. /\ account' \in [Accounts -> Origins]
      /\ access' \in [Accounts -> [verified : BOOLEAN, active : BOOLEAN]]
  BY <1>5 DEF IInv, TypeOK, Origins
<1>7. /\ credential' \in [Accounts -> Credentials] /\ credential'[a].email = r.email
      /\ \A b \in Accounts : b # a => credential'[b] = credential[b]
  <2> DEFINE row == [email |-> r.email, password |-> r.password, verified |-> ~EmailAuth]
  <2>1. row \in Credentials /\ row.email = r.email
    BY <1>4 DEF Credentials
  <2> HIDE DEF row
  <2>2. credential' = [credential EXCEPT ![a] = row]
    BY <1>2 DEF row
  <2> QED
    BY <2>1, <2>2 DEF IInv, TypeOK
<1>8. OneAccountPerPerson'
  <2>1. \A b \in Accounts : b # a => account'[b] = account[b]
    BY <1>5 DEF IInv, TypeOK
  <2>2. account'[a] = "web_first" /\ credential'[a].email # Nobody
    BY <1>4, <1>5, <1>7 DEF IInv, TypeOK
  <2>3. ASSUME NEW b \in Accounts, b # a PROVE credential'[b].email # r.email
    <3>1. credential[b].email = r.email => b \in Registered
      BY <1>4 DEF IInv, OneAccountPerPerson, Registered
    <3> QED
      BY <1>3, <1>7, <2>3, <3>1 DEF Of
  <2>4. \A b, c \in Accounts :
           credential'[b].email = credential'[c].email => b = c \/ credential'[b].email = Nobody
    BY <1>7, <2>3 DEF IInv, OneAccountPerPerson
  <2> QED
    BY <1>3, <1>7, <2>1, <2>2, <2>4 DEF IInv, OneAccountPerPerson
<1>9. /\ artifact' \in Seq(Artifacts) /\ Len(artifact') <= MaxArtifacts
      /\ DOMAIN artifact \subseteq DOMAIN artifact'
      /\ \A k \in DOMAIN artifact : artifact'[k] = artifact[k]
      /\ \A k \in DOMAIN artifact' : k \notin DOMAIN artifact =>
            /\ artifact'[k].type = "email_verification" /\ artifact'[k].account = a
            /\ artifact'[k].target = NoAccount
  <2>1. CASE EmailAuth
    BY <1>2, <1>3, <2>1, Appending DEF IInv, TypeOK, ArtifactTypes, Room
  <2>2. CASE ~EmailAuth
    BY <1>2, <2>2 DEF IInv, TypeOK
  <2> QED
    BY <2>1, <2>2
<1>10. Settled
  BY <1>3, <1>5, <1>7, <1>9 DEF Settled, IInv, TypeOK
<1>11. TypeOK'
  BY <1>3, <1>6, <1>7, <1>9, <1>10, Leaving DEF IInv, TypeOK
<1>12. \A q \in requests' : RequestOK(q)'
  BY <1>3, <1>10, Leaving
<1>13. account'[a] = "web_first"
  BY <1>5 DEF IInv, TypeOK
<1>14. SessionOK(Session(r, a))'
  BY <1>1, <1>4, <1>13, Opening DEF SessionOK
<1>15. \A o \in opened' : SessionOK(o)' /\ o.account \in Accounts /\ o.by \in Nat
  BY <1>1, <1>2, <1>10, <1>14, SessionStays, Opening DEF IInv
<1>16. ASSUME NEW k \in DOMAIN artifact' PROVE ArtifactOK(k)'
  <2>1. CASE k \in DOMAIN artifact
    BY <1>9, <1>10, <2>1, ArtifactStays
  <2>2. CASE k \notin DOMAIN artifact
    BY <1>9, <1>13, <2>2 DEF ArtifactOK
  <2> QED
    BY <2>1, <2>2
<1>17. CompletedIsGrounded'
  BY <1>3 DEF IInv, CompletedIsGrounded
<1> QED
  BY <1>8, <1>11, <1>12, <1>15, <1>16, <1>17 DEF IInv

\* Verifying and resetting: the credential is written as it was read after the artifact.
LEMMA TokenKeeps ==
  ASSUME IInv, NEW r \in requests, VerifyCommit(r) \/ ResetCommit(r)
  PROVE  IInv'
<1> DEFINE x == Consumed(r)
<1>1. r \in Requests /\ RequestOK(r) /\ r.row \in Artifacts /\ r.credential \in Credentials
      /\ r.password \in Passwords \cup {Nobody}
  BY DEF IInv, TypeOK, Requests
<1>2. /\ x \in Artifacts /\ x.type = r.row.type /\ x.account = r.row.account
      /\ x.browser = r.row.browser /\ x.target = r.row.target
  BY <1>1, RowSaved DEF Consumed
<1>3. /\ r.op \in {"verify", "reset"} /\ r.op \in Keyed /\ r.held /\ Leave(r)
      /\ artifact' = [artifact EXCEPT ![r.k] = x]
      /\ redeemed \subseteq redeemed'
      /\ UNCHANGED <<account, identity, activation, connected, everUp>>
  BY DEF VerifyCommit, ResetCommit, Keyed
<1> HIDE DEF x
<1>4. /\ r.row.type \in {"email_verification", "password_reset"} /\ r.k \in DOMAIN artifact
      /\ r.op = "verify" => r.row.type = "email_verification"
      /\ r.who = r.row.account /\ r.credential.email = credential[r.who].email
      /\ r.row.type = artifact[r.k].type /\ r.row.account = artifact[r.k].account
      /\ r.row.target # NoAccount => Claimed(r.k, r.row.target)
  BY <1>1, <1>3 DEF RequestOK, TypeFor
<1>5. r.who \in Accounts /\ account[r.who] = "web_first"
  BY <1>4 DEF IInv, ArtifactOK
<1>6. /\ credential' \in [Accounts -> Credentials]
      /\ \A a \in Accounts : credential'[a].email = credential[a].email
  <2>1. \E c \in Credentials : /\ c.email = r.credential.email
                               /\ credential' = [credential EXCEPT ![r.who] = c]
    <3>1. [r.credential EXCEPT !.verified = TRUE] \in Credentials
          /\ [r.credential EXCEPT !.verified = TRUE].email = r.credential.email
      BY <1>1 DEF Credentials
    <3>2. [r.credential EXCEPT !.password = r.password] \in Credentials
          /\ [r.credential EXCEPT !.password = r.password].email = r.credential.email
      BY <1>1 DEF Credentials
    <3>3. CASE VerifyCommit(r)
      BY <3>1, <3>3 DEF VerifyCommit
    <3>4. CASE ResetCommit(r)
      BY <3>2, <3>4 DEF ResetCommit
    <3> QED
      BY <3>3, <3>4
  <2> QED
    BY <1>4, <1>5, <2>1 DEF IInv, TypeOK
<1>7. access' \in [Accounts -> [verified : BOOLEAN, active : BOOLEAN]]
  <2>1. CASE VerifyCommit(r)
    <3>1. access' = [access EXCEPT ![r.who] = [verified |-> TRUE, active |-> r.active]]
      BY <2>1 DEF VerifyCommit
    <3>2. r.active \in BOOLEAN
      BY <1>1 DEF Requests
    <3> QED
      BY <3>1, <3>2 DEF IInv, TypeOK
  <2>2. CASE ResetCommit(r)
    BY <2>2 DEF ResetCommit, IInv, TypeOK
  <2> QED
    BY <2>1, <2>2
<1>8. /\ artifact' \in Seq(Artifacts) /\ Len(artifact') = Len(artifact)
      /\ DOMAIN artifact' = DOMAIN artifact
      /\ r.k \in DOMAIN artifact /\ artifact'[r.k] = x
      /\ \A k \in DOMAIN artifact : k # r.k => artifact'[k] = artifact[k]
      /\ \A k \in DOMAIN artifact :
            /\ artifact'[k].type = artifact[k].type
            /\ artifact'[k].account = artifact[k].account
            /\ artifact'[k].browser = artifact[k].browser
  BY <1>2, <1>3, Saving
<1>9. Settled
  BY <1>3, <1>6, <1>8 DEF Settled
<1>10. TypeOK'
  BY <1>3, <1>6, <1>7, <1>8, <1>9, Leaving DEF IInv, TypeOK
<1>11. OneAccountPerPerson'
  BY <1>3, <1>6 DEF IInv, OneAccountPerPerson
<1>12. ASSUME NEW k \in DOMAIN artifact' PROVE ArtifactOK(k)'
  <2>1. CASE k = r.k
    <3>1. artifact'[k].target # NoAccount => Claimed(k, artifact[k].target)'
      BY <1>2, <1>3, <1>4, <1>8, <2>1 DEF Claimed
    <3> QED
      BY <1>4, <1>8, <1>9, <2>1, <3>1, ArtifactStays
  <2>2. CASE k # r.k
    BY <1>8, <1>9, <2>2, ArtifactStays
  <2> QED
    BY <2>1, <2>2
<1>13. \A q \in requests' : RequestOK(q)'
  BY <1>3, <1>9, Leaving
<1>14. \A o \in opened' : SessionOK(o)' /\ o.account \in Accounts /\ o.by \in Nat
  <2>1. CASE ResetCommit(r)
    BY <1>9, <2>1, SessionStays DEF ResetCommit, IInv
  <2>2. CASE VerifyCommit(r)
    <3>1. opened' = opened \cup {Session(r, r.who)} /\ r.op = "verify"
      BY <2>2 DEF VerifyCommit
    <3>2. r.k # 0 /\ artifact'[r.k].type = "email_verification" /\ artifact'[r.k].account = r.who
      BY <1>2, <1>4, <1>8, <3>1 DEF IInv, TypeOK
    <3>3. SessionOK(Session(r, r.who))'
      BY <1>1, <1>8, <3>2, Opening DEF SessionOK
    <3> QED
      BY <1>1, <1>5, <1>9, <3>1, <3>3, SessionStays, Opening DEF IInv
  <2> QED
    BY <2>1, <2>2
<1>15. CompletedIsGrounded'
  BY <1>3 DEF IInv, CompletedIsGrounded
<1> QED
  BY <1>10, <1>11, <1>12, <1>13, <1>14, <1>15 DEF IInv

-----------------------------------------------------------------------------
(* Commits that follow a message.                                          *)

\* A message that leaves artifacts and credentials alone; a, to whom it is, is there
\* afterwards, and the sender is bound to it if the binding is new.
LEMMA MessageKeeps ==
  ASSUME IInv, NEW r \in requests, Leave(r), NEW a \in Accounts, Reach(a, r),
         r.activation.completed => r.activation.inbound /\ a \in everUp,
         UNCHANGED <<credential, artifact, opened, redeemed>>,
         account' \in [Accounts -> Origins],
         \A b \in Accounts : account'[b] = account[b] \/ account[b] = "absent",
         access' \in [Accounts -> [verified : BOOLEAN, active : BOOLEAN]],
         identity' \in [Subjects -> Accounts \cup {NoAccount}],
         \A s \in Subjects : identity[s] # NoAccount => identity'[s] = identity[s],
         OneAccountPerPerson'
  PROVE  IInv'
<1>1. /\ connected' \subseteq Accounts
      /\ everUp \subseteq everUp' /\ everUp' \subseteq Accounts
      /\ activation' \in [Accounts -> Activations]
      /\ CompletedIsGrounded'
  BY Reached
<1>2. Settled
  BY <1>1 DEF Settled
<1>3. TypeOK'
  BY <1>1, <1>2, Leaving DEF IInv, TypeOK
<1>4. \A k \in DOMAIN artifact' : ArtifactOK(k)'
  BY <1>2, ArtifactStays
<1>5. \A q \in requests' : RequestOK(q)'
  BY <1>2, Leaving
<1>6. \A o \in opened' : SessionOK(o)' /\ o.account \in Accounts /\ o.by \in Nat
  BY <1>2, SessionStays DEF IInv
<1> QED
  BY <1>1, <1>3, <1>4, <1>5, <1>6 DEF IInv

LEMMA WeChatKeeps ==
  ASSUME IInv, NEW r \in requests, WeChatCommit(r)
  PROVE  IInv'
<1>1. r \in Requests /\ RequestOK(r)
  BY DEF IInv, TypeOK
<1>2. /\ r.op = "wechat" /\ identity[r.subject] \in {NoAccount, r.who}
      /\ identity' = [identity EXCEPT ![r.subject] = r.who]
      /\ Reach(r.who, r) /\ Leave(r)
      /\ UNCHANGED <<account, credential, access, artifact, opened, redeemed>>
  BY DEF WeChatCommit
<1>3. /\ r.subject \in Subjects /\ r.who \in Accounts
      /\ r.activation.completed => r.activation.inbound /\ r.who \in everUp
  BY <1>1, <1>2 DEF RequestOK
<1>4. /\ identity' \in [Subjects -> Accounts \cup {NoAccount}]
      /\ \A s \in Subjects : identity[s] # NoAccount => identity'[s] = identity[s]
  BY <1>2, <1>3 DEF IInv, TypeOK
<1>5. OneAccountPerPerson'
  BY <1>2, <1>4, AccountAssumption DEF IInv, OneAccountPerPerson
<1> QED
  BY <1>2, <1>3, <1>4, <1>5, MessageKeeps DEF IInv, TypeOK

LEMMA InboundKeeps ==
  ASSUME IInv, NEW r \in requests, InboundCommit(r)
  PROVE  IInv'
<1>1. r \in Requests /\ RequestOK(r) /\ r.who \in Accounts \cup {NoAccount}
  BY DEF IInv, TypeOK, Requests
<1>2. /\ r.who # NoAccount /\ Reach(r.who, r) /\ Leave(r)
      /\ UNCHANGED <<account, credential, access, identity, artifact, opened, redeemed>>
  BY DEF InboundCommit
<1>3. r.activation.completed => r.activation.inbound /\ r.who \in everUp
  BY <1>1 DEF RequestOK
<1>4. OneAccountPerPerson'
  BY <1>2 DEF IInv, OneAccountPerPerson
<1> QED
  BY <1>1, <1>2, <1>3, <1>4, MessageKeeps DEF IInv, TypeOK

LEMMA FirstInboundKeeps ==
  ASSUME IInv, NEW r \in requests, FirstInboundCommit(r)
  PROVE  IInv'
<1> USE AccountAssumption
<1>1. r \in Requests /\ RequestOK(r)
  BY DEF IInv, TypeOK
<1>2. /\ r.op = "inbound" /\ r.who = NoAccount /\ identity[r.subject] = NoAccount
      /\ UNCHANGED <<credential, artifact, opened, redeemed>> /\ Leave(r)
  BY DEF FirstInboundCommit
<1>3. PICK a \in Accounts \ Registered :
         /\ NewAccount(a, "messaging_first")
         /\ identity' = [identity EXCEPT ![r.subject] = a]
         /\ Reach(a, r)
  BY DEF FirstInboundCommit
<1>4. r.subject \in Subjects /\ ~r.activation.completed
  BY <1>1, <1>2 DEF RequestOK, IInv, TypeOK
<1>5. account[a] = "absent" /\ account' = [account EXCEPT ![a] = "messaging_first"]
  BY <1>3 DEF NewAccount, Registered
<1>6. /\ account' \in [Accounts -> Origins] /\ account'[a] = "messaging_first"
      /\ \A b \in Accounts : b # a => account'[b] = account[b]
  BY <1>5 DEF IInv, TypeOK, Origins
<1>7. access' \in [Accounts -> [verified : BOOLEAN, active : BOOLEAN]]
  BY <1>3 DEF NewAccount, IInv, TypeOK
<1>8. /\ identity' \in [Subjects -> Accounts \cup {NoAccount}] /\ identity'[r.subject] = a
      /\ \A s \in Subjects : identity[s] # NoAccount => identity'[s] = identity[s]
  BY <1>2, <1>3, <1>4 DEF IInv, TypeOK
<1>9. OneAccountPerPerson'
  <2>1. ASSUME NEW b \in Accounts
        PROVE  /\ account'[b] = "web_first" <=> credential'[b].email # Nobody
               /\ account'[b] = "messaging_first" => \E s \in Subjects : identity'[s] = b
    <3>1. CASE b = a
      BY <1>2, <1>4, <1>5, <1>6, <1>8, <3>1 DEF IInv, OneAccountPerPerson
    <3>2. CASE b # a
      <4>1. account'[b] = account[b] /\ credential'[b] = credential[b]
        BY <1>2, <1>6, <3>2
      <4> QED
        BY <1>8, <4>1 DEF IInv, OneAccountPerPerson
    <3> QED
      BY <3>1, <3>2
  <2> QED
    BY <1>2, <2>1 DEF IInv, OneAccountPerPerson
<1> QED
  BY <1>2, <1>3, <1>4, <1>5, <1>6, <1>7, <1>8, <1>9, MessageKeeps

LEMMA PairingKeeps ==
  ASSUME IInv, NEW r \in requests, PairingCommit(r)
  PROVE  IInv'
<1> USE AccountAssumption
<1> DEFINE x == Consumed(r)
<1>1. r \in Requests /\ RequestOK(r) /\ r.row \in Artifacts
  BY DEF IInv, TypeOK, Requests
<1>2. /\ x \in Artifacts /\ x.type = r.row.type /\ x.account = r.row.account
      /\ x.browser = r.row.browser /\ x.target = r.row.target
  BY <1>1, RowSaved DEF Consumed
<1>3. /\ r.op \in {"pairing", "redeem"} /\ r.op \in Keyed /\ identity[r.subject] = NoAccount
      /\ artifact' = [artifact EXCEPT ![r.k] = x]
      /\ identity' = [identity EXCEPT ![r.subject] = r.who]
      /\ redeemed \subseteq redeemed' /\ Leave(r)
      /\ Reach(r.who, r) \/ UNCHANGED <<connected, everUp, activation>>
      /\ UNCHANGED <<account, credential, access, opened>>
  BY DEF PairingCommit, Keyed
<1> HIDE DEF x
<1>4. /\ r.row.type = "pairing_code" /\ r.subject \in Subjects /\ r.who = r.row.account
      /\ r.k \in DOMAIN artifact /\ r.row.type = artifact[r.k].type
      /\ r.row.account = artifact[r.k].account
      /\ r.row.target # NoAccount => Claimed(r.k, r.row.target)
      /\ r.activation.completed => r.activation.inbound /\ r.who \in everUp
  BY <1>1, <1>3 DEF RequestOK, TypeFor
<1>5. r.who \in Accounts
  BY <1>4 DEF IInv, ArtifactOK
<1>6. /\ connected' \subseteq Accounts
      /\ everUp \subseteq everUp' /\ everUp' \subseteq Accounts
      /\ activation' \in [Accounts -> Activations]
      /\ CompletedIsGrounded'
  <2>1. CASE Reach(r.who, r)
    BY <1>4, <1>5, <2>1, Reached
  <2>2. CASE UNCHANGED <<connected, everUp, activation>>
    BY <2>2 DEF IInv, TypeOK, CompletedIsGrounded
  <2> QED
    BY <1>3, <2>1, <2>2
<1>7. /\ identity' \in [Subjects -> Accounts \cup {NoAccount}] /\ identity'[r.subject] = r.who
      /\ \A s \in Subjects : identity[s] # NoAccount => identity'[s] = identity[s]
  BY <1>3, <1>4, <1>5 DEF IInv, TypeOK
<1>8. /\ artifact' \in Seq(Artifacts) /\ Len(artifact') = Len(artifact)
      /\ DOMAIN artifact' = DOMAIN artifact
      /\ artifact'[r.k] = x
      /\ \A k \in DOMAIN artifact : k # r.k => artifact'[k] = artifact[k]
      /\ \A k \in DOMAIN artifact :
            /\ artifact'[k].type = artifact[k].type
            /\ artifact'[k].account = artifact[k].account
            /\ artifact'[k].browser = artifact[k].browser
  BY <1>2, <1>3, Saving
<1>9. Settled
  BY <1>3, <1>6, <1>7, <1>8 DEF Settled
<1>10. TypeOK'
  BY <1>3, <1>6, <1>7, <1>8, <1>9, Leaving DEF IInv, TypeOK
<1>11. OneAccountPerPerson'
  BY <1>3, <1>7 DEF IInv, OneAccountPerPerson
<1>12. ASSUME NEW k \in DOMAIN artifact' PROVE ArtifactOK(k)'
  <2>1. CASE k = r.k
    <3>1. artifact'[k].target # NoAccount => Claimed(k, artifact[k].target)'
      BY <1>2, <1>3, <1>4, <1>8, <2>1 DEF Claimed
    <3>2. \E s \in Subjects : identity'[s] = artifact[k].account
      BY <1>4, <1>7, <2>1
    <3> QED
      BY <1>8, <1>9, <3>1, <3>2, ArtifactStays
  <2>2. CASE k # r.k
    BY <1>8, <1>9, <2>2, ArtifactStays
  <2> QED
    BY <2>1, <2>2
<1>13. \A q \in requests' : RequestOK(q)'
  BY <1>3, <1>9, Leaving
<1>14. \A o \in opened' : SessionOK(o)' /\ o.account \in Accounts /\ o.by \in Nat
  BY <1>3, <1>9, SessionStays DEF IInv
<1> QED
  BY <1>6, <1>10, <1>11, <1>12, <1>13, <1>14 DEF IInv

LEMMA GuidanceKeeps ==
  ASSUME IInv, NEW r \in requests, GuidanceCommit(r)
  PROVE  IInv'
<1>1. r \in Requests /\ RequestOK(r) /\ r.activation \in Activations
  BY DEF IInv, TypeOK, Requests
<1> DEFINE new == [r.activation EXCEPT !.guided = TRUE]
<1>2. /\ r.op = "guidance" /\ Leave(r)
      /\ activation' = [activation EXCEPT ![r.who] = new]
      /\ UNCHANGED <<account, credential, access, identity, connected, artifact, opened,
                     redeemed, everUp>>
  BY DEF GuidanceCommit, historyVars
<1>3. /\ r.who \in Accounts
      /\ r.activation.completed => r.activation.inbound /\ r.who \in everUp
  BY <1>1, <1>2 DEF RequestOK
<1>4. new \in Activations /\ (new.completed => new.inbound /\ r.who \in everUp)
  BY <1>1, <1>3 DEF Activations
<1> HIDE DEF new
<1>5. activation' \in [Accounts -> Activations]
  BY <1>2, <1>4 DEF IInv, TypeOK
<1>6. CompletedIsGrounded'
  BY <1>2, <1>4 DEF IInv, CompletedIsGrounded, TypeOK
<1>7. Settled
  BY <1>2 DEF Settled
<1>8. TypeOK'
  BY <1>2, <1>5, <1>7, Leaving DEF IInv, TypeOK
<1>9. OneAccountPerPerson'
  BY <1>2 DEF IInv, OneAccountPerPerson
<1>10. \A k \in DOMAIN artifact' : ArtifactOK(k)'
  BY <1>2, <1>7, ArtifactStays
<1>11. \A q \in requests' : RequestOK(q)'
  BY <1>2, <1>7, Leaving
<1>12. \A o \in opened' : SessionOK(o)' /\ o.account \in Accounts /\ o.by \in Nat
  BY <1>2, <1>7, SessionStays DEF IInv
<1> QED
  BY <1>6, <1>8, <1>9, <1>10, <1>11, <1>12 DEF IInv

-----------------------------------------------------------------------------
(* The other steps.                                                        *)

\* Steps that leave the rows alone: a request begins, takes the credential, fails; an
\* artifact's time is over.
LEMMA QuietKeeps ==
  ASSUME IInv, UNCHANGED <<account, credential, identity, activation, artifact, opened, redeemed,
                           everUp>>,
         access' \in [Accounts -> [verified : BOOLEAN, active : BOOLEAN]],
         connected' \subseteq Accounts,
         expired' \subseteq DOMAIN artifact, count' \in 0 .. MaxRequests,
         outside' \in 0 .. MaxOutside, requests' \subseteq Requests,
         \A r \in requests' : r \in requests \/ RequestOK(r)
  PROVE  IInv'
<1>1. Settled
  BY DEF Settled
<1>2. TypeOK'
  BY DEF IInv, TypeOK
<1>3. OneAccountPerPerson' /\ CompletedIsGrounded'
  BY DEF IInv, OneAccountPerPerson, CompletedIsGrounded
<1>4. \A k \in DOMAIN artifact' : ArtifactOK(k)'
  BY <1>1, ArtifactStays
<1>5. \A r \in requests' : RequestOK(r)'
  BY <1>1, RequestStays DEF IInv
<1>6. \A o \in opened' : SessionOK(o)' /\ o.account \in Accounts /\ o.by \in Nat
  BY <1>1, SessionStays DEF IInv
<1> QED
  BY <1>2, <1>3, <1>4, <1>5, <1>6 DEF IInv

LEMMA BeginKeeps ==
  ASSUME IInv, NEW r \in Requests, Begin(r), RequestOK(r)
  PROVE  IInv'
<1>1. count' \in 0 .. MaxRequests
  BY AccountAssumption DEF Begin, IInv, TypeOK
<1>2. /\ requests' = requests \cup {r}
      /\ UNCHANGED <<account, credential, access, identity, activation, connected, artifact,
                     expired, outside, opened, redeemed, everUp>>
  BY DEF Begin, rowVars, historyVars
<1> QED
  BY <1>1, <1>2, QuietKeeps DEF IInv, TypeOK

LEMMA TokenTakeKeeps ==
  ASSUME IInv, NEW r \in requests, TokenTake(r)
  PROVE  IInv'
<1> DEFINE c == credential[r.who]
           act == access[r.who].active
           q == [r EXCEPT !.held = TRUE, !.credential = c, !.active = act]
<1>1. /\ r \in Requests /\ RequestOK(r) /\ r.op \in {"verify", "reset"}
  BY DEF IInv, TypeOK, TokenTake
<1>2. r.who \in Accounts
  <2>1. /\ r.k \in DOMAIN artifact /\ r.who = artifact[r.k].account
        /\ artifact[r.k].type \in {"email_verification", "password_reset"}
    BY <1>1 DEF RequestOK, Keyed, TypeFor
  <2> QED
    BY <2>1 DEF IInv, ArtifactOK
<1>3. c \in Credentials /\ act \in BOOLEAN
  BY <1>2 DEF IInv, TypeOK
<1>4. requests' = (requests \ {r}) \cup {q}
  BY DEF TokenTake
<1>5. UNCHANGED <<account, credential, access, identity, activation, connected, artifact,
                  expired, count, outside, opened, redeemed, everUp>>
  BY DEF TokenTake, rowVars, historyVars
<1>6. c.email = credential[r.who].email
  OBVIOUS
<1> HIDE DEF c, act
<1>7. q \in Requests
  BY <1>1, <1>3 DEF Requests
<1>8. /\ q.op = r.op /\ q.k = r.k /\ q.row = r.row /\ q.who = r.who /\ q.email = r.email
      /\ q.subject = r.subject /\ q.browser = r.browser /\ q.activation = r.activation
      /\ q.credential = c
  BY <1>1 DEF Requests
<1> HIDE DEF q
<1>9. RequestOK(q)
  BY <1>1, <1>6, <1>8 DEF RequestOK
<1> QED
  BY <1>4, <1>5, <1>7, <1>9, QuietKeeps DEF IInv, TypeOK

LEMMA FailKeeps ==
  ASSUME IInv, NEW r \in requests, Fail(r)
  PROVE  IInv'
<1>1. /\ requests' \subseteq requests
      /\ UNCHANGED <<account, credential, access, identity, activation, connected, artifact,
                     expired, count, outside, opened, redeemed, everUp>>
  BY DEF Fail, Leave, rowVars, historyVars
<1> QED
  BY <1>1, QuietKeeps DEF IInv, TypeOK

LEMMA IssueKeeps ==
  ASSUME IInv, NEW type \in ArtifactTypes, NEW a \in Accounts \cup {NoAccount},
         NEW b \in Browsers \cup {Nobody}, Issue(type, a, b),
         type \in {"email_verification", "password_reset", "pairing_code"} =>
            a \in Accounts /\ account[a] = "web_first",
         type = "login_url" => a \in Registered
  PROVE  IInv'
<1>1. /\ Room /\ artifact' = Issued(artifact, type, a, b)
      /\ UNCHANGED <<account, credential, access, identity, activation, connected, expired,
                     requests, count, outside, opened, redeemed, everUp>>
  BY DEF Issue
<1>2. /\ artifact' \in Seq(Artifacts) /\ Len(artifact') <= MaxArtifacts
      /\ DOMAIN artifact \subseteq DOMAIN artifact'
      /\ \A k \in DOMAIN artifact : artifact'[k] = artifact[k]
      /\ \A k \in DOMAIN artifact' : k \notin DOMAIN artifact =>
            /\ artifact'[k].type = type /\ artifact'[k].account = a
            /\ artifact'[k].target = NoAccount /\ ~artifact'[k].consumed
  BY <1>1, Appending DEF IInv
<1>3. Settled
  BY <1>1, <1>2 DEF Settled
<1>4. TypeOK'
  BY <1>1, <1>2 DEF IInv, TypeOK
<1>5. OneAccountPerPerson' /\ CompletedIsGrounded'
  BY <1>1 DEF IInv, OneAccountPerPerson, CompletedIsGrounded
<1>6. ASSUME NEW k \in DOMAIN artifact' PROVE ArtifactOK(k)'
  <2>1. CASE k \in DOMAIN artifact
    BY <1>2, <1>3, <2>1, ArtifactStays
  <2>2. CASE k \notin DOMAIN artifact
    BY <1>1, <1>2, <2>2 DEF ArtifactOK, Registered
  <2> QED
    BY <2>1, <2>2
<1>7. \A r \in requests' : RequestOK(r)'
  BY <1>1, <1>3, RequestStays DEF IInv, TypeOK
<1>8. \A o \in opened' : SessionOK(o)' /\ o.account \in Accounts /\ o.by \in Nat
  BY <1>1, <1>3, SessionStays DEF IInv
<1> QED
  BY <1>4, <1>5, <1>6, <1>7, <1>8 DEF IInv

LEMMA ElsewhereKeeps ==
  ASSUME IInv, Elsewhere
  PROVE  IInv'
<1>1. outside < MaxOutside => outside + 1 \in 0 .. MaxOutside
  BY AccountAssumption DEF IInv, TypeOK
<1>2. ASSUME NEW k \in DOMAIN artifact, Expire(k) PROVE IInv'
  BY <1>1, <1>2, QuietKeeps DEF Expire, Outside, IInv, TypeOK
<1>3. ASSUME NEW a \in Accounts, LoseChannel(a) PROVE IInv'
  BY <1>1, <1>3, QuietKeeps DEF LoseChannel, Outside, IInv, TypeOK
<1>4. ASSUME NEW a \in Accounts, SetAccess(a) PROVE IInv'
  <2>1. access' = [access EXCEPT ![a].active = ~access[a].active]
    BY <1>4 DEF SetAccess
  <2>2. access' \in [Accounts -> [verified : BOOLEAN, active : BOOLEAN]]
    BY <2>1 DEF IInv, TypeOK
  <2> QED
    BY <1>1, <1>4, <2>2, QuietKeeps DEF SetAccess, Outside, IInv, TypeOK
<1>5. ASSUME NEW a \in Accounts, ObserveUsableChannel(a) PROVE IInv'
  <2> DEFINE new == [activation[a] EXCEPT !.completed = activation[a].completed \/ activation[a].inbound]
  <2>1. /\ connected' = connected \cup {a} /\ everUp' = everUp \cup {a}
        /\ UNCHANGED <<account, credential, access, identity, artifact, expired, requests, count,
                       opened, redeemed>>
        /\ outside' \in 0 .. MaxOutside
    BY <1>1, <1>5 DEF ObserveUsableChannel, Outside
  <2>2. activation' = [activation EXCEPT ![a] = new]
    BY <1>5 DEF ObserveUsableChannel, Recomputed
  <2>3. new \in Activations /\ (new.completed => new.inbound)
    BY DEF IInv, TypeOK, Activations, CompletedIsGrounded
  <2> HIDE DEF new
  <2>4. activation' \in [Accounts -> Activations]
    BY <2>2, <2>3 DEF IInv, TypeOK
  <2>5. CompletedIsGrounded'
    BY <2>1, <2>2, <2>3 DEF IInv, CompletedIsGrounded, TypeOK
  <2>6. Settled
    BY <2>1 DEF Settled
  <2>7. TypeOK'
    BY <2>1, <2>4 DEF IInv, TypeOK
  <2>8. OneAccountPerPerson'
    BY <2>1 DEF IInv, OneAccountPerPerson
  <2>9. \A k \in DOMAIN artifact' : ArtifactOK(k)'
    BY <2>1, <2>6, ArtifactStays
  <2>10. \A r \in requests' : RequestOK(r)'
    BY <2>1, <2>6, RequestStays DEF IInv, TypeOK
  <2>11. \A o \in opened' : SessionOK(o)' /\ o.account \in Accounts /\ o.by \in Nat
    BY <2>1, <2>6, SessionStays DEF IInv
  <2> QED
    BY <2>5, <2>7, <2>8, <2>9, <2>10, <2>11 DEF IInv
<1> QED
  BY <1>2, <1>3, <1>4, <1>5 DEF Elsewhere

-----------------------------------------------------------------------------
(* The invariants.                                                         *)

LEMMA InitIInv == Init => IInv
<1> SUFFICES ASSUME Init PROVE IInv
  OBVIOUS
<1>1. TypeOK
  BY TypeInit
<1>2. OneAccountPerPerson
  BY DEF Init, OneAccountPerPerson, NoCredential
<1>3. requests = {} /\ opened = {} /\ DOMAIN artifact = {}
  BY DEF Init
<1>4. CompletedIsGrounded
  BY DEF Init, CompletedIsGrounded, NotActivated
<1> QED
  BY <1>1, <1>2, <1>3, <1>4 DEF IInv

LEMMA NextIInv == IInv /\ [Next]_vars => IInv'
<1> SUFFICES ASSUME IInv, [Next]_vars PROVE IInv'
  OBVIOUS
<1>1. CASE Asking
  BY <1>1, AskingBegins, BeginKeeps
<1>2. CASE Issuing
  BY <1>2, IssuingIssues, IssueKeeps
<1>3. CASE Elsewhere
  BY <1>3, ElsewhereKeeps
<1>4. ASSUME NEW r \in requests,
             \/ RegisterCommit(r) \/ LoginCommit(r) \/ RedeemLoginUrlCommit(r)
             \/ RedeemClaimCommit(r) \/ CompleteCommit(r)
             \/ TokenTake(r) \/ VerifyCommit(r) \/ ResetCommit(r) \/ ResendCommit(r)
             \/ InboundCommit(r) \/ FirstInboundCommit(r) \/ PairingCommit(r) \/ WeChatCommit(r)
             \/ GuidanceCommit(r)
             \/ Fail(r)
      PROVE  IInv'
  BY <1>4, RegisterKeeps, LoginKeeps, RedeemLoginUrlKeeps, RedeemClaimKeeps, CompleteKeeps,
     TokenTakeKeeps, TokenKeeps, ResendKeeps, InboundKeeps, FirstInboundKeeps, PairingKeeps,
     WeChatKeeps, GuidanceKeeps, FailKeeps
<1>5. CASE UNCHANGED vars
  BY <1>5, QuietKeeps DEF vars, IInv, TypeOK
<1> QED
  BY <1>1, <1>2, <1>3, <1>4, <1>5 DEF Next, Committing

\* The inductive invariant holds in every state.
THEOREM Inductive == Spec => []IInv
<1>1. Init => IInv
  BY InitIInv
<1>2. IInv /\ [Next]_vars => IInv'
  BY NextIInv
<1> QED
  BY <1>1, <1>2, PTL DEF Spec

\* Every variable keeps its type (identity_access/models.py: the rows and their states).
THEOREM TypesHold == Spec => []TypeOK
<1>1. IInv => TypeOK
  BY DEF IInv
<1> QED
  BY <1>1, Inductive, PTL

\* However requests interleave, an account has one person and every person gets back in:
\* a web account has its own address, a messaging account its sender
\* (_create_account and the uniqueness of credential and channel_identity rows).
THEOREM PeopleKeepTheirAccounts == Spec => []OneAccountPerPerson
<1>1. IInv => OneAccountPerPerson
  BY DEF IInv
<1> QED
  BY <1>1, Inductive, PTL

\* A pairing code is consumed only with the binding it was for
\* (add_channel_identity_and_save_artifact), and nothing undoes the binding.
THEOREM PairingBinds == Spec => []ConsumedPairingBound
<1>1. IInv => ConsumedPairingBound
  BY DEF IInv, ArtifactOK, ConsumedPairingBound
<1> QED
  BY <1>1, Inductive, PTL

\* Every session goes back to a password or to an artifact that may open one, of the same
\* account and, for a claim code, of the same browser and of an account that redeemed it
\* (login, redeem_login_url, verify_email_and_create_session,
\* complete_web_claim_from_browser).
THEOREM EverySessionIsGrounded == Spec => []SessionsAreGrounded
<1>1. IInv => SessionsAreGrounded
  <2> SUFFICES ASSUME IInv, NEW o \in opened
               PROVE  IF o.by = 0 THEN account[o.account] = "web_first"
                      ELSE LET x == artifact[o.by]
                           IN  /\ x.type \in {"login_url", "email_verification"} => x.account = o.account
                               /\ x.type = "claim_code" =>
                                     /\ x.browser = o.browser
                                     /\ \E u \in redeemed : u.k = o.by /\ u.op = "claim"
                                                           /\ u.account = o.account
                               /\ x.type \notin {"password_reset", "pairing_code"}
    BY DEF SessionsAreGrounded
  <2>1. SessionOK(o)
    BY DEF IInv
  <2> QED
    BY <2>1 DEF SessionOK, Claimed
<1> QED
  BY <1>1, Inductive, PTL

\* Whoever writes the activation row from an older reading, onboarding is complete only
\* after a message and a channel (_recompute_activation).
THEOREM CompletionIsEarned == Spec => []CompletedIsGrounded
<1>1. IInv => CompletedIsGrounded
  BY DEF IInv
<1> QED
  BY <1>1, Inductive, PTL
=============================================================================

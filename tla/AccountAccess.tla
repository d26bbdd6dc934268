---------------------------- MODULE AccountAccess ----------------------------
(***************************************************************************)
(* Accounts and the codes that open them (domains/identity_access, the     *)
(* auth and claim routes): web accounts register with an e-mail address,   *)
(* messaging accounts are made by a first WhatsApp message; login links,   *)
(* claim codes, pairing codes, verification and reset tokens are rows of   *)
(* auth_artifact; the activation row follows the first message.            *)
(*                                                                         *)
(* A request reads rows without a lock, and its commit writes them whole.  *)
(* Verifying and resetting read the credential only after their update of  *)
(* the artifact, whose row stays locked until the commit: they have a step *)
(* in between.  An error rolls the request back: it leaves nothing.        *)
(* Channels are ChannelLifecycle's: here an account is connected or not.   *)
(* Subscription and suspension are one flag that operators set.            *)
(***************************************************************************)
EXTENDS Naturals, Sequences, FiniteSets

CONSTANTS
    Accounts,       \* ids the account table may hold
    NoAccount,
    Emails, Passwords, Browsers,
    Nobody,         \* no e-mail address, password, browser or subject
    WhatsApp, WeChat,   \* senders
    EmailAuth,      \* COKE_EMAIL_AUTH_ENABLED
    Kinds,          \* operations of a behaviour
    MaxArtifacts,
    MaxRequests,    \* requests that write what they read
    MaxOutside      \* expiries, channels lost, access changed by an operator

ArtifactTypes == {"email_verification", "password_reset", "login_url", "claim_code", "pairing_code"}
Operations == {"register", "login", "reset", "verify", "resend", "login_url", "claim",
               "complete", "pairing", "redeem", "inbound", "wechat", "guidance"}
Subjects == WhatsApp \cup WeChat

ASSUME AccountAssumption ==
    /\ NoAccount \notin Accounts
    /\ Nobody \notin Emails \cup Passwords \cup Browsers \cup Subjects
    /\ EmailAuth \in BOOLEAN
    /\ WhatsApp \cap WeChat = {}
    /\ Kinds \subseteq Operations
    /\ {MaxArtifacts, MaxRequests, MaxOutside} \subseteq Nat

VARIABLES
    account,    \* origin of each account
    credential, \* credential row of each account
    access,     \* account_access: the address is verified; subscribed and not suspended
    identity,   \* channel_identity: account of a subject
    activation, \* account_activation rows
    connected,  \* accounts with a usable channel
    artifact,   \* auth_artifact rows, in the order they were issued
    expired,    \* artifacts whose time is over
    requests,   \* requests that have read and not yet committed
    count,
    outside,
    opened,     \* history: sessions and what opened them
    redeemed,   \* history: uses of an artifact that were answered with success
    everUp      \* history: accounts that had a usable channel

vars == <<account, credential, access, identity, activation, connected, artifact, expired,
          requests, count, outside, opened, redeemed, everUp>>
rowVars == <<account, credential, access, identity, activation, connected, artifact>>
historyVars == <<opened, redeemed, everUp>>

Origins == {"absent", "web_first", "messaging_first"}
Credentials == [email : Emails \cup {Nobody}, password : Passwords \cup {Nobody}, verified : BOOLEAN]
NoCredential == [email |-> Nobody, password |-> Nobody, verified |-> FALSE]
Activations == [inbound : BOOLEAN, completed : BOOLEAN, guided : BOOLEAN]
NotActivated == [inbound |-> FALSE, completed |-> FALSE, guided |-> FALSE]
Artifacts == [type : ArtifactTypes, account : Accounts \cup {NoAccount},
              target : Accounts \cup {NoAccount}, browser : Browsers \cup {Nobody},
              consumed : BOOLEAN, completed : BOOLEAN]
NoArtifact == [type |-> "login_url", account |-> NoAccount, target |-> NoAccount,
               browser |-> Nobody, consumed |-> FALSE, completed |-> FALSE]
Requests == [op : Operations, n : 1..MaxRequests, held : BOOLEAN,
             k : 0..MaxArtifacts, row : Artifacts,
             who : Accounts \cup {NoAccount}, email : Emails \cup {Nobody},
             password : Passwords \cup {Nobody}, subject : Subjects \cup {Nobody},
             browser : Browsers \cup {Nobody}, credential : Credentials,
             activation : Activations, up : BOOLEAN, active : BOOLEAN]

Init ==
    /\ account = [a \in Accounts |-> "absent"]
    /\ credential = [a \in Accounts |-> NoCredential]
    /\ access = [a \in Accounts |-> [verified |-> FALSE, active |-> TRUE]]
    /\ identity = [s \in Subjects |-> NoAccount]
    /\ activation = [a \in Accounts |-> NotActivated]
    /\ connected = {}
    /\ artifact = <<>>
    /\ expired = {}
    /\ requests = {}
    /\ count = 0
    /\ outside = 0
    /\ opened = {}
    /\ redeemed = {}
    /\ everUp = {}

Registered == {a \in Accounts : account[a] # "absent"}
\* get_credential_by_email.
Of(e) == {a \in Registered : credential[a].email = e}
\* _derive_denial_reason finds none.
Allowed(a) == access[a].active /\ (EmailAuth => access[a].verified)

-----------------------------------------------------------------------------
(* Artifacts.                                                              *)

\* _require_unconsumed_artifact.
Usable(type) == {k \in DOMAIN artifact : /\ artifact[k].type = type
                                         /\ ~artifact[k].consumed
                                         /\ k \notin expired}

\* get_latest_unconsumed_artifact, when its time is not over.
Latest(type, a) ==
    LET open == {k \in DOMAIN artifact : /\ artifact[k].type = type
                                         /\ artifact[k].account = a
                                         /\ ~artifact[k].consumed}
    IN  {k \in open : (\A j \in open : j <= k) /\ k \notin expired}

\* _issue_artifact.
Issued(rows, type, a, b) ==
    Append(rows, [NoArtifact EXCEPT !.type = type, !.account = a, !.browser = b])
Room == Len(artifact) < MaxArtifacts

\* The row is not locked by a request that has updated it and not committed.
Unlocked(k) == \A r \in requests : r.held => r.k # k

Issue(type, a, b) ==
    /\ Room
    /\ artifact' = Issued(artifact, type, a, b)
    /\ UNCHANGED <<account, credential, access, identity, activation, connected, expired,
                   requests, count, outside, opened, redeemed, everUp>>

IssueLoginUrl(a) == "login_url" \in Kinds /\ a \in Registered /\ Issue("login_url", a, Nobody)
IssueClaimCode(b) == "claim" \in Kinds /\ Issue("claim_code", NoAccount, b)

\* issue_pairing_code: the claim route always makes a new code, ensure_pairing_code only
\* when no code is open.
IssuePairingCode(a) ==
    /\ {"pairing", "redeem"} \cap Kinds # {}
    /\ account[a] = "web_first" /\ Allowed(a)
    /\ Issue("pairing_code", a, Nobody)

IssuePasswordReset(e) ==
    /\ "reset" \in Kinds /\ EmailAuth
    /\ \E a \in Of(e) : Issue("password_reset", a, Nobody)

-----------------------------------------------------------------------------
(* Requests: what they read, and their commit.                             *)

Reading(op, k, row, who) ==
    [op |-> op, n |-> count + 1, held |-> FALSE, k |-> k, row |-> row, who |-> who,
     email |-> Nobody, password |-> Nobody, subject |-> Nobody, browser |-> Nobody,
     credential |-> NoCredential, activation |-> NotActivated, up |-> FALSE, active |-> FALSE]
Asked(op) == Reading(op, 0, NoArtifact, NoAccount)
Presenting(op, k) == Reading(op, k, artifact[k], artifact[k].account)

Begin(r) ==
    /\ r.op \in Kinds
    /\ count < MaxRequests
    /\ requests' = requests \cup {r}
    /\ count' = count + 1
    /\ UNCHANGED <<rowVars, expired, outside, historyVars>>

Leave(r) == requests' = requests \ {r} /\ UNCHANGED <<expired, count, outside>>

Session(r, a) == [account |-> a, by |-> r.k, op |-> r.op, n |-> r.n, browser |-> r.browser]
Used(r, a) == [k |-> r.k, op |-> r.op, n |-> r.n, account |-> a]

\* The whole row as the request read it, with its changes.
Consumed(r) == [r.row EXCEPT !.consumed = TRUE]

\* _create_account.
NewAccount(a, origin) ==
    /\ account' = [account EXCEPT ![a] = origin]
    /\ access' = [access EXCEPT ![a].verified = ~(origin = "web_first" /\ EmailAuth)]

\* register_web_account.
RegisterBegin(e, p) ==
    /\ Of(e) = {}
    /\ Begin([Asked("register") EXCEPT !.email = e, !.password = p])

\* Mutant of RegisterCommit: the account row outlives the credential it could not have.
RegisterOrphan(r) ==
    /\ r.op = "register"
    /\ EmailAuth => Room
    /\ \E a \in Accounts \ Registered :
          /\ NewAccount(a, "web_first")
          /\ credential' = IF Of(r.email) # {} THEN credential
                           ELSE [credential EXCEPT ![a] =
                                    [email |-> r.email, password |-> r.password,
                                     verified |-> ~EmailAuth]]
          /\ artifact' = IF EmailAuth THEN Issued(artifact, "email_verification", a, Nobody)
                                      ELSE artifact
          /\ opened' = opened \cup {Session(r, a)}
    /\ UNCHANGED <<identity, activation, connected, redeemed, everUp>>
    /\ Leave(r)

RegisterCommit(r) ==
    /\ r.op = "register"
    /\ Of(r.email) = {}             \* uq_credential_email
    /\ EmailAuth => Room
    /\ \E a \in Accounts \ Registered :
          /\ NewAccount(a, "web_first")
          /\ credential' = [credential EXCEPT ![a] =
                [email |-> r.email, password |-> r.password, verified |-> ~EmailAuth]]
          /\ artifact' = IF EmailAuth THEN Issued(artifact, "email_verification", a, Nobody)
                                      ELSE artifact
          /\ opened' = opened \cup {Session(r, a)}
    /\ UNCHANGED <<identity, activation, connected, redeemed, everUp>>
    /\ Leave(r)

\* login: the password is compared with the row that was read.
LoginBegin(e, p) ==
    \E a \in Of(e) : /\ credential[a].password = p
                     /\ Begin([Asked("login") EXCEPT !.who = a])
LoginCommit(r) ==
    /\ r.op = "login"
    /\ opened' = opened \cup {Session(r, r.who)}
    /\ UNCHANGED <<rowVars, redeemed, everUp>>
    /\ Leave(r)

\* redeem_login_url.
RedeemLoginUrlBegin(k, b) ==
    /\ k \in Usable("login_url")
    /\ Begin([Presenting("login_url", k) EXCEPT !.browser = b])
RedeemLoginUrlCommit(r) ==
    /\ r.op = "login_url" /\ Unlocked(r.k)
    /\ artifact' = [artifact EXCEPT ![r.k] = Consumed(r)]
    /\ opened' = opened \cup {Session(r, r.who)}
    /\ redeemed' = redeemed \cup {Used(r, r.who)}
    /\ UNCHANGED <<account, credential, access, identity, activation, connected, everUp>>
    /\ Leave(r)

\* redeem_claim_code_from_channel.
RedeemClaimBegin(k, s) ==
    /\ identity[s] # NoAccount
    /\ k \in Usable("claim_code")
    /\ Begin([Presenting("claim", k) EXCEPT !.who = identity[s], !.subject = s])
RedeemClaimCommit(r) ==
    /\ r.op = "claim" /\ Unlocked(r.k)
    /\ artifact' = [artifact EXCEPT ![r.k] = [Consumed(r) EXCEPT !.target = r.who]]
    /\ redeemed' = redeemed \cup {Used(r, r.who)}
    /\ UNCHANGED <<account, credential, access, identity, activation, connected, opened, everUp>>
    /\ Leave(r)

\* complete_web_claim_from_browser.
\* Mutant of CompleteBegin: any browser that knows the code may complete it.
CompleteAnywhere(k, b) ==
    /\ artifact[k].type = "claim_code" /\ k \notin expired
    /\ artifact[k].consumed /\ artifact[k].target # NoAccount
    /\ ~artifact[k].completed
    /\ Begin([Presenting("complete", k) EXCEPT !.who = artifact[k].target, !.browser = b])
CompleteBegin(k, b) ==
    /\ artifact[k].type = "claim_code" /\ k \notin expired
    /\ artifact[k].browser = b
    /\ artifact[k].consumed /\ artifact[k].target # NoAccount
    /\ ~artifact[k].completed
    /\ Begin([Presenting("complete", k) EXCEPT !.who = artifact[k].target, !.browser = b])
CompleteCommit(r) ==
    /\ r.op = "complete" /\ Unlocked(r.k)
    /\ artifact' = [artifact EXCEPT ![r.k] = [r.row EXCEPT !.completed = TRUE]]
    /\ opened' = opened \cup {Session(r, r.who)}
    /\ redeemed' = redeemed \cup {Used(r, r.who)}
    /\ UNCHANGED <<account, credential, access, identity, activation, connected, everUp>>
    /\ Leave(r)

\* verify_email_and_create_session and reset_password: the artifact is consumed, then
\* the credential and the access row are read and written whole.
TokenType(op) == IF op = "verify" THEN "email_verification" ELSE "password_reset"
TokenBegin(op, k, p) ==
    /\ EmailAuth
    /\ op \in {"verify", "reset"} /\ k \in Usable(TokenType(op))
    /\ op = "verify" => p = Nobody
    /\ op = "reset" => p # Nobody
    /\ Begin([Presenting(op, k) EXCEPT !.password = p])
TokenTake(r) ==
    /\ r.op \in {"verify", "reset"} /\ ~r.held /\ Unlocked(r.k)
    /\ requests' = (requests \ {r})
          \cup {[r EXCEPT !.held = TRUE, !.credential = credential[r.who],
                          !.active = access[r.who].active]}
    /\ UNCHANGED <<rowVars, expired, count, outside, historyVars>>
VerifyCommit(r) ==
    /\ r.op = "verify" /\ r.held
    /\ artifact' = [artifact EXCEPT ![r.k] = Consumed(r)]
    /\ credential' = [credential EXCEPT ![r.who] = [r.credential EXCEPT !.verified = TRUE]]
    /\ access' = [access EXCEPT ![r.who] = [verified |-> TRUE, active |-> r.active]]
    /\ opened' = opened \cup {Session(r, r.who)}
    /\ redeemed' = redeemed \cup {Used(r, r.who)}
    /\ UNCHANGED <<account, identity, activation, connected, everUp>>
    /\ Leave(r)
ResetCommit(r) ==
    /\ r.op = "reset" /\ r.held
    /\ artifact' = [artifact EXCEPT ![r.k] = Consumed(r)]
    /\ credential' = [credential EXCEPT ![r.who] = [r.credential EXCEPT !.password = r.password]]
    /\ redeemed' = redeemed \cup {Used(r, r.who)}
    /\ UNCHANGED <<account, access, identity, activation, connected, opened, everUp>>
    /\ Leave(r)

\* resend_email_verification: an open token is saved again and sent again, else a new one.
ResendBegin(e) ==
    /\ EmailAuth
    /\ \E a \in Of(e) : \E k \in Latest("email_verification", a) : Begin(Presenting("resend", k))
ResendNew(e) ==
    /\ EmailAuth /\ "resend" \in Kinds
    /\ \E a \in Of(e) : /\ Latest("email_verification", a) = {}
                        /\ Issue("email_verification", a, Nobody)
ResendCommit(r) ==
    /\ r.op = "resend" /\ Unlocked(r.k)
    /\ artifact' = [artifact EXCEPT ![r.k] = r.row]
    /\ UNCHANGED <<account, credential, access, identity, activation, connected, historyVars>>
    /\ Leave(r)

-----------------------------------------------------------------------------
(* Messages and activation.                                                *)

\* mark_first_inbound_received, then _recompute_activation on the row it has written.
Recomputed(row, usable) == [row EXCEPT !.completed = @ \/ (usable /\ row.inbound)]
Received(a, r, usable) ==
    LET row == IF r.activation.inbound THEN activation[a] ELSE [r.activation EXCEPT !.inbound = TRUE]
    IN  Recomputed(row, usable)

\* A WhatsApp message, with a pairing code or without.
InboundBegin(s) ==
    LET a == identity[s]
        r == [Asked("inbound") EXCEPT !.subject = s, !.who = a]
    IN  IF a = NoAccount THEN Begin(r)
        ELSE /\ Allowed(a)
             /\ Begin([r EXCEPT !.activation = activation[a], !.up = a \in connected])
PairingBegin(s, k) ==
    /\ k \in Usable("pairing_code")
    /\ Allowed(artifact[k].account)
    /\ artifact[k].account \notin connected
    /\ identity[s] = NoAccount
    /\ Begin([Presenting("pairing", k) EXCEPT !.subject = s,
                  !.activation = activation[artifact[k].account]])
\* The claim route names the sender and asks for no channel.
RedeemPairingBegin(s, k) ==
    /\ k \in Usable("pairing_code")
    /\ Allowed(artifact[k].account)
    /\ identity[s] = NoAccount
    /\ Begin([Presenting("redeem", k) EXCEPT !.subject = s])

\* The channel is marked connected unless the request found it so.
Reach(a, r) ==
    /\ connected' = IF r.up THEN connected ELSE connected \cup {a}
    /\ everUp' = everUp \cup connected'
    /\ activation' = [activation EXCEPT ![a] = Received(a, r, a \in connected')]

\* A message of an account's WeChat session: bind_channel_identity_to_account.
WeChatBegin(s, a) ==
    /\ a \in Registered /\ Allowed(a)
    /\ identity[s] \in {NoAccount, a}
    /\ Begin([Asked("wechat") EXCEPT !.subject = s, !.who = a,
                  !.activation = activation[a], !.up = a \in connected])
WeChatCommit(r) ==
    /\ r.op = "wechat"
    /\ identity[r.subject] \in {NoAccount, r.who}
    /\ identity' = [identity EXCEPT ![r.subject] = r.who]
    /\ Reach(r.who, r)
    /\ UNCHANGED <<account, credential, access, artifact, opened, redeemed>>
    /\ Leave(r)

InboundCommit(r) ==
    /\ r.op = "inbound" /\ r.who # NoAccount
    /\ Reach(r.who, r)
    /\ UNCHANGED <<account, credential, access, identity, artifact, opened, redeemed>>
    /\ Leave(r)
\* _create_account and its anchor.
FirstInboundCommit(r) ==
    /\ r.op = "inbound" /\ r.who = NoAccount
    /\ identity[r.subject] = NoAccount      \* uq_channel_identity_provider_subject
    /\ \E a \in Accounts \ Registered :
          /\ NewAccount(a, "messaging_first")
          /\ identity' = [identity EXCEPT ![r.subject] = a]
          /\ Reach(a, r)
    /\ UNCHANGED <<credential, artifact, opened, redeemed>>
    /\ Leave(r)

\* add_channel_identity_and_save_artifact: both rows or neither.
\* Mutant of PairingCommit: the code is consumed before the identity is inserted.
PairingConsumesFirst(r) ==
    /\ r.op = "pairing" /\ Unlocked(r.k)
    /\ artifact' = [artifact EXCEPT ![r.k] = Consumed(r)]
    /\ IF identity[r.subject] = NoAccount
       THEN /\ identity' = [identity EXCEPT ![r.subject] = r.who]
            /\ redeemed' = redeemed \cup {Used(r, r.who)}
            /\ Reach(r.who, r)
       ELSE UNCHANGED <<identity, redeemed, connected, everUp, activation>>
    /\ UNCHANGED <<account, credential, access, opened>>
    /\ Leave(r)
PairingCommit(r) ==
    /\ r.op \in {"pairing", "redeem"} /\ Unlocked(r.k)
    /\ identity[r.subject] = NoAccount
    /\ artifact' = [artifact EXCEPT ![r.k] = Consumed(r)]
    /\ identity' = [identity EXCEPT ![r.subject] = r.who]
    /\ redeemed' = redeemed \cup {Used(r, r.who)}
    /\ IF r.op = "pairing" THEN Reach(r.who, r)
                           ELSE UNCHANGED <<connected, everUp, activation>>
    /\ UNCHANGED <<account, credential, access, opened>>
    /\ Leave(r)

\* mark_first_guidance_sent, by the worker once the reply is delivered.
GuidanceBegin(a) ==
    /\ activation[a].inbound /\ ~activation[a].guided
    /\ Begin([Asked("guidance") EXCEPT !.who = a, !.activation = activation[a]])
GuidanceCommit(r) ==
    /\ r.op = "guidance"
    /\ activation' = [activation EXCEPT ![r.who] = [r.activation EXCEPT !.guided = TRUE]]
    /\ UNCHANGED <<account, credential, access, identity, connected, artifact, historyVars>>
    /\ Leave(r)

\* An error of the request or of the database: the transaction is rolled back.
Fail(r) == UNCHANGED <<rowVars, historyVars>> /\ Leave(r)

-----------------------------------------------------------------------------
(* Time, channels and operators.                                           *)

Outside == outside < MaxOutside /\ outside' = outside + 1
           /\ UNCHANGED <<account, credential, identity, artifact, requests, count, opened, redeemed>>
Expire(k) ==
    /\ k \notin expired
    /\ expired' = expired \cup {k}
    /\ UNCHANGED <<access, activation, connected, everUp>>
    /\ Outside
LoseChannel(a) ==
    /\ a \in connected
    /\ connected' = connected \ {a}
    /\ UNCHANGED <<access, activation, expired, everUp>>
    /\ Outside
\* observe_usable_channel, when a WeChat login has been confirmed.
\* Mutant of ObserveUsableChannel: the channel alone completes the activation.
ObserveIsEnough(a) ==
    /\ a \in Registered \ connected /\ Allowed(a)
    /\ connected' = connected \cup {a}
    /\ everUp' = everUp \cup {a}
    /\ activation' = [activation EXCEPT ![a].completed = TRUE]
    /\ UNCHANGED <<access, expired>>
    /\ Outside
ObserveUsableChannel(a) ==
    /\ a \in Registered \ connected /\ Allowed(a)
    /\ connected' = connected \cup {a}
    /\ everUp' = everUp \cup {a}
    /\ activation' = [activation EXCEPT ![a] = Recomputed(@, TRUE)]
    /\ UNCHANGED <<access, expired>>
    /\ Outside
\* set_access_state by an operator.
SetAccess(a) ==
    /\ a \in Registered
    /\ access' = [access EXCEPT ![a].active = ~@]
    /\ UNCHANGED <<activation, connected, expired, everUp>>
    /\ Outside

Asking ==
    \/ \E e \in Emails, p \in Passwords : RegisterBegin(e, p) \/ LoginBegin(e, p)
    \/ \E e \in Emails : ResendBegin(e)
    \/ \E k \in DOMAIN artifact :
          \/ \E b \in Browsers : RedeemLoginUrlBegin(k, b) \/ CompleteBegin(k, b)
          \/ \E op \in {"verify", "reset"}, p \in Passwords \cup {Nobody} : TokenBegin(op, k, p)
          \/ \E s \in Subjects : RedeemClaimBegin(k, s)
          \/ \E s \in WhatsApp : PairingBegin(s, k)
          \/ \E s \in Subjects : RedeemPairingBegin(s, k)
    \/ \E s \in WhatsApp : InboundBegin(s)
    \/ \E s \in WeChat, a \in Accounts : WeChatBegin(s, a)
    \/ \E a \in Registered : GuidanceBegin(a)
Committing ==
    \E r \in requests :
       \/ RegisterCommit(r) \/ LoginCommit(r) \/ RedeemLoginUrlCommit(r)
       \/ RedeemClaimCommit(r) \/ CompleteCommit(r)
       \/ TokenTake(r) \/ VerifyCommit(r) \/ ResetCommit(r) \/ ResendCommit(r)
       \/ InboundCommit(r) \/ FirstInboundCommit(r) \/ PairingCommit(r) \/ WeChatCommit(r)
       \/ GuidanceCommit(r)
       \/ Fail(r)
Issuing ==
    \/ \E a \in Accounts : IssueLoginUrl(a) \/ IssuePairingCode(a)
    \/ \E b \in Browsers : IssueClaimCode(b)
    \/ \E e \in Emails : IssuePasswordReset(e) \/ ResendNew(e)
Elsewhere ==
    \/ \E k \in DOMAIN artifact : Expire(k)
    \/ \E a \in Accounts : LoseChannel(a) \/ ObserveUsableChannel(a) \/ SetAccess(a)

Next == Asking \/ Committing \/ Issuing \/ Elsewhere

Spec == Init /\ [][Next]_vars

-----------------------------------------------------------------------------
(* What holds.                                                             *)

TypeOK ==
    /\ account \in [Accounts -> Origins]
    /\ credential \in [Accounts -> Credentials]
    /\ access \in [Accounts -> [verified : BOOLEAN, active : BOOLEAN]]
    /\ identity \in [Subjects -> Accounts \cup {NoAccount}]
    /\ activation \in [Accounts -> Activations]
    /\ connected \subseteq Accounts
    /\ artifact \in Seq(Artifacts) /\ Len(artifact) <= MaxArtifacts
    /\ expired \subseteq DOMAIN artifact
    /\ requests \subseteq Requests
    /\ count \in 0..MaxRequests
    /\ outside \in 0..MaxOutside
    /\ everUp \subseteq Accounts

\* However registrations and first messages race, a web account has a credential of its
\* own address, a messaging account the sender that made it, and no account is left that
\* nobody can enter: creating one is several inserts in one transaction.
OneAccountPerPerson ==
    /\ \A a \in Accounts :
          /\ account[a] = "web_first" <=> credential[a].email # Nobody
          /\ account[a] = "messaging_first" => \E s \in Subjects : identity[s] = a
    /\ \A a, b \in Accounts :
          credential[a].email = credential[b].email => a = b \/ credential[a].email = Nobody

\* A consumed pairing code has bound a sender to its account: when the sender's first
\* message or another binding wins the race, the code stays usable.
ConsumedPairingBound ==
    \A k \in DOMAIN artifact :
       artifact[k].type = "pairing_code" /\ artifact[k].consumed =>
          \E s \in Subjects : identity[s] = artifact[k].account

\* A session is of the account whose password, link or token was shown; one opened by a
\* claim code is in the browser that asked for the code, and of an account for which the
\* code was redeemed in the name of one of its senders (the redeem route takes the sender
\* from its caller).  A messaging account has none by password.
SessionsAreGrounded ==
    \A o \in opened :
       IF o.by = 0 THEN account[o.account] = "web_first"
       ELSE LET x == artifact[o.by]
            IN  /\ x.type \in {"login_url", "email_verification"} => x.account = o.account
                /\ x.type = "claim_code" =>
                      /\ x.browser = o.browser
                      /\ \E u \in redeemed : u.k = o.by /\ u.op = "claim" /\ u.account = o.account
                /\ x.type \notin {"password_reset", "pairing_code"}

\* Onboarding is complete only for an account that received a message and had a channel
\* to answer through, whatever requests write the activation row from an older reading.
CompletedIsGrounded ==
    \A a \in Accounts : activation[a].completed => activation[a].inbound /\ a \in everUp

-----------------------------------------------------------------------------
(* What the repository says of the program and the code does not keep.     *)

\* current.md:1279: "Login URLs, web-initiated claim codes, and channel pairing codes are
\* authentication artifacts: one-time, time-limited, single-use, and never reusable to
\* access a different account."  Two requests that read the row before either writes it
\* both succeed, and a claim code may so be redeemed by two accounts.
SingleUse ==
    \A u, v \in redeemed : u.k = v.k /\ u.op = v.op => u = v

\* service.py:464-498: a completed reset sets the password.  Verifying the address at the
\* same time saves the credential as it was read before, old password included.
\* (COKE_EMAIL_AUTH_ENABLED=0 closes both routes in production.)
ResetStands ==
    [][\A a \in Accounts :
          credential'[a].password # credential[a].password =>
             \E r \in requests : r.op \in {"register", "reset"} /\ r \notin requests']_vars

\* current.md:189: "The system marks the user as onboarding complete."  The first two
\* messages of an account at once, and the channel lost meanwhile, unmark it.
ActivationStands ==
    [][\A a \in Accounts : activation[a].completed => activation'[a].completed]_vars
=============================================================================

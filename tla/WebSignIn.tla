----------------------------- MODULE WebSignIn -----------------------------
(***************************************************************************)
(* Signing in on the web: the OAuth handlers of apps/slopmud_web together  *)
(* with the provider, apps/internal_oidc, or Google, which is seen only    *)
(* through these handlers.  A flow is one state code; its pending record   *)
(* is kept in memory, and for oidc in a file as well.  The provider issues *)
(* authorization codes, which the handler of the callback exchanges.       *)
(*                                                                         *)
(* Forms, tokens and redirects are data: a callback arrives with a flow    *)
(* and a code that belong together, once or several times.                 *)
(***************************************************************************)
EXTENDS Naturals

CONSTANTS Flows,        \* state codes
          ProviderOf,   \* flow -> the provider it was asked for: "google" or "oidc"
          TokenOf,      \* flow -> the resume token it was asked for
          Users,        \* users of the provider
          Registered,   \* those in the user file at the start
          Callbacks,    \* callback requests served
          MaxCodes,     \* bound: authorization codes issued
          MaxPasswords, \* bound: passwords a user ever sets, that at the start included
          MaxRestarts   \* bound: restarts of either server

ASSUME SignInBounds ==
    /\ {MaxCodes, MaxRestarts} \subseteq Nat /\ MaxPasswords \in Nat \ {0}
    /\ ProviderOf \in [Flows -> {"google", "oidc"}] /\ Registered \subseteq Users

NoUser == "nobody"
CodeIds == 1 .. MaxCodes

VARIABLES
    started,    \* flows started
    memory,     \* flows in web_pending_google and web_pending_oidc
    files,      \* flows whose pending file exists
    old,        \* flows started more than 15 minutes ago
    atProvider, \* flows whose browser was sent to the provider
    identities, \* web_identities: token -> who signed in
    codes,      \* code -> its flow, user and fate
    users,      \* the user file: number of the current password, 0 without
    editor,     \* who holds userdb_lock and what it has read, if anybody
    cb,         \* callback -> where it is, its flow, code and user
    signedIn,   \* codes whose callback recorded an identity, by how many
    restarts

flowVars   == <<started, memory, files, old, atProvider>>
providerVars == <<codes, users, editor>>
signVars   == <<flowVars, identities, providerVars, cb, signedIn, restarts>>

Tokens     == {TokenOf[f] : f \in Flows}
Oidc(f)    == ProviderOf[f] = "oidc"
Idle       == [pc |-> "idle", flow |-> NoUser, code |-> 0, user |-> NoUser]
NoEditor   == [u |-> NoUser, read |-> [u \in Users |-> 0], flow |-> NoUser]

SignInit ==
    /\ started = {} /\ memory = {} /\ files = {} /\ old = {} /\ atProvider = {}
    /\ identities = [t \in Tokens |-> NoUser]
    /\ codes = [c \in CodeIds |-> [flow |-> NoUser, user |-> NoUser, fate |-> "none"]]
    /\ users = [u \in Users |-> IF u \in Registered THEN 1 ELSE 0] /\ editor = NoEditor
    /\ cb = [k \in Callbacks |-> Idle]
    /\ signedIn = [c \in CodeIds |-> 0] /\ restarts = 0

-----------------------------------------------------------------------------
(* slopmud_web: api_oauth_start, the redirect to the provider, logout.      *)

\* An oidc record is in its file before the flow is answered.
Start(f) ==
    /\ f \notin started /\ started' = started \cup {f}
    /\ memory' = memory \cup {f} /\ files' = IF Oidc(f) THEN files \cup {f} ELSE files
    /\ UNCHANGED <<old, atProvider, identities, providerVars, cb, signedIn, restarts>>

\* What the handlers look a flow up in.
Known(f) == f \in memory \/ f \in files

\* google_auth_start and oidc_auth_start: an old flow is forgotten.
ToProvider(f) ==
    /\ Known(f)
    /\ IF f \in old
         THEN memory' = memory \ {f} /\ files' = files \ {f} /\ UNCHANGED atProvider
         ELSE atProvider' = atProvider \cup {f} /\ UNCHANGED <<memory, files>>
    /\ UNCHANGED <<started, old, identities, providerVars, cb, signedIn, restarts>>

GrowOld(f) ==
    /\ Known(f) /\ f \notin old /\ old' = old \cup {f}
    /\ UNCHANGED <<started, memory, files, atProvider, identities, providerVars, cb,
                   signedIn, restarts>>

Logout(t) ==
    /\ identities[t] # NoUser /\ identities' = [identities EXCEPT ![t] = NoUser]
    /\ UNCHANGED <<flowVars, providerVars, cb, signedIn, restarts>>

-----------------------------------------------------------------------------
(* The callback: google_auth_callback and oidc_auth_callback.               *)

\* The browser comes back, perhaps again, with a code of the flow.
CallBack(k, c) ==
    LET f == codes[c].flow IN
    /\ cb[k].pc = "idle" /\ codes[c].fate # "none" /\ Known(f)
    /\ cb' = [cb EXCEPT ![k] = [pc |-> "exchanging", flow |-> f, code |-> c, user |-> NoUser]]
    /\ UNCHANGED <<flowVars, identities, providerVars, signedIn, restarts>>

\* Fault: the code is looked up and not removed.
ExchangeKept(k) ==
    LET c == cb[k].code IN
    /\ cb[k].pc = "exchanging" /\ codes[c].fate = "issued" /\ UNCHANGED codes
    /\ cb' = [cb EXCEPT ![k].pc = "recording", ![k].user = codes[c].user]
    /\ UNCHANGED <<flowVars, identities, users, editor, signedIn, restarts>>

\* `token` of the provider removes the code before it looks at anything else;
\* the user's data then comes with the token.
Exchange(k) ==
    LET c == cb[k].code IN
    /\ cb[k].pc = "exchanging" /\ codes[c].fate = "issued"
    /\ codes' = [codes EXCEPT ![c].fate = "used"]
    /\ cb' = [cb EXCEPT ![k].pc = "recording", ![k].user = codes[c].user]
    /\ UNCHANGED <<flowVars, identities, users, editor, signedIn, restarts>>

\* The exchange or what follows it fails: the flow stays as it is.
ExchangeFails(k) ==
    /\ cb[k].pc \in {"exchanging", "recording"}
    /\ codes' = [codes EXCEPT ![cb[k].code].fate = IF @ = "issued" THEN "used" ELSE @]
    /\ cb' = [cb EXCEPT ![k] = Idle]
    /\ UNCHANGED <<flowVars, identities, users, editor, signedIn, restarts>>

Record(k) ==
    LET f == cb[k].flow IN
    /\ cb[k].pc = "recording" /\ cb' = [cb EXCEPT ![k].pc = "consuming"]
    /\ identities' = [identities EXCEPT ![TokenOf[f]] = cb[k].user]
    /\ signedIn' = [signedIn EXCEPT ![cb[k].code] = @ + 1]
    /\ UNCHANGED <<flowVars, providerVars, restarts>>

\* Then the flow is consumed.
Consume(k) ==
    LET f == cb[k].flow IN
    /\ cb[k].pc = "consuming" /\ cb' = [cb EXCEPT ![k] = Idle]
    /\ memory' = memory \ {f} /\ files' = files \ {f}
    /\ UNCHANGED <<started, old, atProvider, identities, providerVars, signedIn, restarts>>

-----------------------------------------------------------------------------
(* internal_oidc: users and codes.                                          *)

Issue(f, u) ==
    \E c \in CodeIds :
        /\ codes[c].fate = "none" /\ \A d \in 1 .. c - 1 : codes[d].fate # "none"
        /\ codes' = [codes EXCEPT ![c] = [flow |-> f, user |-> u, fate |-> "issued"]]

\* authorize_post reads the user file without the lock: files are replaced
\* whole.  (Google does not say whom it knows.)
Authorize(f, u) ==
    /\ f \in atProvider /\ (Oidc(f) => users[u] > 0) /\ Issue(f, u)
    /\ UNCHANGED <<flowVars, identities, users, editor, cb, signedIn, restarts>>

\* register_post and reset_post take the lock and read the file.
Edit(f, u) ==
    /\ f \in atProvider /\ Oidc(f) /\ editor = NoEditor
    /\ users[u] < MaxPasswords
    /\ editor' = [u |-> u, read |-> users, flow |-> f]
    /\ UNCHANGED <<flowVars, identities, codes, users, cb, signedIn, restarts>>

\* The password is hashed meanwhile; a new user is stored and signed in ...
Register ==
    LET u == editor.u IN
    /\ editor # NoEditor /\ editor.read[u] = 0 /\ editor' = NoEditor
    /\ users' = [editor.read EXCEPT ![u] = 1]
    /\ Issue(editor.flow, u)
    /\ UNCHANGED <<flowVars, identities, cb, signedIn, restarts>>

\* ... and a known one gets the new password and has to sign in with it.
Reset ==
    LET u == editor.u IN
    /\ editor # NoEditor /\ editor.read[u] > 0 /\ editor' = NoEditor
    /\ users' = [editor.read EXCEPT ![u] = @ + 1]
    /\ UNCHANGED <<flowVars, identities, codes, cb, signedIn, restarts>>

\* The form is refused, or the file cannot be written.
GiveUp ==
    /\ editor # NoEditor /\ editor' = NoEditor
    /\ UNCHANGED <<flowVars, identities, codes, users, cb, signedIn, restarts>>

CodeExpires(c) ==
    /\ codes[c].fate = "issued" /\ codes' = [codes EXCEPT ![c].fate = "used"]
    /\ UNCHANGED <<flowVars, identities, users, editor, cb, signedIn, restarts>>

ProviderRestarts ==
    /\ restarts < MaxRestarts /\ restarts' = restarts + 1 /\ editor' = NoEditor
    /\ codes' = [c \in CodeIds |->
                   [codes[c] EXCEPT !.fate = IF @ = "issued" THEN "used" ELSE @]]
    /\ UNCHANGED <<flowVars, identities, users, cb, signedIn>>

WebRestarts ==
    /\ restarts < MaxRestarts /\ restarts' = restarts + 1
    /\ memory' = {} /\ identities' = [t \in Tokens |-> NoUser]
    /\ cb' = [k \in Callbacks |-> Idle]
    /\ UNCHANGED <<started, files, old, atProvider, providerVars, signedIn>>

-----------------------------------------------------------------------------
SignNext ==
    \/ \E f \in Flows : Start(f) \/ ToProvider(f) \/ GrowOld(f)
    \/ \E f \in Flows, u \in Users : Authorize(f, u) \/ Edit(f, u)
    \/ \E k \in Callbacks :
         (\E c \in CodeIds : CallBack(k, c))
         \/ Exchange(k) \/ ExchangeFails(k) \/ Record(k) \/ Consume(k)
    \/ \E t \in Tokens : Logout(t)
    \/ \E c \in CodeIds : CodeExpires(c)
    \/ Register \/ Reset \/ GiveUp \/ ProviderRestarts \/ WebRestarts

SignSpec == SignInit /\ [][SignNext]_signVars

-----------------------------------------------------------------------------
(* Types; only flows that were started are known anywhere.                  *)
SignTypeOK ==
    /\ memory \cup files \cup old \cup atProvider \subseteq started
    /\ started \subseteq Flows
    /\ identities \in [Tokens -> Users \cup {NoUser}]
    /\ codes \in [CodeIds -> [flow : Flows \cup {NoUser}, user : Users \cup {NoUser},
                              fate : {"none", "issued", "used"}]]
    /\ users \in [Users -> 0 .. MaxPasswords]
    /\ editor \in [u : Users \cup {NoUser}, read : [Users -> 0 .. MaxPasswords],
                   flow : Flows \cup {NoUser}]
    /\ cb \in [Callbacks -> [pc : {"idle", "exchanging", "recording", "consuming"},
                             flow : Flows \cup {NoUser}, code : 0 .. MaxCodes,
                             user : Users \cup {NoUser}]]
    /\ restarts \in 0 .. MaxRestarts

(* An authorization signs in once, however often the browser repeats the    *)
(* callback and whatever restarts in between.                               *)
OneSignInPerCode == \A c \in CodeIds : signedIn[c] <= 1

(* Who is shown as signed in under a token was authorized in a flow started *)
(* with that token, also when several flows and callbacks overlap.          *)
SignedInByOwnFlow ==
    \A t \in Tokens : identities[t] # NoUser =>
        \E c \in CodeIds : /\ codes[c].user = identities[t] /\ signedIn[c] > 0
                           /\ TokenOf[codes[c].flow] = t

(* An oidc sign-in that was begun can be finished after a restart: its       *)
(* record is in the file until a callback consumed it or it grew old.       *)
StartedCanFinish ==
    \A f \in Flows : Oidc(f) /\ f \in started \ (old \cup files) =>
        \E c \in CodeIds : codes[c].flow = f /\ signedIn[c] > 0

(* The user file, read and rewritten by concurrent requests, loses nobody   *)
(* and no new password.                                                     *)
UsersAreKept == [][\A u \in Users : users'[u] >= users[u]]_signVars

(* Sign-ins over repeated callbacks, several flows and restarts: each code  *)
(* counts once, for the token that asked, and what was begun can finish.    *)
SignInv == SignTypeOK /\ OneSignInPerCode /\ SignedInByOwnFlow /\ StartedCanFinish

=============================================================================

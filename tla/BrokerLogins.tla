---------------------------- MODULE BrokerLogins ----------------------------
(* How a connection of the broker becomes a character: the name prompt, the *)
(* three ways to prove who one is (a password, Google, OIDC), typed or sent *)
(* ahead by the web server in a WEB_AUTH line, the accounts and their file, *)
(* the prompts of character creation, and the account requests of the admin *)
(* port.  A client knows one password and has one subject at each provider. *)
(* Bans and the sessions map are in BrokerSessions, delays of failed logins *)
(* in BrokerThrottle; a refusal that asks again changes nothing.            *)
EXTENDS Naturals, FiniteSets

CONSTANTS Clients,      \* who connects, one connection at a time
          LoginNames,   \* character names
          NoClient,     \* no client
          Unnamed,      \* no name chosen
          Providers,    \* "google", "oidc": WEB_AUTH treats them alike
          MaxSaveFails  \* bound: writes of the accounts file that fail

ASSUME LoginBounds == /\ MaxSaveFails \in Nat
                      /\ "google" \in Providers
                      /\ Providers \subseteq {"google", "oidc"}
                      /\ NoClient \notin Clients /\ Unnamed \notin LoginNames

VARIABLES
    accounts,  \* Accounts.by_name: name -> who each login method belongs to
    saved,     \* what the accounts file holds
    players,   \* names with a saved player, in the shard's file
    conns,     \* per client: ConnState, name and auth_method
    autoLogin, \* per client: the method of pending_auto_webauth, or "none"
    oauth,     \* per client: the status in its Google sign-in file
    fails,     \* bound: failed saves so far
    linked,    \* history: name -> every [how, client] an account of it had
    unsaved,   \* history: names whose record is not in the file as it is
    raced      \* history: clients whose name was taken since they looked

loginVars == <<accounts, saved, players, conns, autoLogin, oauth, fails, linked,
               unsaved, raced>>

Methods  == {"password"} \cup Providers
Prompts  == {"bot", "public", "conduct", "race", "class", "sex", "pronouns"}
Looked   == {"inserting", "creating"}   \* found the name free
Admitted == Prompts \cup {"admitted", "world"}

AccountRec == [Methods -> Clients \cup {NoClient}]
NewAccount(how, c) == [m \in Methods |-> IF m = how THEN c ELSE NoClient]

Taken(n) == n \in DOMAIN accounts
\* The record of n can be used by c with this method.
Owns(c, how, n) == Taken(n) /\ accounts[n][how] = c

FreshConn == [at |-> "name", name |-> Unnamed, how |-> "none"]

LoginInit ==
    /\ accounts = << >> /\ saved = << >> /\ players = {}
    /\ conns = [c \in Clients |-> FreshConn]
    /\ autoLogin = [c \in Clients |-> "none"]
    /\ oauth = [c \in Clients |-> "none"]
    /\ fails = 0
    /\ linked = [n \in LoginNames |-> {}]
    /\ unsaved = {} /\ raced = {}

-----------------------------------------------------------------------------
Move(c, at, n, how) ==
    conns' = [conns EXCEPT ![c] = [at |-> at, name |-> n, how |-> how]]

\* A record of n is written to the map: those who found n free are late now.
PutRecord(n, rec) ==
    /\ accounts' = [x \in DOMAIN accounts \cup {n} |->
                       IF x = n THEN rec ELSE accounts[x]]
    /\ linked' = [linked EXCEPT ![n] = @ \cup
                  {<<m, rec[m]>> : m \in {x \in Methods : rec[x] # NoClient}}]

LateTo(n, c) == {d \in Clients \ {c} : conns[d].at \in Looked
                                       /\ conns[d].name = n}

\* Accounts.save: all of the map goes to a temporary file that is renamed.
Saved       == /\ saved' = accounts' /\ unsaved' = {} /\ fails' = fails
SaveFails(n) == /\ fails < MaxSaveFails /\ fails' = fails + 1
                /\ saved' = saved /\ unsaved' = unsaved \cup {n}

(* The map has the account even when the save fails; the error ends the     *)
(* connection.                                                              *)
Create(c, n, how) ==
    /\ PutRecord(n, NewAccount(how, c))
    /\ \/ Saved /\ Move(c, "admitted", n, how)
       \/ SaveFails(n) /\ Move(c, "gone", n, how)
    /\ raced' = (raced \ {c}) \cup LateTo(n, c)

Unchanged1 == UNCHANGED <<accounts, saved, players, fails, linked, unsaved, raced>>

-----------------------------------------------------------------------------
(* A typed name.  After a WEB_AUTH line that found no account the name is   *)
(* bound to the subject of that line: looked up, then inserted.             *)
TypeName(c, n) ==
    /\ conns[c].at = "name" /\ autoLogin[c] = "none"
    /\ Move(c, "method", n, "none")
    /\ UNCHANGED <<autoLogin, oauth>> /\ Unchanged1

BindNameUnchecked(c, n) ==   \* Fault: the subject is not compared.
    /\ conns[c].at = "name" /\ autoLogin[c] # "none"
    /\ \/ ~Taken(n) /\ Move(c, "inserting", n, autoLogin[c])
       \/ Taken(n) /\ Move(c, "admitted", n, autoLogin[c])
    /\ autoLogin' = [autoLogin EXCEPT ![c] = "none"]
    /\ UNCHANGED oauth /\ Unchanged1

BindName(c, n) ==
    /\ conns[c].at = "name" /\ autoLogin[c] # "none"
    /\ \/ ~Taken(n) /\ Move(c, "inserting", n, autoLogin[c])
       \/ Owns(c, autoLogin[c], n) /\ Move(c, "admitted", n, autoLogin[c])
    /\ autoLogin' = [autoLogin EXCEPT ![c] = "none"]
    /\ UNCHANGED oauth /\ Unchanged1

(* WEB_AUTH, at the name prompt or, by replaying the line, at the next one. *)
Prompted(c) == conns[c].at \in {"name", "method"}

WebLogin(c, n, how) ==
    /\ Prompted(c) /\ Owns(c, how, n)
    /\ Move(c, "admitted", n, how)
    /\ UNCHANGED <<autoLogin, oauth>> /\ Unchanged1

WebCreate(c, n, how) ==
    /\ Prompted(c) /\ ~Taken(n)
    /\ Move(c, "inserting", n, how)
    /\ UNCHANGED <<autoLogin, oauth>> /\ Unchanged1

(* action "auto": one linked account is logged in to, after a second look;  *)
(* with none, a chosen name is created or given up and the next is bound.   *)
LinkedNames(c, how) == {n \in DOMAIN accounts : accounts[n][how] = c}

WebAuto(c, how) ==
    /\ Prompted(c)
    /\ \/ /\ Cardinality(LinkedNames(c, how)) = 1
          /\ \E n \in LinkedNames(c, how) : Move(c, "looking", n, how)
          /\ UNCHANGED autoLogin
       \/ /\ LinkedNames(c, how) = {} /\ conns[c].name = Unnamed
          /\ autoLogin' = [autoLogin EXCEPT ![c] = how]
          /\ UNCHANGED conns
       \/ /\ LinkedNames(c, how) = {} /\ conns[c].name # Unnamed
          /\ Taken(conns[c].name)
          /\ Move(c, "name", Unnamed, "none")
          /\ autoLogin' = [autoLogin EXCEPT ![c] = how]
       \/ /\ LinkedNames(c, how) = {} /\ conns[c].name # Unnamed
          /\ ~Taken(conns[c].name)
          /\ Move(c, "inserting", conns[c].name, how)
          /\ UNCHANGED autoLogin
    /\ UNCHANGED oauth /\ Unchanged1

LookAgain(c) ==
    /\ conns[c].at = "looking"
    /\ LET n == conns[c].name  how == conns[c].how IN
       IF Owns(c, how, n) THEN Move(c, "admitted", n, how)
       ELSE Move(c, "name", Unnamed, "none")
    /\ UNCHANGED <<autoLogin, oauth>> /\ Unchanged1

(* The insertion, under the lock again, of a name that was free.            *)
InsertFound(c) ==
    /\ conns[c].at = "inserting"
    /\ Create(c, conns[c].name, conns[c].how)
    /\ UNCHANGED <<players, autoLogin, oauth>>

-----------------------------------------------------------------------------
(* The method prompt: an account without a password, or without a Google    *)
(* subject, does not admit that method.                                     *)
ChoosePasswordBlind(c) ==   \* Fault: a taken name may be created again.
    /\ conns[c].at = "method"
    /\ \/ Move(c, "creating", conns[c].name, "password")
       \/ /\ Taken(conns[c].name)
          /\ accounts[conns[c].name]["password"] # NoClient
          /\ Move(c, "password", conns[c].name, "password")
    /\ UNCHANGED <<autoLogin, oauth>> /\ Unchanged1

ChoosePassword(c) ==
    /\ conns[c].at = "method"
    /\ \/ /\ ~Taken(conns[c].name)
          /\ Move(c, "creating", conns[c].name, "password")
       \/ /\ Taken(conns[c].name)
          /\ accounts[conns[c].name]["password"] # NoClient
          /\ Move(c, "password", conns[c].name, "password")
    /\ UNCHANGED <<autoLogin, oauth>> /\ Unchanged1

ChooseGoogle(c) ==
    /\ conns[c].at = "method"
    /\ Taken(conns[c].name) => accounts[conns[c].name]["google"] # NoClient
    /\ Move(c, "google", conns[c].name, "google")
    /\ oauth' = [oauth EXCEPT ![c] = "pending"]
    /\ UNCHANGED autoLogin /\ Unchanged1

(* The new password arrives: the name is not looked up again.               *)
CreatePassword(c) ==
    /\ conns[c].at = "creating"
    /\ Create(c, conns[c].name, "password")
    /\ UNCHANGED <<players, autoLogin, oauth>>

(* The right password; a record that lost its password ends the connection. *)
LoginPassword(c) ==
    /\ conns[c].at = "password"
    /\ LET n == conns[c].name IN
       \/ Owns(c, "password", n) /\ Move(c, "admitted", n, "password")
       \/ /\ (Taken(n) => accounts[n]["password"] = NoClient)
          /\ Move(c, "gone", n, "password")
    /\ UNCHANGED <<autoLogin, oauth>> /\ Unchanged1

(* The browser's side of the Google sign-in, in the web server.             *)
Browse(c) ==
    /\ oauth[c] = "pending"
    /\ \E status \in {"ok", "err"} : oauth' = [oauth EXCEPT ![c] = status]
    /\ UNCHANGED <<conns, autoLogin>> /\ Unchanged1

(* `check`: compare, or create and save, under one lock.                    *)
CheckGoogle(c) ==
    /\ conns[c].at = "google" /\ oauth[c] = "ok"
    /\ LET n == conns[c].name IN
       \/ /\ Owns(c, "google", n)
          /\ Move(c, "admitted", n, "google") /\ Unchanged1
       \/ /\ Taken(n) /\ ~Owns(c, "google", n)
          /\ Move(c, "gone", n, "google") /\ Unchanged1
       \/ ~Taken(n) /\ Create(c, n, "google") /\ UNCHANGED players
    /\ oauth' = [oauth EXCEPT ![c] = "none"]
    /\ UNCHANGED autoLogin

(* `cancel`, or `check` after an error or after 15 minutes.                 *)
DropGoogle(c) ==
    /\ conns[c].at = "google"
    /\ Move(c, "method", conns[c].name, "google")
    /\ oauth' = [oauth EXCEPT ![c] = "none"]
    /\ UNCHANGED autoLogin /\ Unchanged1

-----------------------------------------------------------------------------
(* wait_for_saved_player looks for two seconds: a saved player enters the   *)
(* world, anybody else is asked.  In the world the shard saves the player.  *)
EnterWorld(c) == /\ Move(c, "world", conns[c].name, conns[c].how)
                 /\ players' = players \cup {conns[c].name}
                 /\ UNCHANGED <<accounts, saved, autoLogin, oauth, fails, linked,
                                unsaved, raced>>

FindPlayer(c) ==
    /\ conns[c].at = "admitted" /\ conns[c].name \in players
    /\ EnterWorld(c)

GiveUpPlayer(c) ==
    /\ conns[c].at = "admitted" /\ conns[c].name \notin players
    /\ Move(c, "bot", conns[c].name, conns[c].how)
    /\ UNCHANGED <<autoLogin, oauth>> /\ Unchanged1

(* The prompts of character creation, in their order; a wrong answer asks   *)
(* again, `sex other` asks for the pronouns too.                            *)
NextPrompt == [at \in {"bot", "public", "conduct", "race", "class"} |->
                 CASE at = "bot" -> "public" [] at = "public" -> "conduct"
                   [] at = "conduct" -> "race" [] at = "race" -> "class"
                   [] at = "class" -> "sex"]

Answer(c) ==
    /\ conns[c].at \in DOMAIN NextPrompt
    /\ Move(c, NextPrompt[conns[c].at], conns[c].name, conns[c].how)
    /\ UNCHANGED <<autoLogin, oauth>> /\ Unchanged1

AnswerOther(c) ==
    /\ conns[c].at = "sex"
    /\ Move(c, "pronouns", conns[c].name, conns[c].how)
    /\ UNCHANGED <<autoLogin, oauth>> /\ Unchanged1

FinishPrompts(c) ==
    /\ conns[c].at \in {"sex", "pronouns"}
    /\ EnterWorld(c)

-----------------------------------------------------------------------------
HangUp(c) ==
    /\ conns[c].at # "gone"
    /\ Move(c, "gone", Unnamed, "none")
    /\ autoLogin' = [autoLogin EXCEPT ![c] = "none"]
    /\ oauth' = [oauth EXCEPT ![c] = "none"]
    /\ raced' = raced \ {c}
    /\ UNCHANGED <<accounts, saved, players, fails, linked, unsaved>>

ConnectAgain(c) ==
    /\ conns[c].at = "gone"
    /\ conns' = [conns EXCEPT ![c] = FreshConn]
    /\ raced' = raced \ {c}
    /\ UNCHANGED <<accounts, saved, players, autoLogin, oauth, fails, linked,
                   unsaved>>

(* CreateAccountPassword and SetAccountPassword of the admin port, with a   *)
(* password that c is told; both look and write under one lock.             *)
AdminCreate(c, n) ==
    /\ ~Taken(n)
    /\ PutRecord(n, NewAccount("password", c))
    /\ Saved \/ SaveFails(n)
    /\ raced' = raced \cup LateTo(n, NoClient)
    /\ UNCHANGED <<players, conns, autoLogin, oauth>>

AdminSetPassword(c, n) ==
    /\ Taken(n) /\ accounts[n]["password"] # c
    /\ PutRecord(n, [accounts[n] EXCEPT !["password"] = c])
    /\ Saved \/ SaveFails(n)
    /\ UNCHANGED <<players, conns, autoLogin, oauth, raced>>

(* The broker stops and starts: connections are gone, Accounts.load reads   *)
(* the file.                                                                *)
RestartBroker ==
    /\ accounts' = saved
    /\ conns' = [c \in Clients |-> [FreshConn EXCEPT !.at = "gone"]]
    /\ autoLogin' = [c \in Clients |-> "none"]
    /\ oauth' = [c \in Clients |-> "none"]
    /\ unsaved' = {} /\ raced' = {}
    /\ UNCHANGED <<saved, players, fails, linked>>

LoginNext ==
    \/ \E c \in Clients :
          \/ \E n \in LoginNames :
                \/ TypeName(c, n) \/ BindName(c, n)
                \/ \E how \in Methods : WebLogin(c, n, how) \/ WebCreate(c, n, how)
                \/ AdminCreate(c, n) \/ AdminSetPassword(c, n)
          \/ \E how \in Providers : WebAuto(c, how)
          \/ LookAgain(c) \/ InsertFound(c)
          \/ ChoosePassword(c) \/ ChooseGoogle(c)
          \/ CreatePassword(c) \/ LoginPassword(c)
          \/ Browse(c) \/ CheckGoogle(c) \/ DropGoogle(c)
          \/ FindPlayer(c) \/ GiveUpPlayer(c)
          \/ Answer(c) \/ AnswerOther(c) \/ FinishPrompts(c)
          \/ HangUp(c) \/ ConnectAgain(c)
    \/ RestartBroker

LoginSpec == LoginInit /\ [][LoginNext]_loginVars

-----------------------------------------------------------------------------
\* Every variable keeps its type: Accounts, its file and the ConnState of
\* each connection.
LoginTypeOK ==
    /\ DOMAIN accounts \subseteq LoginNames /\ DOMAIN saved \subseteq LoginNames
    /\ \A n \in DOMAIN accounts : accounts[n] \in AccountRec
    /\ \A n \in DOMAIN saved : saved[n] \in AccountRec
    /\ players \subseteq LoginNames /\ unsaved \subseteq LoginNames
    /\ conns \in [Clients -> [at : Admitted \cup Looked \cup {"name", "looking",
                                   "method", "password", "google", "gone"},
                              name : LoginNames \cup {Unnamed},
                              how : Methods \cup {"none"}]]
    /\ autoLogin \in [Clients -> Providers \cup {"none"}]
    /\ oauth \in [Clients -> {"none", "pending", "ok", "err"}]
    /\ fails \in 0..MaxSaveFails /\ raced \subseteq Clients

\* Nobody is past the login as a character whose account never had the
\* password or the subject they proved, whichever way they came and whatever
\* happened to the record while they were asked.
LoginsAreLinked ==
    \A c \in Clients : conns[c].at \in Admitted =>
        <<conns[c].how, c>> \in linked[conns[c].name]

\* Who is past the login has an account that survives a restart, except after
\* a failed save: the record stays in the map and admits the next connection.
AdmittedIsSaved ==
    \A c \in Clients : conns[c].at \in Admitted =>
        conns[c].name \in DOMAIN saved \cup unsaved

\* An account is given to somebody else by its creation only when two looked
\* for the name while it was free, and it is lost only when its save failed.
AccountsAreKept ==
    [][\A n \in DOMAIN accounts :
          \/ n \in DOMAIN accounts'
             /\ (\A how \in Providers : accounts'[n][how] = accounts[n][how])
             /\ (accounts[n]["password"] # NoClient
                    => accounts'[n]["password"] # NoClient)
          \/ \E c \in raced : conns[c].name = n /\ conns[c].at \in Looked
          \/ n \in unsaved]_loginVars
=============================================================================

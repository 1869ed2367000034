----------------------------- MODULE MCServices -----------------------------
(* What the broker and the web server keep of their clients, side by side:  *)
(* each behaviour is one of the legal holds, of the logins, of the throttle *)
(* of password guesses, of the lines players are shown, of the event log,   *)
(* of a web session's sockets, of the table of web sessions, of the         *)
(* sign-ins with a provider or of the keys of the compliance portal, and    *)
(* the other parts stay as they start.                                      *)
EXTENDS BrokerHolds, BrokerLogins, BrokerThrottle, BrokerLines, EventLog,
        WebSockets, WebSessions, WebSignIn, ComplianceKeys, TLC

CONSTANTS c1, c2, i1, i2, n1

VARIABLE part

\* Two clients at two addresses guess the password of one name.
MCIpOf   == (c1 :> i1) @@ (c2 :> i2)
MCNameOf == (c1 :> n1) @@ (c2 :> n1)

\* Two sign-ins, each with a provider of its own and a resume token.
MCProviderOf == ("f1" :> "oidc") @@ ("f2" :> "google")
MCTokenOf    == ("f1" :> "t1") @@ ("f2" :> "t2")

brokerVars   == <<holdVars, loginVars, throttleVars, lineVars, logVars>>
clientVars   == <<socketVars, webVars, signVars, portalVars>>
servicesVars == <<part, brokerVars, clientVars>>

Parts == {"holds", "logins", "throttle", "lines", "log",
          "sockets", "web", "signin", "portal"}

ServicesInit ==
    /\ part \in Parts
    /\ HoldInit /\ LoginInit /\ ThrottleInit /\ LineInit /\ LogInit
    /\ SocketInit /\ WebInit /\ SignInit /\ PortalInit

Broker ==
    /\ UNCHANGED clientVars
    /\ \/ /\ part = "holds" /\ HoldNext
          /\ UNCHANGED <<loginVars, throttleVars, lineVars, logVars>>
       \/ /\ part = "logins" /\ LoginNext
          /\ UNCHANGED <<holdVars, throttleVars, lineVars, logVars>>
       \/ /\ part = "throttle" /\ ThrottleNext
          /\ UNCHANGED <<holdVars, loginVars, lineVars, logVars>>
       \/ /\ part = "lines" /\ LineNext
          /\ UNCHANGED <<holdVars, loginVars, throttleVars, logVars>>
       \/ /\ part = "log" /\ LogNext
          /\ UNCHANGED <<holdVars, loginVars, throttleVars, lineVars>>

Web ==
    /\ UNCHANGED brokerVars
    /\ \/ /\ part = "sockets" /\ SocketNext
          /\ UNCHANGED <<webVars, signVars, portalVars>>
       \/ /\ part = "web" /\ WebNext
          /\ UNCHANGED <<socketVars, signVars, portalVars>>
       \/ /\ part = "signin" /\ SignNext
          /\ UNCHANGED <<socketVars, webVars, portalVars>>
       \/ /\ part = "portal" /\ PortalNext
          /\ UNCHANGED <<socketVars, webVars, signVars>>

ServicesNext == UNCHANGED part /\ (Broker \/ Web)

ServicesSpec == ServicesInit /\ [][ServicesNext]_servicesVars

\* Loggers, sockets, visitors, callbacks and keys have the same two names; they
\* change places together with the two clients and their addresses.
OneForTwo == [x \in {c1, c2, i1, i2} |->
                 CASE x = c1 -> c2 [] x = c2 -> c1 [] x = i1 -> i2 [] x = i2 -> i1]
Unmoved   == [x \in {c1, c2, i1, i2} |-> x]
Symmetry  == {p @@ (IF p = [w \in Sockets |-> w] THEN Unmoved ELSE OneForTwo) :
                 p \in Permutations(Sockets)}

-----------------------------------------------------------------------------
\* Who is past the login proved who they are and has an account that is saved
\* unless its save failed, and the guesses at a name or from an address are few
\* for the time they took.
AccountsInv == /\ LoginTypeOK /\ LoginsAreLinked /\ AdmittedIsSaved
               /\ ThrottleTypeOK /\ GuessesAreFew

\* A web player has one session and one socket at a time, no connection is
\* lost sight of, and output and inputs arrive once.
WebPlayersInv == /\ SocketTypeOK /\ OneSocketEach /\ ChunksArriveOnce
                 /\ WebTypeOK /\ NoneIsLost /\ InputsGoToOne

\* What no step of the services does: give an account to somebody else unless
\* two raced for its name, or lose it unless its save failed; hand out a line id
\* below an older one unless the clock was set back over a restart; or lose a
\* user or a new password of the user file.
ServicesSteps == AccountsAreKept /\ IdsIncrease /\ UsersAreKept

=============================================================================

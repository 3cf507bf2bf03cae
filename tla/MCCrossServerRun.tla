-------------------------- MODULE MCCrossServerRun --------------------------
(***************************************************************************)
(* CrossServerRun with this client's own device (tablet) and a captured    *)
(* one (phone), a server the role moves from and one it moves to, two      *)
(* generations of each token, and a few faults, changes elsewhere and runs *)
(* with flags in any order.                                                *)
(***************************************************************************)
EXTENDS CrossServerRun

CONSTANTS phone, tablet, none, oldServer, newServer, noServer

MCDevices == {phone, tablet}
MCAddrs == {oldServer, newServer}

Tok(d) == [dev |-> d, n |-> 1]

\* An own-device session, a captured session without a refresh token, a config
\* that names no device (without an address, and with one), and one whose access
\* token has been cleared.
MCConfigs ==
    LET own == [dev |-> tablet, inst |-> none, at |-> Tok(tablet), age |-> "fresh",
                rt |-> Tok(tablet), addr |-> noServer, uid |-> TRUE]
    IN  {own,
         [own EXCEPT !.dev = phone, !.at = Tok(phone), !.age = "unknown",
                     !.rt = NoTok, !.addr = oldServer],
         [own EXCEPT !.dev = none],
         [own EXCEPT !.dev = none, !.addr = oldServer],
         [own EXCEPT !.at = NoTok, !.age = "unknown", !.addr = oldServer]}

\* Registering a phone, refreshing a captured token (for the config's device or
\* another one, with a config or without), a captured access token.
MCFlagSets ==
    {[NoFlags EXCEPT !.dev = phone, !.gen = TRUE],
     [NoFlags EXCEPT !.dev = phone, !.rt = Tok(phone)],
     [NoFlags EXCEPT !.dev = tablet, !.rt = Tok(tablet), !.noConfig = TRUE],
     [NoFlags EXCEPT !.rt = Tok(tablet)],
     [NoFlags EXCEPT !.dev = phone, !.at = Tok(phone), !.ip = newServer]}
=============================================================================

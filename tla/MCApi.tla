------------------------------- MODULE MCApi -------------------------------
\* The api process: authentication and orders share no state, so an interleaving
\* of the two shows nothing that one of them does not show alone; a behaviour
\* here is one of either.
EXTENDS MCAuthSessions, MCOrderDesk

VARIABLE part  \* the component that moves

apiVars == <<part, authVars, deskVars>>
\* The goroutines of the HTTP server, Requests of the one and Workers of the other.
Sym == Permutations(Requests \cup Workers)

\* One initial state of the component that rests.
AuthRests == /\ edits = 0 /\ faults = 0 /\ \A u \in Users : ~Exists(u)
DeskRests == /\ venue = Spot /\ taken = {} /\ updates = 0 /\ delays = 0
             /\ \A c \in Configs : configs[c] = NoRow

ApiInit == \/ part = "auth" /\ MCAuthInit /\ DeskInit /\ DeskRests
           \/ part = "desk" /\ MCDeskInit /\ AuthInit /\ AuthRests

ApiNext == \/ part = "auth" /\ AuthNext /\ UNCHANGED <<part, deskVars>>
           \/ part = "desk" /\ DeskNext /\ UNCHANGED <<part, authVars>>

ApiSpec == ApiInit /\ [][ApiNext]_apiVars

\* The types of both components.
ApiTypeOK == AuthTypeOK /\ DeskTypeOK
=============================================================================

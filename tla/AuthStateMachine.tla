--------------------------- MODULE AuthStateMachine ---------------------------
(***************************************************************************)
(* MQTT v5.0 enhanced authentication (state/auth.rs).                      *)
(***************************************************************************)
EXTENDS MqttTypes

CONSTANT AuthMethods

ASSUME AuthMethodsAssumption == None \notin AuthMethods

VARIABLES
    authState,  \* state
    authMethod  \* auth_method: the method the CONNECT named

authVars == <<authState, authMethod>>

AuthStates == {"Idle", "InitialAuthenticating", "Authenticated", "Reauthenticating"}

\* The reason codes of AUTH the machine tells apart: 0x00, 0x18, any other
AuthReasons == {"Success", "ContinueAuthentication", "Other"}

AuthTypeOK ==
    /\ authState \in AuthStates
    /\ authMethod \in AuthMethods \cup {None}

AuthInit ==
    /\ authState = "Idle"
    /\ authMethod = None

AuthConnectWithAuth(method) ==
    /\ authMethod' = method
    /\ authState' = "InitialAuthenticating"

\* Stage 1 of auth_received: the only legal pairs of state and reason code
AuthLegal(reason) ==
    <<authState, reason>> \in
        {<<"InitialAuthenticating", "ContinueAuthentication">>,
         <<"Reauthenticating", "ContinueAuthentication">>,
         <<"Reauthenticating", "Success">>}

\* Stage 2: the method has to be the one of the CONNECT; only the Success
\* that ends a re-authentication may leave it out.
AuthMethodMatches(reason, method) ==
    \/ method = authMethod
    \/ method = None /\ authState = "Reauthenticating" /\ reason = "Success"

\* The AuthAction auth_received returns
AuthReceivedResult(reason, method) ==
    IF ~AuthLegal(reason) THEN "Failed"
    ELSE IF ~AuthMethodMatches(reason, method) THEN "MethodMismatch"
    ELSE IF reason = "Success" THEN "Authenticated" ELSE "Continue"

\* Mutant: a failure forgets the method and goes on authenticating.
AuthFailureKeepsState(reason, method) ==
    LET result == AuthReceivedResult(reason, method)
    IN  /\ authState' = IF result = "Authenticated" THEN "Authenticated" ELSE authState
        /\ authMethod' = IF result \in {"Failed", "MethodMismatch"}
                         THEN None ELSE authMethod

AuthAuthReceived(reason, method) ==
    LET result == AuthReceivedResult(reason, method)
    IN  \/ /\ result \in {"Failed", "MethodMismatch"}
           /\ authState' = "Idle"
           /\ authMethod' = None
        \/ /\ result = "Authenticated"
           /\ authState' = "Authenticated"
           /\ UNCHANGED authMethod
        \/ /\ result = "Continue"
           /\ UNCHANGED authVars

\* connack_received returns Ok
AuthConnackAccepted(method) ==
    IF authState = "InitialAuthenticating" THEN method = authMethod
                                           ELSE method = None

\* Mutant: CONNACK does not complete the authentication.
AuthConnackIgnored == UNCHANGED authVars

\* connack_received, when it returns Ok
AuthConnackReceived ==
    /\ authState' = IF authState = "InitialAuthenticating"
                    THEN "Authenticated" ELSE authState
    /\ UNCHANGED authMethod

\* reauthenticate_sent returning Ok
AuthReauthenticateSent ==
    /\ authState = "Authenticated"
    /\ authState' = "Reauthenticating"
    /\ UNCHANGED authMethod

AuthReset ==
    /\ authState' = "Idle"
    /\ authMethod' = None

AuthNext ==
    \/ AuthConnackReceived \/ AuthReauthenticateSent \/ AuthReset
    \/ \E method \in AuthMethods : AuthConnectWithAuth(method)
    \/ \E reason \in AuthReasons, method \in AuthMethods \cup {None} :
          AuthAuthReceived(reason, method)

-----------------------------------------------------------------------------

(***************************************************************************)
(* The `expect("auth_method must be set while authenticating")` of         *)
(* auth_received and connack_received never panics.                        *)
(***************************************************************************)
AuthMethodKnown ==
    authState \in {"InitialAuthenticating", "Reauthenticating"} => authMethod # None

=============================================================================

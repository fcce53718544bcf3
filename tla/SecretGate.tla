----------------------------- MODULE SecretGate -----------------------------
(***************************************************************************)
(* What the server promises about secrets, whatever its goroutines do: a   *)
(* session is opened only with a secret in force; when the secrets are     *)
(* replaced, the sessions of the ones that went may linger while the sweep *)
(* runs, and the sweep ends only when none of them is open.                *)
(***************************************************************************)
CONSTANTS Conn, Secret, NoSecret

VARIABLES
  inForce,   \* the secrets in force
  session,   \* the secret of the open session of each connection, or NoSecret
  sweeping   \* the secrets were replaced and the sweep has not ended

gateVars == <<inForce, session, sweeping>>

GateInit ==
  /\ inForce = {}
  /\ session = [c \in Conn |-> NoSecret]
  /\ sweeping = FALSE

\* No session without a secret in force at that very moment.
Open(c) ==
  /\ session[c] = NoSecret
  /\ \E s \in inForce : session' = [session EXCEPT ![c] = s]
  /\ UNCHANGED <<inForce, sweeping>>

\* A session ends for any reason, the sweep among them.
End(c) ==
  /\ session[c] # NoSecret
  /\ session' = [session EXCEPT ![c] = NoSecret]
  /\ UNCHANGED <<inForce, sweeping>>

Install(S) ==
  /\ ~sweeping
  /\ inForce' = S
  /\ sweeping' = TRUE
  /\ UNCHANGED session

Settle ==
  /\ sweeping
  /\ \A c \in Conn : session[c] # NoSecret => session[c] \in inForce
  /\ sweeping' = FALSE
  /\ UNCHANGED <<inForce, session>>

\* The process goes, and every session with it.
PowerOff ==
  /\ inForce' = {}
  /\ session' = [c \in Conn |-> NoSecret]
  /\ sweeping' = FALSE

GateNext ==
  \/ \E c \in Conn : Open(c) \/ End(c)
  \/ \E S \in SUBSET Secret : Install(S)
  \/ Settle
  \/ PowerOff

GateSpec == GateInit /\ [][GateNext]_gateVars

\* What a user of the abstract gate relies on: once the sweep is over, every
\* open session uses a secret in force.
NoRevokedSession ==
  ~sweeping => \A c \in Conn : session[c] # NoSecret => session[c] \in inForce
=============================================================================

---------------------------- MODULE ServerProofs ----------------------------
(***************************************************************************)
(* Proofs about Server, for every number of connections and secrets and    *)
(* every set of configurations.                                            *)
(***************************************************************************)
EXTENDS Server, FiniteSetTheorems, TLAPS

-----------------------------------------------------------------------------
(* Types.                                                                  *)

\* A generated secret is an identity.
LEMMA FreshType == Fresh \subseteq Secret
  BY GeneratedIsSecret DEF Fresh

\* Appending the generated entry to a configuration gives a configuration.
LEMMA GeneratedConfig ==
  ASSUME NEW m \in Config, NEW s \in Secret
  PROVE  WithGenerated(m, s) \in Config
  <1>1. [secret |-> s, name |-> DefaultName, enabled |-> TRUE, valid |-> TRUE] \in Entry
    BY DefaultNameIsName DEF Entry
  <1>. QED
    BY <1>1 DEF WithGenerated, Config

\* buildSecrets keeps identities only.
LEMMA ValidSecretsType ==
  ASSUME NEW m \in Config
  PROVE  ValidSecrets(m) \subseteq Secret
  <1>1. m.secrets \subseteq Entry
    BY DEF Config
  <1>2. \A e \in Entry : e.secret \in Secret
    BY DEF Entry
  <1>. QED
    BY <1>1, <1>2 DEF ValidSecrets, EffectiveSecrets

\* The server starts with every field in its type.
LEMMA TypeInit == Init => TypeOK
  <1>1. Init => cfg \in Config
    BY ConfigsType DEF Init
  <1>2. Init => /\ limit \in [Conn -> Nat]
                /\ snap \in [Conn -> SUBSET Secret]
                /\ mask \in [Conn -> BOOLEAN]
                /\ sec \in [Conn -> Secret \cup {NoSecret}]
                /\ shut \in [Conn -> BOOLEAN]
    BY DEF Init
  <1>3. Init => pc \in [Conn -> Stage]
    BY DEF Init, Stage
  <1>4. Init => secrets \subseteq Secret /\ conns \subseteq Conn /\ stats \subseteq Conn
    BY DEF Init
  <1>5. Init => pending \subseteq Secret /\ victims \subseteq Conn
    BY DEF Init
  <1>6. Init => active \in Int /\ accepting \in Conn \cup {NoConn}
    BY DEF Init
  <1>7. Init => at \in AdminStep /\ op \in {"boot", "start", "reload", "sweep", "none"}
    BY DEF Init, AdminStep
  <1>8. Init => running \in BOOLEAN /\ listener \in BOOLEAN /\ wsPool \in BOOLEAN
    BY Zenon DEF Init
  <1>. QED
    BY <1>1, <1>2, <1>3, <1>4, <1>5, <1>6, <1>7, <1>8, Zenon DEF TypeOK

\* Every step keeps every field in its type.
LEMMA TypeNext ==
  ASSUME TypeOK, [Next]_vars
  PROVE  TypeOK'
<1>1. ASSUME NEW m \in PostedConfigs, UpdateLive(m) PROVE TypeOK'
  BY <1>1, ConfigsType DEF UpdateLive, TypeOK, AdminStep, Stage, serverVars,
     adminVars, handlerVars
<1>2. ASSUME NEW m \in PostedConfigs, UpdateRestart(m) PROVE TypeOK'
  BY <1>2, ConfigsType DEF UpdateRestart, TypeOK, AdminStep, Stage, serverVars,
     adminVars, handlerVars
<1>3. CASE Boot
  BY <1>3 DEF Boot, TypeOK, AdminStep, Stage, serverVars, adminVars, handlerVars
<1>4. CASE StopForUpdate
  BY <1>4 DEF StopForUpdate, TypeOK, AdminStep, Stage, serverVars, adminVars,
     handlerVars
<1>5. CASE BuildSecrets
  BY <1>5, FreshType, GeneratedConfig, ValidSecretsType DEF BuildSecrets, TypeOK,
     AdminStep, Stage, serverVars, adminVars, handlerVars
<1>6. CASE BuildSecretsFails
  BY <1>6 DEF BuildSecretsFails, TypeOK, AdminStep, Stage, serverVars, adminVars,
     handlerVars
<1>7. CASE ListenFails
  BY <1>7, FreshType, GeneratedConfig DEF ListenFails, TypeOK, AdminStep, Stage,
     serverVars, adminVars, handlerVars
<1>8. CASE Publish
  BY <1>8 DEF Publish, TypeOK, AdminStep, Stage, serverVars, adminVars, handlerVars
<1>9. CASE Snapshot
  BY <1>9 DEF Snapshot, TypeOK, AdminStep, Stage, serverVars, adminVars, handlerVars
<1>10. CASE SweepDone
  BY <1>10 DEF SweepDone, TypeOK, AdminStep, Stage, serverVars, adminVars, handlerVars
<1>11. CASE PruneStats
  BY <1>11 DEF PruneStats, TypeOK, AdminStep, Stage, serverVars, adminVars, handlerVars
<1>12. CASE Serve
  BY <1>12 DEF Serve, TypeOK, AdminStep, Stage, serverVars, adminVars, handlerVars,
     Config
<1>13. ASSUME NEW c \in Conn, CloseVictim(c) PROVE TypeOK'
  BY <1>13 DEF CloseVictim, TypeOK, AdminStep, Stage, serverVars, adminVars, handlerVars
<1>14. CASE Stop
  BY <1>14 DEF Stop, TypeOK, AdminStep, Stage, serverVars, adminVars, handlerVars
<1>15. CASE Restart
  BY <1>15, ConfigsType, NoneIsNew DEF Restart, TypeOK, AdminStep, Stage,
     serverVars, adminVars, handlerVars
<1>16. ASSUME NEW c \in Conn, Accept(c) PROVE TypeOK'
  BY <1>16 DEF Accept, TypeOK, AdminStep, Stage, serverVars, adminVars, handlerVars,
     Config
<1>17. ASSUME NEW c \in Conn, Admit(c) PROVE TypeOK'
  BY <1>17 DEF Admit, TypeOK, AdminStep, Stage, serverVars, adminVars, handlerVars,
     LoopDone
<1>18. ASSUME NEW c \in Conn, Refuse(c) PROVE TypeOK'
  BY <1>18 DEF Refuse, TypeOK, AdminStep, Stage, serverVars, adminVars, handlerVars
<1>19. ASSUME NEW c \in Conn, Reject(c) PROVE TypeOK'
  BY <1>19 DEF Reject, TypeOK, AdminStep, Stage, serverVars, adminVars, handlerVars,
     LoopDone
<1>20. ASSUME NEW c \in Conn, LoadSecrets(c) PROVE TypeOK'
  BY <1>20 DEF LoadSecrets, TypeOK, AdminStep, Stage, serverVars, adminVars,
     handlerVars, Config
<1>21. ASSUME NEW c \in Conn, HandshakeFails(c) PROVE TypeOK'
  BY <1>21 DEF HandshakeFails, TypeOK, AdminStep, Stage, serverVars, adminVars,
     handlerVars
<1>22. ASSUME NEW c \in Conn, MaskingEnds(c) PROVE TypeOK'
  BY <1>22 DEF MaskingEnds, TypeOK, AdminStep, Stage, serverVars, adminVars, handlerVars
<1>23. ASSUME NEW c \in Conn, TrackConn(c) PROVE TypeOK'
  BY <1>23 DEF TrackConn, TypeOK, AdminStep, Stage, serverVars, adminVars, handlerVars
<1>24. ASSUME NEW c \in Conn, CheckSecret(c) PROVE TypeOK'
  BY <1>24 DEF CheckSecret, TypeOK, AdminStep, Stage, serverVars, adminVars, handlerVars
<1>25. ASSUME NEW c \in Conn, AcceptObfuscatedOK(c) PROVE TypeOK'
  BY <1>25 DEF AcceptObfuscatedOK, TypeOK, AdminStep, Stage, serverVars, adminVars,
     handlerVars
<1>26. ASSUME NEW c \in Conn, SetupFails(c) PROVE TypeOK'
  BY <1>26 DEF SetupFails, TypeOK, AdminStep, Stage, serverVars, adminVars, handlerVars
<1>27. ASSUME NEW c \in Conn, DialOK(c) PROVE TypeOK'
  BY <1>27 DEF DialOK, TypeOK, AdminStep, Stage, serverVars, adminVars, handlerVars
<1>28. ASSUME NEW c \in Conn, RelayEnds(c) PROVE TypeOK'
  BY <1>28 DEF RelayEnds, TypeOK, AdminStep, Stage, serverVars, adminVars, handlerVars
<1>29. ASSUME NEW c \in Conn, Untrack(c) PROVE TypeOK'
  BY <1>29 DEF Untrack, TypeOK, AdminStep, Stage, serverVars, adminVars, handlerVars
<1>30. ASSUME NEW c \in Conn, Leave(c) PROVE TypeOK'
  BY <1>30 DEF Leave, TypeOK, AdminStep, Stage, serverVars, adminVars, handlerVars
<1>31. ASSUME NEW c \in Conn, NEW s \in Secret, HandshakeOK(c, s) PROVE TypeOK'
  BY <1>31 DEF HandshakeOK, TypeOK, AdminStep, Stage, serverVars, adminVars, handlerVars
<1>32. CASE UNCHANGED vars
  BY <1>32 DEF vars, TypeOK
<1>. QED
  BY <1>1, <1>2, <1>3, <1>4, <1>5, <1>6, <1>7, <1>8, <1>9, <1>10, <1>11, <1>12,
     <1>13, <1>14, <1>15, <1>16, <1>17, <1>18, <1>19, <1>20, <1>21, <1>22, <1>23,
     <1>24, <1>25, <1>26, <1>27, <1>28, <1>29, <1>30, <1>31, <1>32 DEF Next, Admin,
     Loop, Handler

\* Every field keeps its type, whatever the clients, the updates and the
\* failures to listen.
THEOREM TypeCorrect == Spec => []TypeOK
  BY TypeInit, TypeNext, PTL DEF Spec

-----------------------------------------------------------------------------
(* The admission counter.                                                  *)

\* A step that changes no stage into or out of Counted, and not the counter.
LEMMA CountedSame ==
  ASSUME ActiveExact, active' = active,
         \A d \in Conn : pc'[d] \in Counted <=> pc[d] \in Counted
  PROVE  ActiveExact'
  <1>1. {d \in Conn : pc'[d] \in Counted} = {d \in Conn : pc[d] \in Counted}
    OBVIOUS
  <1>. QED
    BY <1>1 DEF ActiveExact

\* Add(1) for one more connection.
LEMMA CountedUp ==
  ASSUME ActiveExact, NEW c \in Conn, active' = active + 1,
         pc[c] \notin Counted, pc'[c] \in Counted,
         \A d \in Conn \ {c} : pc'[d] = pc[d]
  PROVE  ActiveExact'
  <1>. DEFINE S == {d \in Conn : pc[d] \in Counted}
  <1>1. IsFiniteSet(S)
    BY ConnFinite, FS_Subset
  <1>2. {d \in Conn : pc'[d] \in Counted} = S \cup {c}
    OBVIOUS
  <1>3. Cardinality(S \cup {c}) = Cardinality(S) + 1
    BY <1>1, FS_AddElement
  <1>. QED
    BY <1>2, <1>3 DEF ActiveExact

\* Add(-1) for a connection that was counted.
LEMMA CountedDown ==
  ASSUME ActiveExact, NEW c \in Conn, active' = active - 1,
         pc[c] \in Counted, pc'[c] \notin Counted,
         \A d \in Conn \ {c} : pc'[d] = pc[d]
  PROVE  ActiveExact'
  <1>. DEFINE S == {d \in Conn : pc[d] \in Counted}
  <1>1. IsFiniteSet(S)
    BY ConnFinite, FS_Subset
  <1>2. {d \in Conn : pc'[d] \in Counted} = S \ {c}
    OBVIOUS
  <1>3. Cardinality(S \ {c}) = Cardinality(S) - 1
    BY <1>1, FS_RemoveElement
  <1>. QED
    BY <1>2, <1>3 DEF ActiveExact

\* Without connections the counter is zero.
LEMMA NoneCounted ==
  ASSUME active' = 0, \A d \in Conn : pc'[d] \notin Counted
  PROVE  ActiveExact'
  <1>1. {d \in Conn : pc'[d] \in Counted} = {}
    OBVIOUS
  <1>. QED
    BY <1>1, FS_EmptySet DEF ActiveExact

\* Initially no connection is counted.
LEMMA ActiveInit == Init => ActiveExact
  <1> SUFFICES ASSUME Init PROVE ActiveExact
    OBVIOUS
  <1>1. {d \in Conn : pc[d] \in Counted} = {}
    BY DEF Init, Counted, Stage
  <1>. QED
    BY <1>1, FS_EmptySet DEF ActiveExact, Init

\* Every step keeps the counter exact.
LEMMA ActiveNext ==
  ASSUME TypeOK, ActiveExact, [Next]_vars
  PROVE  ActiveExact'
<1>1. ASSUME NEW m \in PostedConfigs, UpdateLive(m) PROVE ActiveExact'
  BY <1>1 DEF UpdateLive, ActiveExact
<1>2. ASSUME NEW m \in PostedConfigs, UpdateRestart(m) PROVE ActiveExact'
  BY <1>2 DEF UpdateRestart, ActiveExact
<1>3. CASE Boot
  BY <1>3 DEF Boot, ActiveExact
<1>4. CASE StopForUpdate
  BY <1>4 DEF StopForUpdate, ActiveExact
<1>5. CASE BuildSecrets
  BY <1>5 DEF BuildSecrets, ActiveExact
<1>6. CASE BuildSecretsFails
  BY <1>6 DEF BuildSecretsFails, ActiveExact
<1>7. CASE ListenFails
  BY <1>7 DEF ListenFails, ActiveExact
<1>8. CASE Publish
  BY <1>8 DEF Publish, ActiveExact
<1>9. CASE Snapshot
  BY <1>9 DEF Snapshot, ActiveExact
<1>10. CASE SweepDone
  BY <1>10 DEF SweepDone, ActiveExact
<1>11. CASE PruneStats
  BY <1>11 DEF PruneStats, ActiveExact
<1>12. CASE Serve
  BY <1>12 DEF Serve, ActiveExact
<1>13. ASSUME NEW c \in Conn, CloseVictim(c) PROVE ActiveExact'
  BY <1>13 DEF CloseVictim, ActiveExact
<1>14. CASE Stop
  BY <1>14 DEF Stop, ActiveExact
<1>15. CASE Restart
  BY <1>15, NoneCounted DEF Restart, Counted, Stage
<1>16. ASSUME NEW c \in Conn, Accept(c) PROVE ActiveExact'
  BY <1>16, CountedSame DEF Accept, TypeOK, Counted, Stage
<1>17. ASSUME NEW c \in Conn, Admit(c) PROVE ActiveExact'
  BY <1>17, CountedUp DEF Admit, TypeOK, Counted, Stage
<1>18. ASSUME NEW c \in Conn, Refuse(c) PROVE ActiveExact'
  BY <1>18, CountedUp DEF Refuse, TypeOK, Counted, Stage
<1>19. ASSUME NEW c \in Conn, Reject(c) PROVE ActiveExact'
  BY <1>19, CountedDown DEF Reject, TypeOK, Counted, Stage
<1>20. ASSUME NEW c \in Conn, LoadSecrets(c) PROVE ActiveExact'
  BY <1>20, CountedSame DEF LoadSecrets, TypeOK, Counted, Stage
<1>21. ASSUME NEW c \in Conn, HandshakeFails(c) PROVE ActiveExact'
  BY <1>21, CountedSame DEF HandshakeFails, TypeOK, Counted, Stage
<1>22. ASSUME NEW c \in Conn, MaskingEnds(c) PROVE ActiveExact'
  BY <1>22, CountedSame DEF MaskingEnds, TypeOK, Counted, Stage
<1>23. ASSUME NEW c \in Conn, TrackConn(c) PROVE ActiveExact'
  BY <1>23, CountedSame DEF TrackConn, TypeOK, Counted, Stage
<1>24. ASSUME NEW c \in Conn, CheckSecret(c) PROVE ActiveExact'
  BY <1>24, CountedSame DEF CheckSecret, TypeOK, Counted, Stage
<1>25. ASSUME NEW c \in Conn, AcceptObfuscatedOK(c) PROVE ActiveExact'
  BY <1>25, CountedSame DEF AcceptObfuscatedOK, TypeOK, Counted, Stage
<1>26. ASSUME NEW c \in Conn, SetupFails(c) PROVE ActiveExact'
  BY <1>26, CountedSame DEF SetupFails, TypeOK, Counted, Stage
<1>27. ASSUME NEW c \in Conn, DialOK(c) PROVE ActiveExact'
  BY <1>27, CountedSame DEF DialOK, TypeOK, Counted, Stage
<1>28. ASSUME NEW c \in Conn, RelayEnds(c) PROVE ActiveExact'
  BY <1>28, CountedSame DEF RelayEnds, TypeOK, Counted, Stage
<1>29. ASSUME NEW c \in Conn, Untrack(c) PROVE ActiveExact'
  BY <1>29, CountedSame DEF Untrack, TypeOK, Counted, Stage
<1>30. ASSUME NEW c \in Conn, Leave(c) PROVE ActiveExact'
  BY <1>30, CountedDown DEF Leave, TypeOK, Counted, Stage
<1>31. ASSUME NEW c \in Conn, NEW s \in Secret, HandshakeOK(c, s) PROVE ActiveExact'
  BY <1>31, CountedSame DEF HandshakeOK, TypeOK, Counted, Stage
<1>32. CASE UNCHANGED vars
  BY <1>32 DEF vars, ActiveExact
<1>. QED
  BY <1>1, <1>2, <1>3, <1>4, <1>5, <1>6, <1>7, <1>8, <1>9, <1>10, <1>11, <1>12,
     <1>13, <1>14, <1>15, <1>16, <1>17, <1>18, <1>19, <1>20, <1>21, <1>22, <1>23,
     <1>24, <1>25, <1>26, <1>27, <1>28, <1>29, <1>30, <1>31, <1>32 DEF Next, Admin,
     Loop, Handler

\* The admission counter counts the connections between their admission (or
\* their refusal) and the end of their goroutine, exactly.
THEOREM CounterExact == Spec => []ActiveExact
  BY TypeCorrect, ActiveInit, ActiveNext, PTL DEF Spec

-----------------------------------------------------------------------------
(* Revocation.                                                             *)

SessionInv ==
  /\ ConnsExact
  /\ SecretKnown
  /\ SweepFindsRevoked
  /\ VictimsRevoked
  /\ PendingInForce
  /\ LiveCounted

\* Initially there are no sessions.
LEMMA SessionInit == Init => SessionInv
  BY DEF Init, SessionInv, ConnsExact, SecretKnown, SweepFindsRevoked,
     VictimsRevoked, PendingInForce, LiveCounted, Live, Registered, Session,
     Authenticated

\* Every step keeps the registration of sessions, the knowledge of the sweep
\* and the statistics consistent.
LEMMA SessionNext ==
  ASSUME TypeOK, SessionInv, [Next]_vars
  PROVE  SessionInv'
<1>1. ASSUME NEW m \in PostedConfigs, UpdateLive(m) PROVE SessionInv'
  BY <1>1 DEF UpdateLive, TypeOK, serverVars, adminVars, handlerVars, SessionInv,
     ConnsExact, SecretKnown, SweepFindsRevoked, VictimsRevoked, PendingInForce,
     LiveCounted, Live, Registered, Session, Authenticated
<1>2. ASSUME NEW m \in PostedConfigs, UpdateRestart(m) PROVE SessionInv'
  BY <1>2 DEF UpdateRestart, TypeOK, serverVars, adminVars, handlerVars, SessionInv,
     ConnsExact, SecretKnown, SweepFindsRevoked, VictimsRevoked, PendingInForce,
     LiveCounted, Live, Registered, Session, Authenticated
<1>3. CASE Boot
  BY <1>3 DEF Boot, TypeOK, serverVars, adminVars, handlerVars, SessionInv,
     ConnsExact, SecretKnown, SweepFindsRevoked, VictimsRevoked, PendingInForce,
     LiveCounted, Live, Registered, Session, Authenticated
<1>4. CASE StopForUpdate
  BY <1>4 DEF StopForUpdate, TypeOK, serverVars, adminVars, handlerVars, SessionInv,
     ConnsExact, SecretKnown, SweepFindsRevoked, VictimsRevoked, PendingInForce,
     LiveCounted, Live, Registered, Session, Authenticated
<1>5. CASE BuildSecrets
  BY <1>5 DEF BuildSecrets, TypeOK, serverVars, adminVars, handlerVars, SessionInv,
     ConnsExact, SecretKnown, SweepFindsRevoked, VictimsRevoked, PendingInForce,
     LiveCounted, Live, Registered, Session, Authenticated
<1>6. CASE BuildSecretsFails
  BY <1>6 DEF BuildSecretsFails, TypeOK, serverVars, adminVars, handlerVars,
     SessionInv, ConnsExact, SecretKnown, SweepFindsRevoked, VictimsRevoked,
     PendingInForce, LiveCounted, Live, Registered, Session, Authenticated
<1>7. CASE ListenFails
  BY <1>7 DEF ListenFails, TypeOK, serverVars, adminVars, handlerVars, SessionInv,
     ConnsExact, SecretKnown, SweepFindsRevoked, VictimsRevoked, PendingInForce,
     LiveCounted, Live, Registered, Session, Authenticated
<1>8. CASE Publish
  BY <1>8 DEF Publish, TypeOK, serverVars, adminVars, handlerVars, SessionInv,
     ConnsExact, SecretKnown, SweepFindsRevoked, VictimsRevoked, PendingInForce,
     LiveCounted, Live, Registered, Session, Authenticated
<1>9. CASE Snapshot
  BY <1>9 DEF Snapshot, TypeOK, serverVars, adminVars, handlerVars, SessionInv,
     ConnsExact, SecretKnown, SweepFindsRevoked, VictimsRevoked, PendingInForce,
     LiveCounted, Live, Registered, Session, Authenticated
<1>10. CASE SweepDone
  BY <1>10 DEF SweepDone, TypeOK, serverVars, adminVars, handlerVars, SessionInv,
     ConnsExact, SecretKnown, SweepFindsRevoked, VictimsRevoked, PendingInForce,
     LiveCounted, Live, Registered, Session, Authenticated
<1>11. CASE PruneStats
  BY <1>11 DEF PruneStats, TypeOK, serverVars, adminVars, handlerVars, SessionInv,
     ConnsExact, SecretKnown, SweepFindsRevoked, VictimsRevoked, PendingInForce,
     LiveCounted, Live, Registered, Session, Authenticated
<1>12. CASE Serve
  BY <1>12 DEF Serve, TypeOK, serverVars, adminVars, handlerVars, SessionInv,
     ConnsExact, SecretKnown, SweepFindsRevoked, VictimsRevoked, PendingInForce,
     LiveCounted, Live, Registered, Session, Authenticated
<1>13. ASSUME NEW c \in Conn, CloseVictim(c) PROVE SessionInv'
  BY <1>13 DEF CloseVictim, TypeOK, serverVars, adminVars, handlerVars, SessionInv,
     ConnsExact, SecretKnown, SweepFindsRevoked, VictimsRevoked, PendingInForce,
     LiveCounted, Live, Registered, Session, Authenticated
<1>14. CASE Stop
  BY <1>14 DEF Stop, TypeOK, serverVars, adminVars, handlerVars, SessionInv,
     ConnsExact, SecretKnown, SweepFindsRevoked, VictimsRevoked, PendingInForce,
     LiveCounted, Live, Registered, Session, Authenticated
<1>15. CASE Restart
  BY <1>15 DEF Restart, TypeOK, serverVars, adminVars, handlerVars, SessionInv,
     ConnsExact, SecretKnown, SweepFindsRevoked, VictimsRevoked, PendingInForce,
     LiveCounted, Live, Registered, Session, Authenticated
<1>16. ASSUME NEW c \in Conn, Accept(c) PROVE SessionInv'
  BY <1>16 DEF Accept, TypeOK, serverVars, adminVars, handlerVars, SessionInv,
     ConnsExact, SecretKnown, SweepFindsRevoked, VictimsRevoked, PendingInForce,
     LiveCounted, Live, Registered, Session, Authenticated
<1>17. ASSUME NEW c \in Conn, Admit(c) PROVE SessionInv'
  BY <1>17 DEF Admit, TypeOK, serverVars, adminVars, handlerVars, SessionInv,
     ConnsExact, SecretKnown, SweepFindsRevoked, VictimsRevoked, PendingInForce,
     LiveCounted, Live, Registered, Session, Authenticated
<1>18. ASSUME NEW c \in Conn, Refuse(c) PROVE SessionInv'
  BY <1>18 DEF Refuse, TypeOK, serverVars, adminVars, handlerVars, SessionInv,
     ConnsExact, SecretKnown, SweepFindsRevoked, VictimsRevoked, PendingInForce,
     LiveCounted, Live, Registered, Session, Authenticated
<1>19. ASSUME NEW c \in Conn, Reject(c) PROVE SessionInv'
  BY <1>19 DEF Reject, TypeOK, serverVars, adminVars, handlerVars, SessionInv,
     ConnsExact, SecretKnown, SweepFindsRevoked, VictimsRevoked, PendingInForce,
     LiveCounted, Live, Registered, Session, Authenticated
<1>20. ASSUME NEW c \in Conn, LoadSecrets(c) PROVE SessionInv'
  BY <1>20 DEF LoadSecrets, TypeOK, serverVars, adminVars, handlerVars, SessionInv,
     ConnsExact, SecretKnown, SweepFindsRevoked, VictimsRevoked, PendingInForce,
     LiveCounted, Live, Registered, Session, Authenticated
<1>21. ASSUME NEW c \in Conn, HandshakeFails(c) PROVE SessionInv'
  BY <1>21 DEF HandshakeFails, TypeOK, serverVars, adminVars, handlerVars,
     SessionInv, ConnsExact, SecretKnown, SweepFindsRevoked, VictimsRevoked,
     PendingInForce, LiveCounted, Live, Registered, Session, Authenticated
<1>22. ASSUME NEW c \in Conn, MaskingEnds(c) PROVE SessionInv'
  BY <1>22 DEF MaskingEnds, TypeOK, serverVars, adminVars, handlerVars, SessionInv,
     ConnsExact, SecretKnown, SweepFindsRevoked, VictimsRevoked, PendingInForce,
     LiveCounted, Live, Registered, Session, Authenticated
<1>23. ASSUME NEW c \in Conn, TrackConn(c) PROVE SessionInv'
  BY <1>23 DEF TrackConn, TypeOK, serverVars, adminVars, handlerVars, SessionInv,
     ConnsExact, SecretKnown, SweepFindsRevoked, VictimsRevoked, PendingInForce,
     LiveCounted, Live, Registered, Session, Authenticated
<1>24. ASSUME NEW c \in Conn, CheckSecret(c) PROVE SessionInv'
  BY <1>24 DEF CheckSecret, TypeOK, serverVars, adminVars, handlerVars, SessionInv,
     ConnsExact, SecretKnown, SweepFindsRevoked, VictimsRevoked, PendingInForce,
     LiveCounted, Live, Registered, Session, Authenticated
<1>25. ASSUME NEW c \in Conn, AcceptObfuscatedOK(c) PROVE SessionInv'
  BY <1>25 DEF AcceptObfuscatedOK, TypeOK, serverVars, adminVars, handlerVars,
     SessionInv, ConnsExact, SecretKnown, SweepFindsRevoked, VictimsRevoked,
     PendingInForce, LiveCounted, Live, Registered, Session, Authenticated
<1>26. ASSUME NEW c \in Conn, SetupFails(c) PROVE SessionInv'
  BY <1>26 DEF SetupFails, TypeOK, serverVars, adminVars, handlerVars, SessionInv,
     ConnsExact, SecretKnown, SweepFindsRevoked, VictimsRevoked, PendingInForce,
     LiveCounted, Live, Registered, Session, Authenticated
<1>27. ASSUME NEW c \in Conn, DialOK(c) PROVE SessionInv'
  BY <1>27 DEF DialOK, TypeOK, serverVars, adminVars, handlerVars, SessionInv,
     ConnsExact, SecretKnown, SweepFindsRevoked, VictimsRevoked, PendingInForce,
     LiveCounted, Live, Registered, Session, Authenticated
<1>28. ASSUME NEW c \in Conn, RelayEnds(c) PROVE SessionInv'
  BY <1>28 DEF RelayEnds, TypeOK, serverVars, adminVars, handlerVars, SessionInv,
     ConnsExact, SecretKnown, SweepFindsRevoked, VictimsRevoked, PendingInForce,
     LiveCounted, Live, Registered, Session, Authenticated
<1>29. ASSUME NEW c \in Conn, Untrack(c) PROVE SessionInv'
  BY <1>29 DEF Untrack, TypeOK, serverVars, adminVars, handlerVars, SessionInv,
     ConnsExact, SecretKnown, SweepFindsRevoked, VictimsRevoked, PendingInForce,
     LiveCounted, Live, Registered, Session, Authenticated
<1>30. ASSUME NEW c \in Conn, Leave(c) PROVE SessionInv'
  BY <1>30 DEF Leave, TypeOK, serverVars, adminVars, handlerVars, SessionInv,
     ConnsExact, SecretKnown, SweepFindsRevoked, VictimsRevoked, PendingInForce,
     LiveCounted, Live, Registered, Session, Authenticated
<1>31. ASSUME NEW c \in Conn, NEW s \in Secret, HandshakeOK(c, s) PROVE SessionInv'
  BY <1>31 DEF HandshakeOK, TypeOK, serverVars, adminVars, handlerVars, SessionInv,
     ConnsExact, SecretKnown, SweepFindsRevoked, VictimsRevoked, PendingInForce,
     LiveCounted, Live, Registered, Session, Authenticated
<1>32. CASE UNCHANGED vars
  BY <1>32 DEF vars, SessionInv, ConnsExact, SecretKnown, SweepFindsRevoked,
     VictimsRevoked, PendingInForce, LiveCounted, Live, Registered, Session,
     Authenticated
<1>. QED
  BY <1>1, <1>2, <1>3, <1>4, <1>5, <1>6, <1>7, <1>8, <1>9, <1>10, <1>11, <1>12,
     <1>13, <1>14, <1>15, <1>16, <1>17, <1>18, <1>19, <1>20, <1>21, <1>22, <1>23,
     <1>24, <1>25, <1>26, <1>27, <1>28, <1>29, <1>30, <1>31, <1>32 DEF Next, Admin,
     Loop, Handler

\* The inductive invariant of the server.
THEOREM InvCorrect == Spec => []IInv
  <1>1. IInv <=> TypeOK /\ ActiveExact /\ SessionInv
    BY DEF IInv, SessionInv
  <1>. QED
    BY <1>1, TypeCorrect, CounterExact, SessionInit, SessionNext, PTL DEF Spec

\* Once an update is over, every open session uses a secret in force.
THEOREM RevocationComplete == Spec => []RevokedClosed
  <1>1. IInv => RevokedClosed
    BY DEF IInv, SweepFindsRevoked, RevokedClosed
  <1>. QED
    BY <1>1, InvCorrect, PTL

\* Every open relayed session is counted in the statistics the panel shows.
THEOREM SessionsCounted == Spec => []LiveCounted
  <1>1. IInv => LiveCounted
    BY DEF IInv
  <1>. QED
    BY <1>1, InvCorrect, PTL

-----------------------------------------------------------------------------
(* Steps.                                                                  *)

\* No sweep of a reload or of a restart closes a session of a kept secret.
THEOREM KeptSessions == Spec => KeptOpen
  <1>1. ASSUME IInv, Next
        PROVE  \A c \in Conn :
                 ~shut[c] /\ shut'[c] => sec[c] \notin secrets \/ op = "sweep"
    <2>. SUFFICES ASSUME NEW c \in Conn, ~shut[c], shut'[c], op # "sweep"
                  PROVE  sec[c] \notin secrets
      OBVIOUS
    <2>1. CloseVictim(c)
      <3>1. shut' # shut
        OBVIOUS
      <3>2. CASE \E d \in Conn : CloseVictim(d)
        <4>1. PICK d \in Conn : CloseVictim(d)
          BY <3>2
        <4>2. shut' = [shut EXCEPT ![d] = TRUE] /\ shut \in [Conn -> BOOLEAN]
          BY <1>1, <4>1 DEF CloseVictim, IInv, TypeOK
        <4>3. d = c
          <5>1. d # c => shut'[c] = shut[c]
            BY <4>2
          <5>. QED
            BY <5>1
        <4>. QED
          BY <4>1, <4>3
      <3>3. CASE \E d \in Conn : Leave(d)
        BY <3>3 DEF Leave, IInv, TypeOK
      <3>4. CASE Restart
        BY <3>4 DEF Restart
      <3>. QED
        BY <1>1, <3>1, <3>2, <3>3, <3>4
        DEF Next, Admin, Loop, Handler, UpdateLive, UpdateRestart, Boot,
            StopForUpdate, BuildSecrets, BuildSecretsFails, ListenFails, Publish,
            Snapshot, SweepDone, PruneStats, Serve, Stop, Accept, Admit, Refuse,
            Reject, LoadSecrets, HandshakeOK, HandshakeFails, MaskingEnds,
            TrackConn, CheckSecret, AcceptObfuscatedOK, SetupFails, DialOK,
            RelayEnds, Untrack
    <2>. QED
      BY <1>1, <2>1 DEF IInv, VictimsRevoked, PendingInForce, CloseVictim
  <1>2. IInv /\ [Next]_vars =>
          [\A c \in Conn :
             ~shut[c] /\ shut'[c] => sec[c] \notin secrets \/ op = "sweep"]_vars
    BY <1>1
  <1>. QED
    BY <1>2, InvCorrect, PTL DEF Spec, KeptOpen

\* A connection is admitted only when, with it, no more handlers run than the
\* limit read for it allows.
THEOREM AdmissionBounded == Spec => AdmittedWithinLimit
  <1>1. ASSUME IInv, IInv', [Next]_vars, NEW c \in Conn,
               pc[c] = "accepted", pc'[c] = "entry"
        PROVE  Cardinality({d \in Conn : pc'[d] \in Admitted}) <= limit[c]
    <2>1. Admit(c)
      <3>1. CASE \E d \in Conn : Accept(d) \/ Loop(d) \/ Handler(d)
        BY <1>1, <3>1
        DEF Loop, Handler, IInv, TypeOK, Accept, Admit, Refuse, Reject, LoadSecrets,
            HandshakeOK, HandshakeFails, MaskingEnds, TrackConn, CheckSecret,
            AcceptObfuscatedOK, SetupFails, DialOK, RelayEnds, Untrack, Leave
      <3>2. CASE Restart
        BY <1>1, <3>2 DEF Restart
      <3>. QED
        BY <1>1, <3>1, <3>2
        DEF Next, Admin, vars, UpdateLive, UpdateRestart, Boot, StopForUpdate,
            BuildSecrets, BuildSecretsFails, ListenFails, Publish, Snapshot,
            CloseVictim, SweepDone, PruneStats, Serve, Stop
    <2>2. active' <= limit[c]
      BY <2>1 DEF Admit
    <2>. DEFINE S == {d \in Conn : pc'[d] \in Counted}
                T == {d \in Conn : pc'[d] \in Admitted}
    <2>3. active' = Cardinality(S)
      BY <1>1 DEF IInv, ActiveExact
    <2>4. IsFiniteSet(S)
      BY ConnFinite, FS_Subset
    <2>5. T \in SUBSET S
      BY DEF Admitted
    <2>6. Cardinality(T) <= Cardinality(S)
      BY <2>4, <2>5, FS_Subset
    <2>7. Cardinality(S) \in Nat /\ Cardinality(T) \in Nat
      BY <2>4, <2>5, FS_Subset, FS_CardinalityType
    <2>8. limit[c] \in Nat
      BY <1>1 DEF IInv, TypeOK
    <2>. QED
      BY <2>2, <2>3, <2>6, <2>7, <2>8
  <1>2. IInv /\ IInv' /\ [Next]_vars =>
          [\A c \in Conn :
             pc[c] = "accepted" /\ pc'[c] = "entry"
               => Cardinality({d \in Conn : pc'[d] \in Admitted}) <= limit[c]]_vars
    BY <1>1
  <1>. QED
    BY <1>2, InvCorrect, PTL DEF Spec, AdmittedWithinLimit

-----------------------------------------------------------------------------
(* Refinement of SecretGate.                                               *)

GateStep == [Gate!GateNext]_(Gate!gateVars)

\* A step that changes neither the secrets, nor a session, nor the sweep.
LEMMA GateStutter ==
  ASSUME secrets' = secrets, Sweeping' = Sweeping,
         \A d \in Conn : SessionOf(d)' = SessionOf(d)
  PROVE  GateStep
  BY DEF GateStep, Gate!gateVars

\* A step that opens or ends at most one session.
LEMMA GateSession ==
  ASSUME secrets' = secrets, Sweeping' = Sweeping, NEW c \in Conn,
         \A d \in Conn \ {c} : SessionOf(d)' = SessionOf(d),
         \/ SessionOf(c)' = SessionOf(c)
         \/ SessionOf(c)' = NoSecret
         \/ SessionOf(c) = NoSecret /\ SessionOf(c)' \in secrets
  PROVE  GateStep
  <1>. DEFINE session == [d \in Conn |-> SessionOf(d)]
  <1>1. session' = [session EXCEPT ![c] = SessionOf(c)']
    OBVIOUS
  <1>2. CASE SessionOf(c)' = SessionOf(c)
    BY <1>2, GateStutter
  <1>3. CASE SessionOf(c) # NoSecret /\ SessionOf(c)' = NoSecret
    <2>1. Gate!End(c)
      BY <1>1, <1>3 DEF Gate!End
    <2>. QED
      BY <2>1 DEF GateStep, Gate!GateNext
  <1>4. CASE SessionOf(c) = NoSecret /\ SessionOf(c)' \in secrets
    <2>1. Gate!Open(c)
      BY <1>1, <1>4 DEF Gate!Open
    <2>. QED
      BY <2>1 DEF GateStep, Gate!GateNext
  <1>. QED
    BY <1>2, <1>3, <1>4

\* A step that replaces the secrets and starts a sweep.
LEMMA GateInstall ==
  ASSUME secrets' \subseteq Secret, ~Sweeping, Sweeping',
         \A d \in Conn : SessionOf(d)' = SessionOf(d)
  PROVE  GateStep
  <1>1. Gate!Install(secrets')
    BY DEF Gate!Install, Sweeping
  <1>. QED
    BY <1>1 DEF GateStep, Gate!GateNext

\* A step that ends a sweep all open sessions have survived rightly.
LEMMA GateSettle ==
  ASSUME secrets' = secrets, Sweeping, ~Sweeping',
         \A d \in Conn : SessionOf(d)' = SessionOf(d),
         \A d \in Conn : SessionOf(d) # NoSecret => SessionOf(d) \in secrets
  PROVE  GateStep
  <1>1. Gate!Settle
    BY DEF Gate!Settle, Sweeping
  <1>. QED
    BY <1>1 DEF GateStep, Gate!GateNext

\* A step that leaves no secret and no session.
LEMMA GatePowerOff ==
  ASSUME secrets' = {}, ~Sweeping', \A d \in Conn : SessionOf(d)' = NoSecret
  PROVE  GateStep
  <1>1. Gate!PowerOff
    BY DEF Gate!PowerOff, Sweeping
  <1>. QED
    BY <1>1 DEF GateStep, Gate!GateNext

\* Every step of the server is a step of the gate or leaves it unchanged.
LEMMA GateSimulation ==
  ASSUME IInv, [Next]_vars
  PROVE  GateStep
<1>1. ASSUME NEW m \in PostedConfigs, UpdateLive(m) PROVE GateStep
  BY <1>1, GateStutter DEF UpdateLive, IInv, PendingInForce, serverVars, adminVars,
     handlerVars, SessionOf, Live, Session, Sweeping
<1>2. ASSUME NEW m \in PostedConfigs, UpdateRestart(m) PROVE GateStep
  BY <1>2, GateStutter DEF UpdateRestart, IInv, PendingInForce, serverVars,
     adminVars, handlerVars, SessionOf, Live, Session, Sweeping
<1>3. CASE Boot
  BY <1>3, GateStutter DEF Boot, IInv, PendingInForce, serverVars, adminVars,
     handlerVars, SessionOf, Live, Session, Sweeping
<1>4. CASE StopForUpdate
  BY <1>4, GateStutter DEF StopForUpdate, IInv, PendingInForce, serverVars,
     adminVars, handlerVars, SessionOf, Live, Session, Sweeping
<1>5. CASE BuildSecrets
  BY <1>5, GateStutter DEF BuildSecrets, IInv, PendingInForce, serverVars,
     adminVars, handlerVars, SessionOf, Live, Session, Sweeping
<1>6. CASE BuildSecretsFails
  BY <1>6, GateStutter DEF BuildSecretsFails, IInv, PendingInForce, serverVars,
     adminVars, handlerVars, SessionOf, Live, Session, Sweeping
<1>7. CASE ListenFails
  BY <1>7, GateStutter DEF ListenFails, IInv, PendingInForce, serverVars, adminVars,
     handlerVars, SessionOf, Live, Session, Sweeping
<1>8. CASE Publish
  BY <1>8, GateInstall DEF Publish, IInv, TypeOK, PendingInForce, serverVars,
     adminVars, handlerVars, SessionOf, Live, Session, Sweeping
<1>9. CASE Snapshot
  BY <1>9, GateStutter DEF Snapshot, IInv, PendingInForce, serverVars, adminVars,
     handlerVars, SessionOf, Live, Session, Sweeping
<1>10. CASE SweepDone
  BY <1>10, GateSettle, GateStutter DEF SweepDone, IInv, TypeOK, SweepFindsRevoked,
     serverVars, adminVars, handlerVars, SessionOf, Live, Session, Sweeping
<1>11. CASE PruneStats
  BY <1>11, GateStutter DEF PruneStats, IInv, PendingInForce, serverVars, adminVars,
     handlerVars, SessionOf, Live, Session, Sweeping
<1>12. CASE Serve
  BY <1>12, GateStutter DEF Serve, IInv, PendingInForce, serverVars, adminVars,
     handlerVars, SessionOf, Live, Session, Sweeping
<1>13. ASSUME NEW c \in Conn, CloseVictim(c) PROVE GateStep
  BY <1>13, GateSession DEF CloseVictim, IInv, TypeOK, SecretKnown, Authenticated,
     Registered, serverVars, adminVars, handlerVars, SessionOf, Live, Session,
     Sweeping
<1>14. CASE Stop
  BY <1>14, GateStutter DEF Stop, IInv, PendingInForce, serverVars, adminVars,
     handlerVars, SessionOf, Live, Session, Sweeping
<1>15. CASE Restart
  BY <1>15, GatePowerOff DEF Restart, SessionOf, Live, Session, Sweeping
<1>16. ASSUME NEW c \in Conn, Accept(c) PROVE GateStep
  BY <1>16, GateSession DEF Accept, IInv, TypeOK, SecretKnown, Authenticated,
     Registered, serverVars, adminVars, handlerVars, SessionOf, Live, Session,
     Sweeping
<1>17. ASSUME NEW c \in Conn, Admit(c) PROVE GateStep
  BY <1>17, GateSession DEF Admit, IInv, TypeOK, SecretKnown, Authenticated,
     Registered, serverVars, adminVars, handlerVars, SessionOf, Live, Session,
     Sweeping
<1>18. ASSUME NEW c \in Conn, Refuse(c) PROVE GateStep
  BY <1>18, GateSession DEF Refuse, IInv, TypeOK, SecretKnown, Authenticated,
     Registered, serverVars, adminVars, handlerVars, SessionOf, Live, Session,
     Sweeping
<1>19. ASSUME NEW c \in Conn, Reject(c) PROVE GateStep
  BY <1>19, GateSession DEF Reject, IInv, TypeOK, SecretKnown, Authenticated,
     Registered, serverVars, adminVars, handlerVars, SessionOf, Live, Session,
     Sweeping
<1>20. ASSUME NEW c \in Conn, LoadSecrets(c) PROVE GateStep
  BY <1>20, GateSession DEF LoadSecrets, IInv, TypeOK, SecretKnown, Authenticated,
     Registered, serverVars, adminVars, handlerVars, SessionOf, Live, Session,
     Sweeping
<1>21. ASSUME NEW c \in Conn, HandshakeFails(c) PROVE GateStep
  BY <1>21, GateSession DEF HandshakeFails, IInv, TypeOK, SecretKnown,
     Authenticated, Registered, serverVars, adminVars, handlerVars, SessionOf, Live,
     Session, Sweeping
<1>22. ASSUME NEW c \in Conn, MaskingEnds(c) PROVE GateStep
  BY <1>22, GateSession DEF MaskingEnds, IInv, TypeOK, SecretKnown, Authenticated,
     Registered, serverVars, adminVars, handlerVars, SessionOf, Live, Session,
     Sweeping
<1>23. ASSUME NEW c \in Conn, TrackConn(c) PROVE GateStep
  BY <1>23, GateSession DEF TrackConn, IInv, TypeOK, SecretKnown, Authenticated,
     Registered, serverVars, adminVars, handlerVars, SessionOf, Live, Session,
     Sweeping
<1>24. ASSUME NEW c \in Conn, CheckSecret(c) PROVE GateStep
  BY <1>24, GateSession DEF CheckSecret, IInv, TypeOK, SecretKnown, Authenticated,
     Registered, serverVars, adminVars, handlerVars, SessionOf, Live, Session,
     Sweeping
<1>25. ASSUME NEW c \in Conn, AcceptObfuscatedOK(c) PROVE GateStep
  BY <1>25, GateSession DEF AcceptObfuscatedOK, IInv, TypeOK, SecretKnown,
     Authenticated, Registered, serverVars, adminVars, handlerVars, SessionOf, Live,
     Session, Sweeping
<1>26. ASSUME NEW c \in Conn, SetupFails(c) PROVE GateStep
  BY <1>26, GateSession DEF SetupFails, IInv, TypeOK, SecretKnown, Authenticated,
     Registered, serverVars, adminVars, handlerVars, SessionOf, Live, Session,
     Sweeping
<1>27. ASSUME NEW c \in Conn, DialOK(c) PROVE GateStep
  BY <1>27, GateSession DEF DialOK, IInv, TypeOK, SecretKnown, Authenticated,
     Registered, serverVars, adminVars, handlerVars, SessionOf, Live, Session,
     Sweeping
<1>28. ASSUME NEW c \in Conn, RelayEnds(c) PROVE GateStep
  BY <1>28, GateSession DEF RelayEnds, IInv, TypeOK, SecretKnown, Authenticated,
     Registered, serverVars, adminVars, handlerVars, SessionOf, Live, Session,
     Sweeping
<1>29. ASSUME NEW c \in Conn, Untrack(c) PROVE GateStep
  BY <1>29, GateSession DEF Untrack, IInv, TypeOK, SecretKnown, Authenticated,
     Registered, serverVars, adminVars, handlerVars, SessionOf, Live, Session,
     Sweeping
<1>30. ASSUME NEW c \in Conn, Leave(c) PROVE GateStep
  BY <1>30, GateSession DEF Leave, IInv, TypeOK, SecretKnown, Authenticated,
     Registered, serverVars, adminVars, handlerVars, SessionOf, Live, Session,
     Sweeping
<1>31. ASSUME NEW c \in Conn, NEW s \in Secret, HandshakeOK(c, s) PROVE GateStep
  BY <1>31, GateSession DEF HandshakeOK, IInv, TypeOK, SecretKnown, Authenticated,
     Registered, serverVars, adminVars, handlerVars, SessionOf, Live, Session,
     Sweeping
<1>32. CASE UNCHANGED vars
  BY <1>32, GateStutter DEF vars, SessionOf, Live, Session, Sweeping
<1>. QED
  BY <1>1, <1>2, <1>3, <1>4, <1>5, <1>6, <1>7, <1>8, <1>9, <1>10, <1>11, <1>12,
     <1>13, <1>14, <1>15, <1>16, <1>17, <1>18, <1>19, <1>20, <1>21, <1>22, <1>23,
     <1>24, <1>25, <1>26, <1>27, <1>28, <1>29, <1>30, <1>31, <1>32 DEF Next, Admin,
     Loop, Handler

\* The server, with its goroutines and its two-step sweep, implements the gate.
THEOREM ServerImplementsGate == Spec => ImplementsGate
  <1>1. Init => Gate!GateInit
    BY DEF Init, Gate!GateInit, SessionOf, Live, Session, Sweeping
  <1>2. IInv /\ [Next]_vars => [Gate!GateNext]_(Gate!gateVars)
    BY GateSimulation DEF GateStep
  <1>. QED
    BY <1>1, <1>2, InvCorrect, PTL DEF Spec, ImplementsGate, Gate!GateSpec
=============================================================================

-------------------------- MODULE ConfigStore_proofs --------------------------
(***************************************************************************)
(* Proofs about ConfigStore, for any settings and passwords: the inductive *)
(* invariant says where the password is at every statement of the thread,  *)
(* and what the Emby client may be working with.                           *)
(***************************************************************************)
EXTENDS ConfigStore, TLAPS
-------------------------------------------------------------------------------

\* Every step keeps the types.
LEMMA TypingStep ==
    ASSUME IInv, [Next]_vars
    PROVE  TypeOK'
<1> USE ContentsAssumption DEF IInv, TypeOK, Configs, Forms, Normalised, work, files, history, PublicFacts, SecretFacts
<1>1. ASSUME Create PROVE TypeOK'
    BY <1>1 DEF Create
<1>2. ASSUME EnsureSecrets PROVE TypeOK'
    BY <1>2 DEF EnsureSecrets
<1>3. ASSUME ReadRaises PROVE TypeOK'
    BY <1>3 DEF ReadRaises, Fail
<1>4. ASSUME Migrate PROVE TypeOK'
    BY <1>4 DEF Migrate
<1>5. ASSUME Split PROVE TypeOK'
    BY <1>5 DEF Split
<1>6. ASSUME OpenPublic PROVE TypeOK'
    BY <1>6 DEF OpenPublic
<1>7. ASSUME WritePublic PROVE TypeOK'
    BY <1>7 DEF WritePublic
<1>8. ASSUME OpenSecret PROVE TypeOK'
    BY <1>8 DEF OpenSecret
<1>9. ASSUME WriteSecret PROVE TypeOK'
    BY <1>9 DEF WriteSecret
<1>10. ASSUME WriteFails PROVE TypeOK'
    BY <1>10 DEF WriteFails, Fail, Interrupt, Exposed, Writing
<1>11. ASSUME Started PROVE TypeOK'
    BY <1>11 DEF Started
<1>12. ASSUME Loaded PROVE TypeOK'
    BY <1>12 DEF Loaded
<1>13. ASSUME Saved PROVE TypeOK'
    BY <1>13 DEF Saved
<1>14. ASSUME RestartAfterCheck PROVE TypeOK'
    BY <1>14 DEF RestartAfterCheck
<1>15. ASSUME SavedWithoutClient PROVE TypeOK'
    BY <1>15 DEF SavedWithoutClient
<1>16. ASSUME Load PROVE TypeOK'
    BY <1>16 DEF Load
<1>17. ASSUME ReadForReload PROVE TypeOK'
    BY <1>17 DEF ReadForReload
<1>18. ASSUME AssignReload PROVE TypeOK'
    BY <1>18 DEF AssignReload
<1>19. ASSUME Crash PROVE TypeOK'
    BY <1>19 DEF Crash, Interrupt, Exposed, Writing
<1>20. ASSUME Restart PROVE TypeOK'
    BY <1>20 DEF Restart
<1>21. ASSUME NEW config \in Forms, NEW as \in {"save", "check"}, Save(config, as)
       PROVE  TypeOK'
    BY <1>21 DEF Save
<1>22. ASSUME UNCHANGED vars PROVE TypeOK'
    BY <1>22 DEF vars
<1> QED
    BY <1>1, <1>2, <1>3, <1>4, <1>5, <1>6, <1>7, <1>8, <1>9, <1>10, <1>11, <1>12, <1>13, <1>14, <1>15, <1>16, <1>17, <1>18, <1>19, <1>20, <1>21, <1>22 DEF Next


\* Every step keeps what is known of the public file.
LEMMA PublicStep ==
    ASSUME IInv, [Next]_vars
    PROVE  PublicFacts'
<1> USE ContentsAssumption DEF IInv, TypeOK, Configs, Forms, Normalised, work, files, history, PublicFacts, SecretFacts, Writing
<1>1. ASSUME Create PROVE PublicFacts'
    BY <1>1 DEF Create
<1>2. ASSUME EnsureSecrets PROVE PublicFacts'
    BY <1>2 DEF EnsureSecrets
<1>3. ASSUME ReadRaises PROVE PublicFacts'
    BY <1>3 DEF ReadRaises, Fail
<1>4. ASSUME Migrate PROVE PublicFacts'
    BY <1>4 DEF Migrate
<1>5. ASSUME Split PROVE PublicFacts'
    BY <1>5 DEF Split
<1>6. ASSUME OpenPublic PROVE PublicFacts'
    BY <1>6 DEF OpenPublic
<1>7. ASSUME WritePublic PROVE PublicFacts'
    BY <1>7 DEF WritePublic
<1>8. ASSUME OpenSecret PROVE PublicFacts'
    BY <1>8 DEF OpenSecret
<1>9. ASSUME WriteSecret PROVE PublicFacts'
    BY <1>9 DEF WriteSecret
<1>10. ASSUME WriteFails PROVE PublicFacts'
    BY <1>10 DEF WriteFails, Fail, Interrupt, Exposed, Writing
<1>11. ASSUME Started PROVE PublicFacts'
    BY <1>11 DEF Started
<1>12. ASSUME Loaded PROVE PublicFacts'
    BY <1>12 DEF Loaded
<1>13. ASSUME Saved PROVE PublicFacts'
    BY <1>13 DEF Saved
<1>14. ASSUME RestartAfterCheck PROVE PublicFacts'
    BY <1>14 DEF RestartAfterCheck
<1>15. ASSUME SavedWithoutClient PROVE PublicFacts'
    BY <1>15 DEF SavedWithoutClient
<1>16. ASSUME Load PROVE PublicFacts'
    BY <1>16 DEF Load
<1>17. ASSUME ReadForReload PROVE PublicFacts'
    BY <1>17 DEF ReadForReload
<1>18. ASSUME AssignReload PROVE PublicFacts'
    BY <1>18 DEF AssignReload
<1>19. ASSUME Crash PROVE PublicFacts'
    BY <1>19 DEF Crash, Interrupt, Exposed, Writing
<1>20. ASSUME Restart PROVE PublicFacts'
    BY <1>20 DEF Restart
<1>21. ASSUME NEW config \in Forms, NEW as \in {"save", "check"}, Save(config, as)
       PROVE  PublicFacts'
    BY <1>21 DEF Save
<1>22. ASSUME UNCHANGED vars PROVE PublicFacts'
    BY <1>22 DEF vars
<1> QED
    BY <1>1, <1>2, <1>3, <1>4, <1>5, <1>6, <1>7, <1>8, <1>9, <1>10, <1>11, <1>12, <1>13, <1>14, <1>15, <1>16, <1>17, <1>18, <1>19, <1>20, <1>21, <1>22 DEF Next


\* Every step keeps what is known of the secrets.
LEMMA SecretStep ==
    ASSUME IInv, [Next]_vars
    PROVE  SecretFacts'
<1> USE ContentsAssumption DEF IInv, TypeOK, Configs, Forms, Normalised, work, files, history, PublicFacts, SecretFacts, Writing, Exposed
<1>1. ASSUME Create PROVE SecretFacts'
    BY <1>1 DEF Create
<1>2. ASSUME EnsureSecrets PROVE SecretFacts'
    BY <1>2 DEF EnsureSecrets
<1>3. ASSUME ReadRaises PROVE SecretFacts'
    BY <1>3 DEF ReadRaises, Fail
<1>4. ASSUME Migrate PROVE SecretFacts'
    BY <1>4 DEF Migrate
<1>5. ASSUME Split PROVE SecretFacts'
    BY <1>5 DEF Split
<1>6. ASSUME OpenPublic PROVE SecretFacts'
    BY <1>6 DEF OpenPublic
<1>7. ASSUME WritePublic PROVE SecretFacts'
    BY <1>7 DEF WritePublic
<1>8. ASSUME OpenSecret PROVE SecretFacts'
    BY <1>8 DEF OpenSecret
<1>9. ASSUME WriteSecret PROVE SecretFacts'
    BY <1>9 DEF WriteSecret
<1>10. ASSUME WriteFails PROVE SecretFacts'
    BY <1>10 DEF WriteFails, Fail, Interrupt, Exposed, Writing
<1>11. ASSUME Started PROVE SecretFacts'
    BY <1>11 DEF Started
<1>12. ASSUME Loaded PROVE SecretFacts'
    BY <1>12 DEF Loaded
<1>13. ASSUME Saved PROVE SecretFacts'
    BY <1>13 DEF Saved
<1>14. ASSUME RestartAfterCheck PROVE SecretFacts'
    BY <1>14 DEF RestartAfterCheck
<1>15. ASSUME SavedWithoutClient PROVE SecretFacts'
    BY <1>15 DEF SavedWithoutClient
<1>16. ASSUME Load PROVE SecretFacts'
    BY <1>16 DEF Load
<1>17. ASSUME ReadForReload PROVE SecretFacts'
    BY <1>17 DEF ReadForReload
<1>18. ASSUME AssignReload PROVE SecretFacts'
    BY <1>18 DEF AssignReload
<1>19. ASSUME Crash PROVE SecretFacts'
    BY <1>19 DEF Crash, Interrupt, Exposed, Writing
<1>20. ASSUME Restart PROVE SecretFacts'
    BY <1>20 DEF Restart
<1>21. ASSUME NEW config \in Forms, NEW as \in {"save", "check"}, Save(config, as)
       PROVE  SecretFacts'
    BY <1>21 DEF Save
<1>22. ASSUME UNCHANGED vars PROVE SecretFacts'
    BY <1>22 DEF vars
<1> QED
    BY <1>1, <1>2, <1>3, <1>4, <1>5, <1>6, <1>7, <1>8, <1>9, <1>10, <1>11, <1>12, <1>13, <1>14, <1>15, <1>16, <1>17, <1>18, <1>19, <1>20, <1>21, <1>22 DEF Next


\* Every step keeps what is known of the client.
LEMMA UsedStep ==
    ASSUME IInv, [Next]_vars
    PROVE  UsedFacts'
<1> USE ContentsAssumption DEF IInv, TypeOK, Configs, Forms, Normalised, work, files, history, PublicFacts, UsedFacts, Undisturbed, Writing, Saving
<1>1. ASSUME Create PROVE UsedFacts'
    BY <1>1 DEF Create
<1>2. ASSUME EnsureSecrets PROVE UsedFacts'
    BY <1>2 DEF EnsureSecrets
<1>3. ASSUME ReadRaises PROVE UsedFacts'
    BY <1>3 DEF ReadRaises, Fail
<1>4. ASSUME Migrate PROVE UsedFacts'
    BY <1>4 DEF Migrate
<1>5. ASSUME Split PROVE UsedFacts'
    BY <1>5 DEF Split
<1>6. ASSUME OpenPublic PROVE UsedFacts'
    BY <1>6 DEF OpenPublic
<1>7. ASSUME WritePublic PROVE UsedFacts'
    BY <1>7 DEF WritePublic
<1>8. ASSUME OpenSecret PROVE UsedFacts'
    BY <1>8 DEF OpenSecret
<1>9. ASSUME WriteSecret PROVE UsedFacts'
    BY <1>9 DEF WriteSecret
<1>10. ASSUME WriteFails PROVE UsedFacts'
    BY <1>10 DEF WriteFails, Fail, Interrupt, Exposed, Writing
<1>11. ASSUME Started PROVE UsedFacts'
    BY <1>11 DEF Started
<1>12. ASSUME Loaded PROVE UsedFacts'
    BY <1>12 DEF Loaded
<1>13. ASSUME Saved PROVE UsedFacts'
    BY <1>13 DEF Saved
<1>14. ASSUME RestartAfterCheck PROVE UsedFacts'
    BY <1>14 DEF RestartAfterCheck
<1>15. ASSUME SavedWithoutClient PROVE UsedFacts'
    BY <1>15 DEF SavedWithoutClient
<1>16. ASSUME Load PROVE UsedFacts'
    BY <1>16 DEF Load
<1>17. ASSUME ReadForReload PROVE UsedFacts'
    BY <1>17 DEF ReadForReload
<1>18. ASSUME AssignReload PROVE UsedFacts'
    BY <1>18 DEF AssignReload
<1>19. ASSUME Crash PROVE UsedFacts'
    BY <1>19 DEF Crash, Interrupt, Exposed, Writing
<1>20. ASSUME Restart PROVE UsedFacts'
    BY <1>20 DEF Restart
<1>21. ASSUME NEW config \in Forms, NEW as \in {"save", "check"}, Save(config, as)
       PROVE  UsedFacts'
    BY <1>21 DEF Save
<1>22. ASSUME UNCHANGED vars PROVE UsedFacts'
    BY <1>22 DEF vars
<1> QED
    BY <1>1, <1>2, <1>3, <1>4, <1>5, <1>6, <1>7, <1>8, <1>9, <1>10, <1>11, <1>12, <1>13, <1>14, <1>15, <1>16, <1>17, <1>18, <1>19, <1>20, <1>21, <1>22 DEF Next


-------------------------------------------------------------------------------
\* The inductive invariant holds of every run.
THEOREM Invariance == Spec => []IInv
<1>1. Init => IInv
    BY ContentsAssumption DEF Init, IInv, TypeOK, PublicFacts, SecretFacts, UsedFacts, Undisturbed,
       Configs, Forms, Normalised, Writing, Exposed, Saving
<1>2. IInv /\ [Next]_vars => IInv'
    BY TypingStep, PublicStep, SecretStep, UsedStep DEF IInv
<1> QED
    BY <1>1, <1>2, PTL DEF Spec

\* The state of the files, of the thread and of the client keeps its type.
THEOREM TypeCorrect == Spec => []TypeOK
<1>1. IInv => TypeOK
    BY DEF IInv
<1> QED
    BY <1>1, Invariance, PTL

\* Whatever is saved without the password, however often it is moved, and wherever
\* the process ends: the password that was entered last is in one of the files,
\* but for the one window (save_effective_config, migrate_secrets_from_config).
THEOREM PasswordKept == Spec => []PasswordIsKept
<1>1. IInv => PasswordIsKept
    BY DEF IInv, SecretFacts, PasswordIsKept
<1> QED
    BY <1>1, Invariance, PTL

\* A bridge that serves has no password in its public file
\* (migrate_secrets_from_config, save_effective_config).
THEOREM PublicClean == Spec => []PublicIsClean
<1>1. IInv => PublicIsClean
    BY DEF IInv, PublicFacts, PublicIsClean
<1> QED
    BY <1>1, Invariance, PTL

\* What was saved last is used, unless a reload or an interrupted write came
\* between (save_config, reload_config).
THEOREM SavedUsed == Spec => []UsedIsSaved
<1>1. IInv => UsedIsSaved
    BY DEF IInv, UsedFacts, Undisturbed, Saving, UsedIsSaved
<1> QED
    BY <1>1, Invariance, PTL

\* Only a reload brings settings that were not normalised to the client
\* (load_runtime_config, reload_config).
THEOREM OldAfterReload == Spec => []OldOnlyAfterReload
<1>1. IInv => OldOnlyAfterReload
    BY DEF IInv, UsedFacts, OldOnlyAfterReload
<1> QED
    BY <1>1, Invariance, PTL

===============================================================================

----------------------------- MODULE ConfigStore ------------------------------
(***************************************************************************)
(* The configuration of the bridge: a public file and a file of secrets,   *)
(* and the copy the Emby client works with.                                *)
(*                                                                         *)
(* One thread, that of the web server, loads and saves: a password found   *)
(* in the public file is moved to the other.  A file is written in place:  *)
(* it is torn from the moment it is opened until it is complete, and stays *)
(* so if the process ends, or the write fails, in between.  The thread of  *)
(* a playback that ends reads the public file again whenever it likes.     *)
(***************************************************************************)
CONSTANTS
    Settings,    \* everything but the password
    Old,         \* settings of an older version, with words for truth values
    New,         \* the same settings with truth values
    Passwords,   \* user_password
    None,        \* no password, no settings, or no file
    Torn,        \* the content of a file that is not complete
    Blank        \* a file of secrets without a password

ASSUME ContentsAssumption ==
    /\ None \notin Settings \cup Passwords \cup {Torn, Blank}
    /\ {Torn, Blank} \cap Passwords = {} /\ Torn # Blank
    /\ {Old, New} \subseteq Settings
    /\ {None, Torn} \cap [settings : Settings, password : Passwords \cup {None}] = {}

VARIABLES
    public,      \* config.json
    secret,      \* config.secrets.json
    pc,          \* the next statement of the thread
    job,         \* what it does: "boot", "load", "save" or "check"
    newPublic,   \* public_config of the job
    newSecret,   \* secrets of the job
    form,        \* the configuration of the request
    used,        \* the settings in ws_config, None if no Emby client was started
    reloading,   \* what a reload has read and not yet assigned
    entered,     \* history: the password that was entered last
    lost,        \* history: a write was interrupted where the password is in no file
    interrupted, \* history: a write was interrupted since the process started
    overtaken,   \* history: a save and a reload were under way together since then
    reloaded     \* history: the settings in use are those of a reload

files == <<public, secret>>
work == <<newPublic, newSecret, form>>
history == <<entered, lost, interrupted, overtaken, reloaded>>
vars == <<files, pc, job, work, used, reloading, history>>

Configs == [settings : Settings, password : Passwords \cup {None}]

\* apply_runtime_defaults: the web page, too, has the settings from here.
Normalised(settings) == IF settings = Old THEN New ELSE settings
Forms == [settings : {Normalised(s) : s \in Settings}, password : Passwords \cup {None}]

TypeOK ==
    /\ public \in Configs \cup {None, Torn}
    /\ secret \in Passwords \cup {None, Torn, Blank}
    /\ pc \in {"down", "create", "ensure", "read", "open_public", "write_public",
               "open_secret", "write_secret", "use", "idle"}
    /\ job \in {"boot", "load", "save", "check"}
    /\ newPublic \in Configs
    /\ newSecret \in Passwords \cup {Blank}
    /\ form \in Forms
    /\ {used, reloading} \subseteq Settings \cup {None}
    /\ entered \in Passwords \cup {None}
    /\ {lost, interrupted, overtaken, reloaded} \subseteq BOOLEAN

Init ==
    /\ public \in Configs \cup {None}
    /\ secret \in {None, Blank}
    /\ pc = "create"
    /\ job = "boot"
    /\ form \in Forms
    /\ newPublic = form
    /\ newSecret = Blank
    /\ used = None
    /\ reloading = None
    /\ entered = IF public = None THEN None ELSE public.password
    /\ lost = FALSE
    /\ interrupted = FALSE
    /\ overtaken = FALSE
    /\ reloaded = FALSE

-------------------------------------------------------------------------------
(***************************************************************************)
(* The files.                                                              *)
(***************************************************************************)

Writing == pc \in {"open_public", "write_public", "open_secret", "write_secret"}

\* ensure_config_exists copies an older configuration or the example; the copy
\* is made before anything else runs, and is taken as one step.
Create ==
    /\ pc = "create"
    /\ IF public = None
       THEN /\ public' \in Configs
            /\ entered' = IF public'.password # None THEN public'.password ELSE entered
       ELSE UNCHANGED <<public, entered>>
    /\ pc' = "ensure"
    /\ UNCHANGED <<secret, job, work, used, reloading, lost, interrupted, overtaken, reloaded>>

EnsureSecrets ==
    /\ pc = "ensure"
    /\ secret' = IF secret = None THEN Blank ELSE secret
    /\ pc' = "read"
    /\ UNCHANGED <<public, job, work, used, reloading, history>>

\* A torn file cannot be parsed: the request fails, and at the start the process
\* ends.
Fail == pc' = IF job = "boot" THEN "down" ELSE "idle"

ReadRaises ==
    /\ pc = "read"
    /\ secret = Torn \/ (job \in {"boot", "load"} /\ public = Torn)
    /\ Fail
    /\ UNCHANGED <<files, job, work, used, reloading, history>>

\* migrate_secrets_from_config: a password in the public file is moved.
Migrate ==
    /\ pc = "read"
    /\ job \in {"boot", "load"}
    /\ Torn \notin {public, secret}
    /\ IF public.password # None
       THEN /\ newPublic' = [public EXCEPT !.password = None]
            /\ newSecret' = public.password
            /\ pc' = "open_public"
       ELSE pc' = "use" /\ UNCHANGED <<newPublic, newSecret>>
    /\ UNCHANGED <<files, job, form, used, reloading, history>>

\* Mutant: a form without a password takes away the one there is.
SplitForgetting ==
    /\ pc = "read"
    /\ job \in {"save", "check"}
    /\ secret # Torn
    /\ newPublic' = [form EXCEPT !.password = None]
    /\ newSecret' = IF form.password # None THEN form.password ELSE Blank
    /\ pc' = "open_public"
    /\ UNCHANGED <<files, job, form, used, reloading, history>>

\* Mutant: the password is left in the public file.
SplitKeeping ==
    /\ pc = "read"
    /\ job \in {"save", "check"}
    /\ secret # Torn
    /\ newPublic' = form
    /\ newSecret' = IF form.password # None THEN form.password ELSE secret
    /\ pc' = "open_public"
    /\ UNCHANGED <<files, job, form, used, reloading, history>>

\* save_effective_config: a form without a password keeps the one there is.
Split ==
    /\ pc = "read"
    /\ job \in {"save", "check"}
    /\ secret # Torn
    /\ newPublic' = [form EXCEPT !.password = None]
    /\ newSecret' = IF form.password # None THEN form.password ELSE secret
    /\ pc' = "open_public"
    /\ UNCHANGED <<files, job, form, used, reloading, history>>

OpenPublic ==
    /\ pc = "open_public"
    /\ public' = Torn
    /\ pc' = "write_public"
    /\ UNCHANGED <<secret, job, work, used, reloading, history>>

WritePublic ==
    /\ pc = "write_public"
    /\ public' = newPublic
    /\ pc' = "open_secret"
    /\ UNCHANGED <<secret, job, work, used, reloading, history>>

OpenSecret ==
    /\ pc = "open_secret"
    /\ secret' = Torn
    /\ pc' = "write_secret"
    /\ UNCHANGED <<public, job, work, used, reloading, history>>

WriteSecret ==
    /\ pc = "write_secret"
    /\ secret' = newSecret
    /\ entered' = IF newSecret # Blank THEN newSecret ELSE entered
    /\ pc' = "use"
    /\ UNCHANGED <<public, job, work, used, reloading, lost, interrupted, overtaken, reloaded>>

\* The password is on no disk from the moment its only file is opened until the
\* secrets are complete.
Exposed ==
    \/ pc = "write_secret"
    \/ job \in {"boot", "load"} /\ pc \in {"write_public", "open_secret"}

Interrupt ==
    /\ lost' = (lost \/ Exposed)
    /\ interrupted' = (interrupted \/ Writing)

WriteFails ==
    /\ Writing
    /\ Interrupt
    /\ Fail
    /\ UNCHANGED <<files, job, work, used, reloading, entered, overtaken, reloaded>>

-------------------------------------------------------------------------------
(***************************************************************************)
(* What the configuration is used for.                                     *)
(***************************************************************************)

\* Mutant: the settings are taken as they are in the file.
StartedAsIs ==
    /\ pc = "use"
    /\ job = "boot"
    /\ used' \in IF secret # Blank THEN {public.settings, None} ELSE {None}
    /\ pc' = "idle"
    /\ UNCHANGED <<files, job, work, reloading, history>>

\* The Emby client is started with a complete configuration only: one with a
\* password, and with a server and a user among the settings.
Started ==
    /\ pc = "use"
    /\ job = "boot"
    /\ used' \in IF secret # Blank THEN {Normalised(public.settings), None} ELSE {None}
    /\ pc' = "idle"
    /\ UNCHANGED <<files, job, work, reloading, history>>

Loaded ==
    /\ pc = "use"
    /\ job = "load"
    /\ pc' = "idle"
    /\ UNCHANGED <<files, job, work, used, reloading, history>>

\* Mutant: a save is left to the next reload.
SavedUnused ==
    /\ pc = "use"
    /\ job = "save"
    /\ used # None
    /\ pc' = "idle"
    /\ UNCHANGED <<files, job, work, used, reloading, history>>

\* save_config hands the configuration to the client.
Saved ==
    /\ pc = "use"
    /\ job = "save"
    /\ used # None
    /\ used' = form.settings
    /\ reloaded' = FALSE
    /\ pc' = "idle"
    /\ UNCHANGED <<files, job, work, reloading, entered, lost, interrupted, overtaken>>

\* After a check of a client without a session the process restarts.
RestartAfterCheck ==
    /\ pc = "use"
    /\ job = "check"
    /\ used # None
    /\ pc' = "down"
    /\ used' = None
    /\ reloading' = None
    /\ UNCHANGED <<files, job, work, history>>

\* If no client was started save_config raises, and the restart that would follow
\* a check is not reached.
SavedWithoutClient ==
    /\ pc = "use"
    /\ job \in {"save", "check"}
    /\ used = None
    /\ pc' = "idle"
    /\ UNCHANGED <<files, job, work, used, reloading, history>>

Load ==
    /\ pc = "idle"
    /\ job' = "load"
    /\ pc' = "ensure"
    /\ UNCHANGED <<files, work, used, reloading, history>>

\* A check saves only what could log in at Emby.
Save(config, as) ==
    /\ pc = "idle"
    /\ as = "check" => config.password # None \/ secret \in Passwords
    /\ form' = config
    /\ job' = as
    /\ overtaken' = (overtaken \/ reloading # None)
    /\ pc' = "ensure"
    /\ UNCHANGED <<files, newPublic, newSecret, used, reloading, entered, lost, interrupted, reloaded>>

\* reload_config, in the thread of a playback; of a torn file it raises.  It has
\* defaults of its own and normalises nothing, and finds no password in this file.
ReadForReload ==
    /\ used # None
    /\ reloading = None
    /\ public \in Configs
    /\ reloading' = public.settings
    /\ overtaken' = (overtaken \/ (job \in {"save", "check"} /\ pc # "idle"))
    /\ UNCHANGED <<files, pc, job, work, used, entered, lost, interrupted, reloaded>>

AssignReload ==
    /\ reloading # None
    /\ used' = reloading
    /\ reloading' = None
    /\ reloaded' = TRUE
    /\ UNCHANGED <<files, pc, job, work, entered, lost, interrupted, overtaken>>

-------------------------------------------------------------------------------
(***************************************************************************)
(* The process.                                                            *)
(***************************************************************************)

Crash ==
    /\ pc # "down"
    /\ Interrupt
    /\ pc' = "down"
    /\ used' = None
    /\ reloading' = None
    /\ UNCHANGED <<files, job, work, entered, overtaken, reloaded>>

Restart ==
    /\ pc = "down"
    /\ job' = "boot"
    /\ pc' = "create"
    /\ interrupted' = FALSE
    /\ overtaken' = FALSE
    /\ reloaded' = FALSE
    /\ UNCHANGED <<files, work, used, reloading, entered, lost>>

Next ==
    \/ Create \/ EnsureSecrets \/ ReadRaises \/ Migrate \/ Split
    \/ OpenPublic \/ WritePublic \/ OpenSecret \/ WriteSecret \/ WriteFails
    \/ Started \/ Loaded \/ Saved \/ RestartAfterCheck \/ SavedWithoutClient
    \/ Load
    \/ \E config \in Forms, as \in {"save", "check"} : Save(config, as)
    \/ ReadForReload \/ AssignReload
    \/ Crash \/ Restart

Spec == Init /\ [][Next]_vars

-------------------------------------------------------------------------------
\* The password that was entered last is in one of the files, whatever was saved
\* without one and however often it was moved, unless a write was interrupted
\* between opening its only file and completing the secrets: there is no other
\* window (save_effective_config, migrate_secrets_from_config).
PasswordIsKept ==
    ~lost /\ ~Exposed /\ entered # None
        => secret = entered \/ (public \in Configs /\ public.password = entered)

\* Once the bridge serves, the public file holds no password, also after crashes
\* and failures in between (migrate_secrets_from_config, save_effective_config).
PublicIsClean == pc = "idle" /\ public \in Configs => public.password = None

\* The client works with what was saved last, unless a reload and a save were
\* under way together, or a write was interrupted (save_config, reload_config).
UsedIsSaved ==
    pc = "idle" /\ used # None /\ reloading = None /\ ~overtaken /\ ~interrupted
        => used = IF reloaded THEN public.settings ELSE Normalised(public.settings)

\* The client works with settings of an older version, whose words no condition of
\* the code understands, only after a reload: at the start, and when they are saved,
\* they are normalised (load_runtime_config, reload_config).
OldOnlyAfterReload == used # None /\ used # Normalised(used) => reloaded

-------------------------------------------------------------------------------
(***************************************************************************)
(* The inductive invariant, from which module ConfigStore_proofs derives   *)
(* the invariants above.                                                   *)
(***************************************************************************)
Saving == job \in {"save", "check"} /\ pc \notin {"idle", "down", "create"}

\* A password in the public file is the one that was entered last, and only a
\* process that has just started finds one there.
PublicFacts ==
    /\ pc = "create" => job = "boot"
    /\ public \in Configs => public.password \in {None, entered}
    /\ pc \in {"use", "idle"} \/ (job # "boot" /\ pc \notin {"down", "create"})
           => (public \in Configs => public.password = None)
    /\ pc \in {"open_secret", "write_secret"} => public \in Configs /\ public.password = None
    /\ pc = "write_public" => public = Torn
    /\ Writing => job # "load" /\ newPublic.password = None
    /\ pc = "use" /\ job = "boot" => public \in Configs
    /\ pc \notin {"down", "create"} => public # None

\* What the secrets are about to become, and where the password is meanwhile.
SecretFacts ==
    /\ pc = "write_secret" => secret = Torn
    /\ pc \notin {"down", "create", "ensure"} => secret # None
    /\ Writing /\ job = "boot" => newSecret = entered /\ entered # None
    /\ Writing /\ job # "boot" /\ newSecret = Blank => lost \/ entered = None
    /\ ~lost /\ ~Exposed /\ entered # None
           => secret = entered \/ (public \in Configs /\ public.password = entered)

\* The public file is not being saved, nor has anything come between.
Undisturbed ==
    /\ used # None /\ ~overtaken /\ ~interrupted
    /\ ~(Saving /\ pc \in {"write_public", "open_secret", "write_secret", "use"})

\* What the client works with comes from the public file, or is about to be in it.
UsedFacts ==
    /\ used # None => pc \notin {"down", "create"} /\ (job = "boot" => pc = "idle")
    /\ reloading # None => used # None
    /\ job = "boot" /\ pc \notin {"idle", "down"} => ~reloaded
    /\ used # None /\ used # Normalised(used) => reloaded
    /\ ~overtaken /\ Saving => reloading = None
    /\ Writing /\ job # "boot" => newPublic.settings = form.settings
    /\ pc \in {"open_secret", "write_secret", "use"} /\ job \in {"save", "check"}
           => public \in Configs /\ public.settings = form.settings
    /\ Undisturbed =>
           /\ public \in Configs
           /\ reloading \in {None, public.settings}
           /\ reloading = None =>
                  used = IF reloaded THEN public.settings ELSE Normalised(public.settings)

IInv == TypeOK /\ PublicFacts /\ SecretFacts /\ UsedFacts

===============================================================================

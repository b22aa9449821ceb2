------------------------------ MODULE ConfigFile ------------------------------
(***************************************************************************)
(* nanoclaw.json with its ring of backups, and the token of a channel that *)
(* lives in .env: what loadConfig and saveConfig do to them.               *)
(*                                                                         *)
(* A process loads the file, perhaps changes something, and saves it: the  *)
(* daemon on a slash command or an agent's request, or the command line.   *)
(* Callers do so without an await, so two of one process do not mix; that  *)
(* two processes do not is assumed (nothing in the code prevents it).  The *)
(* process may be killed between any two calls of the file system.         *)
(*                                                                         *)
(* From its truncation to the end of the writing a file is Torn:           *)
(* JSON.parse throws on it.                                                *)
(***************************************************************************)
EXTENDS Naturals, FiniteSets

CONSTANTS
  Edits,       \* changes of the configuration, each made once
  Ring,        \* entries of the ring of backups: .bak, .bak.1, ...
  MaxTokens,   \* bound: tokens a user gives the channel
  MaxCrashes,  \* bound: processes that are killed
  Torn, None   \* a file that does not parse, a backup that is not there

ASSUME ConfigAssumption ==
  /\ {Ring, MaxTokens, MaxCrashes} \subseteq Nat
  /\ MaxCrashes < Ring
  /\ Torn # None
  /\ \A x \in {Torn, None} : x \notin [edits : SUBSET Edits, old : BOOLEAN, token : 0..MaxTokens]
  /\ Edits \cap {"read", "token"} = {}

VARIABLES
  file,      \* nanoclaw.json
  ring,      \* its backups, the latest first
  env,       \* the token in .env, 0: no line for it
  proc,      \* the process at the file: its place, what it has loaded and what
             \* for, and which of its saves it is in
  crashes,
  acked,     \* ghost: edits whose save has returned
  given,     \* ghost: the last token a user gave, and whether he put it where a
             \* load finds it or can secure it
  unbacked   \* ghost: a migration's own write was cut off

vars == <<file, ring, env, proc, crashes, acked, given, unbacked>>

\* What a whole file says.  Its token is one in clear, or 0: nothing, or the
\* reference ${TELEGRAM_BOT_TOKEN}.  A reference resolves to the token in .env;
\* so does nothing, because loadConfig fills it in.
Content == [edits : SUBSET Edits, old : BOOLEAN, token : 0..MaxTokens]
Jobs == Edits \cup {"read", "token"}

Process == [at : {"idle", "restore", "secure", "migrate", "migrating", "edit", "backup",
                  "write", "writing"},
           mem : Content, job : Jobs, saves : {"secrets", "job"}]

First == [edits |-> {}, old |-> TRUE, token |-> 0]
Idle == [at |-> "idle", mem |-> First, job |-> "read", saves |-> "job"]

TypeOK ==
  /\ file \in Content \cup {Torn} /\ ring \in [1..Ring -> Content \cup {Torn, None}]
  /\ env \in 0..MaxTokens /\ proc \in Process /\ crashes \in 0..MaxCrashes
  /\ acked \subseteq Edits /\ given \in [n : 0..MaxTokens, safe : BOOLEAN]
  /\ unbacked \in BOOLEAN

\* A workspace in use: an older version has saved its file, over an earlier one.
Init ==
  /\ file = First /\ ring = [k \in 1..Ring |-> IF k = 1 THEN First ELSE None]
  /\ env = 0 /\ proc = Idle /\ crashes = 0
  /\ acked = {} /\ given = [n |-> 0, safe |-> TRUE]
  /\ unbacked = FALSE

Whole(f) == f \notin {Torn, None}

\* recoverFromBackup takes the latest backup that parses.
Recoverable == {k \in 1..Ring : Whole(ring[k])}
Oldest == CHOOSE k \in Recoverable : \A j \in Recoverable : k >= j   \* mutant of the next
Latest == CHOOSE k \in Recoverable : \A j \in Recoverable : k <= j

Found == IF Whole(file) THEN file ELSE ring[Latest]

Resolved(c) == IF c.token # 0 THEN c.token ELSE env
Resting == proc.at = "idle"

-----------------------------------------------------------------------------
\* loadConfig.  A file that does not parse is recovered, and then neither secured
\* nor written in its new version; without a backup the process exits.
AfterLoad(c) == IF c.token # 0 /\ env = 0 THEN "secure" ELSE IF c.old THEN "migrate" ELSE "edit"

LoadConfig(job) ==
  /\ Resting /\ (Whole(file) \/ Recoverable # {})
  /\ job \notin acked /\ (job = "token" => given.n < MaxTokens)
  /\ proc' = [at |-> IF Whole(file) THEN AfterLoad(file) ELSE "restore",
              mem |-> Found, job |-> job,
              saves |-> IF Whole(file) /\ AfterLoad(file) = "secure" THEN "secrets" ELSE "job"]
  /\ UNCHANGED <<file, ring, env, crashes, acked, given, unbacked>>

\* The backup is copied over the file; what was read of it is migrated in memory.
RecoverFromBackup ==
  /\ proc.at = "restore"
  /\ file' = proc.mem
  /\ proc' = [proc EXCEPT !.at = "edit", !.mem.old = FALSE]
  /\ UNCHANGED <<ring, env, crashes, acked, given, unbacked>>

\* The token is appended to .env; then the file is saved without it.
MigrateSecretsToEnv ==
  /\ proc.at = "secure"
  /\ env' = proc.mem.token
  /\ proc' = [proc EXCEPT !.at = "backup"]
  /\ UNCHANGED <<file, ring, crashes, acked, given, unbacked>>

\* A migrated configuration is written as it was read, token and all, and
\* without a backup.
MigrateConfig ==
  /\ proc.at = "migrate"
  /\ file' = Torn
  /\ proc' = [proc EXCEPT !.at = "migrating"]
  /\ UNCHANGED <<ring, env, crashes, acked, given, unbacked>>

Migrated ==
  /\ proc.at = "migrating"
  /\ file' = [proc.mem EXCEPT !.old = FALSE]
  /\ proc' = [proc EXCEPT !.at = "edit", !.mem.old = FALSE]
  /\ UNCHANGED <<ring, env, crashes, acked, given, unbacked>>

\* The caller has its configuration, and changes and saves it or not.
Edit ==
  /\ proc.at = "edit"
  /\ proc' = IF proc.job = "read" THEN Idle
             ELSE [proc EXCEPT !.at = "backup", !.saves = "job",
                               !.mem.edits = @ \cup ({proc.job} \cap Edits),
                               !.mem.token = IF proc.job = "token" THEN given.n + 1 ELSE @]
  /\ UNCHANGED <<file, ring, env, crashes, acked, given, unbacked>>

-----------------------------------------------------------------------------
\* rotateConfigBackups, and x as the latest entry.
Rotated(x) == [k \in 1..Ring |-> IF k = 1 THEN x ELSE ring[k - 1]]

\* It unlinks the last entry and renames the others, the last first: what is there
\* once the entries from k on have made room.
MovedFrom(k) == [j \in 1..Ring |-> CASE j < k -> ring[j] [] j = k -> None [] j > k -> ring[j - 1]]

BackupConfig ==
  /\ proc.at = "backup"
  /\ ring' = Rotated(file)
  /\ proc' = [proc EXCEPT !.at = "write"]
  /\ UNCHANGED <<file, env, crashes, acked, given, unbacked>>

\* The rest of saveConfig: the file is truncated, then written with references
\* in the place of tokens.
Truncate ==
  /\ proc.at = "write"
  /\ file' = Torn
  /\ proc' = [proc EXCEPT !.at = "writing"]
  /\ UNCHANGED <<ring, env, crashes, acked, given, unbacked>>

Stripped(c) == [c EXCEPT !.token = 0]

SaveConfig ==
  /\ proc.at = "writing"
  /\ file' = Stripped(proc.mem)
  /\ IF proc.saves = "secrets"
     THEN /\ proc' = [proc EXCEPT !.at = IF proc.mem.old THEN "migrate" ELSE "edit"]
          /\ UNCHANGED <<acked, given>>
     ELSE /\ proc' = Idle
          /\ acked' = acked \cup ({proc.job} \cap Edits)
          /\ given' = IF proc.job = "token" THEN [n |-> given.n + 1, safe |-> FALSE] ELSE given
  /\ UNCHANGED <<ring, env, crashes, unbacked>>

\* The process is killed.  A file it was writing stays torn; a rotation may be
\* done in part, or the copy torn.
Crash ==
  /\ ~Resting /\ crashes < MaxCrashes
  /\ crashes' = crashes + 1
  /\ proc' = Idle
  /\ IF proc.at = "backup" THEN ring' \in {ring, Rotated(Torn)} \cup {MovedFrom(k) : k \in 1..Ring}
     ELSE UNCHANGED ring
  /\ unbacked' = (unbacked \/ proc.at = "migrating")
  /\ UNCHANGED <<file, env, acked, given>>

\* A user writes a token into the file, or into .env.
GiveInFile ==
  /\ Resting /\ Whole(file) /\ given.n < MaxTokens
  /\ file' = [file EXCEPT !.token = given.n + 1]
  /\ given' = [n |-> given.n + 1, safe |-> env = 0]
  /\ UNCHANGED <<ring, env, proc, crashes, acked, unbacked>>

GiveInEnv ==
  /\ Resting /\ Whole(file) /\ file.token = 0 /\ given.n < MaxTokens
  /\ env' = given.n + 1
  /\ given' = [n |-> given.n + 1, safe |-> TRUE]
  /\ UNCHANGED <<file, ring, proc, crashes, acked, unbacked>>

Next ==
  \/ \E job \in Jobs : LoadConfig(job)
  \/ RecoverFromBackup \/ MigrateSecretsToEnv \/ MigrateConfig \/ Migrated
  \/ Edit \/ BackupConfig \/ Truncate \/ SaveConfig
  \/ Crash \/ GiveInFile \/ GiveInEnv

Spec == Init /\ [][Next]_vars

-----------------------------------------------------------------------------
\* Wherever the process at the file is killed, a load does not give up (the
\* process.exit in loadConfig), and what it finds has every edit whose save has
\* returned and the token the user gave where a load sees to it.  The exception
\* is a migration's own write: it has no backup, and a crash within it goes back
\* to the save before.
NothingLost ==
  /\ Whole(file) \/ Recoverable # {}
  /\ unbacked \/ proc.at = "migrating" \/
       /\ acked \subseteq Found.edits
       /\ given.safe => Resolved(Found) = given.n

\* "Strip secrets before saving - they stay in .env" (src/config-loader.ts:1266):
\* when nobody is at the file, a load resolves the token the user gave last.
TokenKept == Resting /\ Whole(file) => Resolved(file) = given.n
=============================================================================

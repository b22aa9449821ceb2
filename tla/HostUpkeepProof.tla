--------------------------- MODULE HostUpkeepProof ---------------------------
(***************************************************************************)
(* What the daemon and the command line keep outside of the daemon's       *)
(* memory, proved of the three parts that TLC checks together.             *)
(*                                                                         *)
(* ConfigFile, for every number of edits, tokens and backups, as long as   *)
(* the backups outnumber the processes that are killed:                    *)
(*                                                                         *)
(*   - the type invariant;                                                 *)
(*   - NothingLost: a load finds a configuration, and in it every edit     *)
(*     that was saved and the token the user gave.                         *)
(*                                                                         *)
(* NothingLost speaks of what a load would find now.  It is kept by what   *)
(* the process at the file has loaded (it will be written over the file),  *)
(* by the first backup while the file is cut off, and by .env, which must  *)
(* hold the token by the time the file is written without it.              *)
(*                                                                         *)
(* AgentPids, for any set of agents and any number of starts:              *)
(*                                                                         *)
(*   - StopLeavesNone: nanoclaw stop leaves no agent.                      *)
(*                                                                         *)
(* McpTokens, for any number of servers, tokens and changes:               *)
(*                                                                         *)
(*   - OwnerAsked: an owner's run goes without a token only after asking;  *)
(*   - NeverOlder: no save brings back an older token;                     *)
(*   - HeadersCurrent: an idle agent that gets a message has the tokens of *)
(*     the cache.                                                          *)
(***************************************************************************)
EXTENDS MCHostUpkeep, TLAPS, WellFoundedInduction

(***************************************************************************)
(* ConfigFile: the inductive invariant                                     *)
(***************************************************************************)

\* What a configuration must say for nothing to be lost.
Good(c) == acked \subseteq c.edits /\ (given.safe => Resolved(c) = given.n)

\* Some backup parses: every crash moves it back by one place at most.
InReach == \E k \in 1..Ring : k <= crashes + 1 /\ Whole(ring[k])

\* Where the file may be cut off, and what the process at it is about to do.
Placed ==
  /\ ~Whole(file) => proc.at \in {"idle", "restore", "migrating", "writing"}
  /\ proc.at = "secure" => proc.saves = "secrets" /\ env = 0 /\ proc.mem.token # 0
  /\ proc.at \in {"backup", "write", "writing"} /\ proc.saves = "job" =>
       {proc.job} \cap Edits \subseteq proc.mem.edits
  /\ proc.at # "idle" /\ proc.job = "token" => given.n < MaxTokens

\* As long as .env has no token, none is in clear in what is or will be saved.
Clear ==
  env = 0 =>
    /\ \A k \in 1..Ring : Whole(ring[k]) => ring[k].token = 0
    /\ proc.at \notin {"idle", "secure"} =>
         /\ Whole(file) => file.token = 0
         /\ proc.saves = "secrets" \/ proc.at \in {"restore", "migrate", "migrating", "edit"} =>
              proc.mem.token = 0

\* Each copy that will be found, or written, has everything.
Accurate ==
  /\ given.safe => env \in {0, given.n}
  /\ Whole(file) => Good(file)
  /\ ~Whole(file) /\ proc.at \in {"idle", "restore"} => Good(ring[Latest])
  /\ proc.at \in {"write", "writing"} => Whole(ring[1]) /\ Good(ring[1])
  /\ proc.at \in {"restore", "secure", "migrate", "migrating", "edit"} => Good(proc.mem)
  /\ proc.at \in {"backup", "write", "writing"} =>
       /\ acked \subseteq proc.mem.edits
       /\ given.safe => env = given.n
       /\ proc.saves = "secrets" => Good(proc.mem)

IInv == TypeOK /\ InReach /\ Placed /\ Clear /\ (unbacked \/ Accurate)
-----------------------------------------------------------------------------
(***************************************************************************)
(* What does not parse, and the latest backup                              *)
(***************************************************************************)

\* A file or backup that parses says something, and what says something parses.
LEMMA WholeIsContent ==
  \A f \in Content \cup {Torn, None} : Whole(f) <=> f \in Content
  BY ConfigAssumption DEF Whole, Content

\* A set of places that is not empty has a first one.
LEMMA HasLeast ==
  ASSUME NEW S \in SUBSET Nat, S # {}
  PROVE  \E k \in S : \A j \in S : k <= j
<1> DEFINE R == OpToRel(<, Nat)
<1>1. IsWellFoundedOn(R, Nat)
  BY NatLessThanWellFounded
<1>2. ASSUME NEW x \in Nat, NEW y \in Nat, y < x
      PROVE  <<y, x>> \in R
  BY <1>2 DEF OpToRel
<1> HIDE DEF R
<1>3. PICK x \in S : \A y \in S : ~(<<y, x>> \in R)
  BY <1>1, WFMin
<1>4. ASSUME NEW y \in S
      PROVE  x <= y
  <2>1. CASE y < x
    BY <2>1, <1>2, <1>3
  <2>2. CASE ~(y < x)
    BY <2>2
  <2> QED BY <2>1, <2>2
<1> QED BY <1>4

\* If a backup parses, the latest one is one that does.
LEMMA LatestParses ==
  ASSUME Recoverable # {}
  PROVE  Latest \in Recoverable
<1>1. Recoverable \in SUBSET Nat
  BY ConfigAssumption DEF Recoverable
<1>2. \E k \in Recoverable : \A j \in Recoverable : k <= j
  BY <1>1, HasLeast
<1> QED BY <1>2 DEF Latest

\* If the first backup parses, it is the latest.
LEMMA LatestIsFirst ==
  ASSUME Whole(ring[1])
  PROVE  Latest = 1
<1>1. 1 \in Recoverable /\ \A j \in Recoverable : j \in Nat /\ 1 <= j
  BY ConfigAssumption DEF Recoverable
<1>2. \A k \in Recoverable : (\A j \in Recoverable : k <= j) => k = 1
  BY <1>1
<1> QED BY <1>1, <1>2 DEF Latest

\* A load finds a configuration, and of what a backup says it is a good one.
LEMMA FoundIsContent ==
  ASSUME TypeOK, InReach
  PROVE  Recoverable # {} /\ ring[Latest] \in Content /\ Found \in Content
<1>1. Recoverable # {}
  BY DEF InReach, Recoverable
<1>2. Latest \in 1..Ring /\ Whole(ring[Latest])
  BY <1>1, LatestParses DEF Recoverable
<1>3. ring[Latest] \in Content
  BY <1>2, WholeIsContent DEF TypeOK
<1> QED BY <1>1, <1>3, WholeIsContent DEF Found, TypeOK
\* The fields of a configuration, and of those made from it.
LEMMA ContentFields ==
  ASSUME NEW c \in Content
  PROVE  /\ c.edits \in SUBSET Edits /\ c.old \in BOOLEAN /\ c.token \in 0..MaxTokens
         /\ Whole(c)
  BY WholeIsContent DEF Content

LEMMA MigratedContent ==
  ASSUME NEW c \in Content, NEW d, d = [c EXCEPT !.old = FALSE]
  PROVE  d \in Content /\ d.edits = c.edits /\ d.token = c.token /\ Whole(d)
<1>1. d \in Content /\ d.edits = c.edits /\ d.token = c.token
  BY DEF Content
<1> QED BY <1>1, WholeIsContent

LEMMA StrippedContent ==
  ASSUME NEW c \in Content
  PROVE  /\ Stripped(c) \in Content /\ Stripped(c).edits = c.edits /\ Stripped(c).token = 0
         /\ Whole(Stripped(c))
<1>1. Stripped(c) \in Content /\ Stripped(c).edits = c.edits /\ Stripped(c).token = 0
  BY ConfigAssumption DEF Content, Stripped
<1> QED BY <1>1, WholeIsContent

LEMMA TokenContent ==
  ASSUME NEW c \in Content, NEW t \in 0..MaxTokens, NEW d, d = [c EXCEPT !.token = t]
  PROVE  d \in Content /\ d.edits = c.edits /\ d.token = t /\ Whole(d)
<1>1. d \in Content /\ d.edits = c.edits /\ d.token = t
  BY DEF Content
<1> QED BY <1>1, WholeIsContent

LEMMA EditedContent ==
  ASSUME NEW c \in Content, NEW e \in SUBSET Edits, NEW t \in 0..MaxTokens,
         NEW d, d = [c EXCEPT !.edits = e, !.token = t]
  PROVE  d \in Content /\ d.edits = e /\ d.token = t
  BY DEF Content

\* A process that has gone.
LEMMA IdleProcess == Idle \in Process /\ Idle.at = "idle" /\ Idle.saves = "job"
  BY ConfigAssumption DEF Idle, First, Process, Content, Jobs

\* A rotation moves every backup back by one.
LEMMA RotatedBackups ==
  ASSUME TypeOK, NEW x \in Content \cup {Torn, None}
  PROVE  /\ Rotated(x) \in [1..Ring -> Content \cup {Torn, None}]
         /\ Rotated(x)[1] = x
         /\ \A k \in 1..Ring : k + 1 \in 1..Ring => Rotated(x)[k + 1] = ring[k]
         /\ \A k \in 1..Ring : \/ Rotated(x)[k] = x
                               \/ \E j \in 1..Ring : Rotated(x)[k] = ring[j]
<1>1. Ring \in Nat /\ 1 \in 1..Ring
  BY ConfigAssumption
<1>2. \A k \in 1..Ring : k # 1 => k - 1 \in 1..Ring
  BY <1>1
<1>3. \A k \in 1..Ring : Rotated(x)[k] = IF k = 1 THEN x ELSE ring[k - 1]
  BY DEF Rotated
<1>4. \A k \in 1..Ring : \/ Rotated(x)[k] = x
                        \/ \E j \in 1..Ring : Rotated(x)[k] = ring[j]
  BY <1>2, <1>3
<1>5. \A k \in 1..Ring : (IF k = 1 THEN x ELSE ring[k - 1]) \in Content \cup {Torn, None}
  BY <1>2 DEF TypeOK
<1>6. Rotated(x) \in [1..Ring -> Content \cup {Torn, None}]
  BY <1>5 DEF Rotated
<1>7. \A k \in 1..Ring : k + 1 \in 1..Ring => Rotated(x)[k + 1] = ring[k]
  BY <1>1, <1>3
<1> QED BY <1>1, <1>3, <1>4, <1>6, <1>7

LEMMA MovedBackups ==
  ASSUME TypeOK, NEW k \in 1..Ring
  PROVE  /\ MovedFrom(k) \in [1..Ring -> Content \cup {Torn, None}]
         /\ \A j \in 1..Ring : j + 1 \in 1..Ring =>
              ring[j] \in {MovedFrom(k)[j], MovedFrom(k)[j + 1]}
         /\ \A j \in 1..Ring : \/ MovedFrom(k)[j] = None
                               \/ \E i \in 1..Ring : MovedFrom(k)[j] = ring[i]
<1>1. Ring \in Nat /\ k \in Nat
  BY ConfigAssumption
<1>2. \A j \in 1..Ring : j # 1 => j - 1 \in 1..Ring
  BY <1>1
<1> DEFINE moved(j) == CASE j < k -> ring[j] [] j = k -> None [] j > k -> ring[j - 1]
<1>3. \A j \in 1..Ring :
        /\ j < k => moved(j) = ring[j]
        /\ j = k => moved(j) = None
        /\ j > k => moved(j) = ring[j - 1] /\ j - 1 \in 1..Ring
  BY <1>1, <1>2
<1>4. MovedFrom(k) = [j \in 1..Ring |-> moved(j)]
  BY DEF MovedFrom
<1> HIDE DEF moved
<1>5. \A j \in 1..Ring : \/ moved(j) = None
                        \/ \E i \in 1..Ring : moved(j) = ring[i]
  <2> TAKE j \in 1..Ring
  <2>1. j < k \/ j = k \/ j > k
    BY <1>1
  <2> QED BY <2>1, <1>3
<1>6. \A j \in 1..Ring : moved(j) \in Content \cup {Torn, None}
  BY <1>5 DEF TypeOK
<1>7. MovedFrom(k) \in [1..Ring -> Content \cup {Torn, None}]
  BY <1>4, <1>6
<1>8. \A j \in 1..Ring : j + 1 \in 1..Ring => ring[j] \in {moved(j), moved(j + 1)}
  <2> SUFFICES ASSUME NEW j \in 1..Ring, j + 1 \in 1..Ring
               PROVE  ring[j] \in {moved(j), moved(j + 1)}
    OBVIOUS
  <2>1. j < k \/ (j + 1 > k /\ (j + 1) - 1 = j)
    BY <1>1
  <2> QED BY <2>1, <1>3
<1> QED BY <1>4, <1>5, <1>7, <1>8

\* The latest backup changes with the backups only.
LEMMA LatestStays ==
  ASSUME UNCHANGED ring
  PROVE  Latest' = Latest /\ Recoverable' = Recoverable
  BY DEF Latest, Recoverable, Whole

-----------------------------------------------------------------------------
(***************************************************************************)
(* The induction: what each action keeps                                   *)
(***************************************************************************)

\* LoadConfig: what is loaded is what a load finds.
LEMMA StepLoadConfig ==
  ASSUME IInv, NEW job \in Jobs, LoadConfig(job)
  PROVE  IInv'
<1> ring[Latest] \in Content /\ Found \in Content /\ Latest \in 1..Ring
  BY FoundIsContent, LatestParses DEF IInv, Recoverable
<1> Whole(file) => file \in Content
  BY WholeIsContent DEF IInv, TypeOK
<1> Whole(ring[Latest]) /\ (Whole(file) => file.token \in 0..MaxTokens)
  BY ContentFields
<1>1. TypeOK'
    BY ConfigAssumption DEF IInv, TypeOK, Process, Jobs, LoadConfig, AfterLoad, Found,
     Resting
<1>2. InReach'
  BY DEF IInv, InReach, LoadConfig, AfterLoad, Found, Resting
<1>3. Placed'
    BY ConfigAssumption DEF IInv, TypeOK, Process, Placed, LoadConfig, AfterLoad, Found,
     Resting
<1>4. Clear'
    BY ConfigAssumption DEF IInv, TypeOK, Process, Placed, Clear, LoadConfig, AfterLoad,
     Found, Resting
<1>5. unbacked' \/ Accurate'
    BY LatestStays, ConfigAssumption DEF IInv, TypeOK, Process, Placed, Clear, Accurate,
     Good, Resolved, LoadConfig, AfterLoad, Found, Resting
<1> QED BY <1>1, <1>2, <1>3, <1>4, <1>5 DEF IInv

\* RecoverFromBackup.
LEMMA StepRecoverFromBackup ==
  ASSUME IInv, RecoverFromBackup
  PROVE  IInv'
<1> proc.mem \in Content /\ Whole(proc.mem)
  BY ContentFields DEF IInv, TypeOK, Process
<1>1. TypeOK'
  BY MigratedContent, ConfigAssumption DEF IInv, TypeOK, Process, Jobs, RecoverFromBackup
<1>2. InReach'
  BY DEF IInv, InReach, RecoverFromBackup
<1>3. Placed'
    BY MigratedContent, ConfigAssumption DEF IInv, TypeOK, Process, Placed,
     RecoverFromBackup
<1>4. Clear'
    BY MigratedContent, ConfigAssumption DEF IInv, TypeOK, Process, Placed, Clear,
     RecoverFromBackup
<1>5. unbacked' \/ Accurate'
    BY MigratedContent, LatestStays, ConfigAssumption DEF IInv, TypeOK, Process, Placed,
     Clear, Accurate, Good, Resolved, RecoverFromBackup
<1> QED BY <1>1, <1>2, <1>3, <1>4, <1>5 DEF IInv

\* MigrateSecretsToEnv: the token is in .env before it leaves the file.
LEMMA StepMigrateSecretsToEnv ==
  ASSUME IInv, MigrateSecretsToEnv
  PROVE  IInv'
<1> proc.mem \in Content /\ Whole(proc.mem)
  BY ContentFields DEF IInv, TypeOK, Process
<1>1. TypeOK'
  BY ContentFields, ConfigAssumption DEF IInv, TypeOK, Process, Jobs, MigrateSecretsToEnv
<1>2. InReach'
  BY DEF IInv, InReach, MigrateSecretsToEnv
<1>3. Placed'
    BY ContentFields, ConfigAssumption DEF IInv, TypeOK, Process, Placed,
     MigrateSecretsToEnv
<1>4. Clear'
    BY ContentFields, ConfigAssumption DEF IInv, TypeOK, Process, Placed, Clear,
     MigrateSecretsToEnv
<1>5. unbacked' \/ Accurate'
    BY ContentFields, LatestStays, ConfigAssumption DEF IInv, TypeOK, Process, Placed,
     Clear, Accurate, Good, Resolved, MigrateSecretsToEnv
<1> QED BY <1>1, <1>2, <1>3, <1>4, <1>5 DEF IInv

\* MigrateConfig.
LEMMA StepMigrateConfig ==
  ASSUME IInv, MigrateConfig
  PROVE  IInv'
<1> proc.mem \in Content /\ Whole(proc.mem)
  BY ContentFields DEF IInv, TypeOK, Process
<1> ~Whole(Torn) /\ ~Whole(None)
  BY DEF Whole
<1>1. TypeOK'
  BY ConfigAssumption DEF IInv, TypeOK, Process, Jobs, MigrateConfig
<1>2. InReach'
  BY DEF IInv, InReach, MigrateConfig
<1>3. Placed'
  BY ConfigAssumption DEF IInv, TypeOK, Process, Placed, MigrateConfig
<1>4. Clear'
  BY ConfigAssumption DEF IInv, TypeOK, Process, Placed, Clear, MigrateConfig
<1>5. unbacked' \/ Accurate'
    BY LatestStays, ConfigAssumption DEF IInv, TypeOK, Process, Placed, Clear, Accurate,
     Good, Resolved, MigrateConfig
<1> QED BY <1>1, <1>2, <1>3, <1>4, <1>5 DEF IInv

\* Migrated.
LEMMA StepMigrated ==
  ASSUME IInv, Migrated
  PROVE  IInv'
<1> proc.mem \in Content /\ Whole(proc.mem)
  BY ContentFields DEF IInv, TypeOK, Process
<1>1. TypeOK'
  BY MigratedContent, ConfigAssumption DEF IInv, TypeOK, Process, Jobs, Migrated
<1>2. InReach'
  BY DEF IInv, InReach, Migrated
<1>3. Placed'
  BY MigratedContent, ConfigAssumption DEF IInv, TypeOK, Process, Placed, Migrated
<1>4. Clear'
  BY MigratedContent, ConfigAssumption DEF IInv, TypeOK, Process, Placed, Clear, Migrated
<1>5. unbacked' \/ Accurate'
    BY MigratedContent, LatestStays, ConfigAssumption DEF IInv, TypeOK, Process, Placed,
     Clear, Accurate, Good, Resolved, Migrated
<1> QED BY <1>1, <1>2, <1>3, <1>4, <1>5 DEF IInv

\* Edit: a good configuration stays one without its token.
LEMMA StepEdit ==
  ASSUME IInv, Edit
  PROVE  IInv'
<1> proc.mem \in Content /\ Whole(proc.mem)
  BY ContentFields DEF IInv, TypeOK, Process
<1>1. TypeOK'
  <2>1. CASE proc.job = "read"
    BY <2>1, IdleProcess DEF IInv, TypeOK, Edit
  <2>2. CASE proc.job # "read"
    <3> DEFINE e == proc.mem.edits \cup ({proc.job} \cap Edits)
               t == IF proc.job = "token" THEN given.n + 1 ELSE proc.mem.token
    <3>1. e \in SUBSET Edits /\ t \in 0..MaxTokens
      BY ContentFields, ConfigAssumption DEF IInv, TypeOK, Placed, Edit
    <3>2. proc' = [proc EXCEPT !.at = "backup", !.saves = "job",
                               !.mem = [proc.mem EXCEPT !.edits = e, !.token = t]]
      BY <2>2 DEF Edit, IInv, TypeOK, Process
    <3> HIDE DEF e, t
    <3>3. [proc.mem EXCEPT !.edits = e, !.token = t] \in Content
      BY <3>1, EditedContent, ZenonT(40)
    <3>4. proc' \in Process
      BY <3>2, <3>3 DEF IInv, TypeOK, Process
    <3> QED BY <3>4 DEF IInv, TypeOK, Edit
  <2> QED BY <2>1, <2>2
<1>2. InReach'
  BY DEF IInv, InReach, Edit
<1>3. Placed'
  BY IdleProcess, ConfigAssumption DEF IInv, TypeOK, Process, Placed, Edit
<1>4. Clear'
  BY IdleProcess, ConfigAssumption DEF IInv, TypeOK, Process, Placed, Clear, Edit
<1>5. unbacked' \/ Accurate'
    BY IdleProcess, LatestStays, ConfigAssumption DEF IInv, TypeOK, Process, Placed,
     Clear, Accurate, Good, Resolved, Edit
<1> QED BY <1>1, <1>2, <1>3, <1>4, <1>5 DEF IInv

\* BackupConfig: the file that will be cut off is the latest backup.
LEMMA StepBackupConfig ==
  ASSUME IInv, BackupConfig
  PROVE  IInv'
<1> proc.mem \in Content /\ Whole(proc.mem)
  BY ContentFields DEF IInv, TypeOK, Process
<1> Whole(file) => file \in Content
  BY WholeIsContent DEF IInv, TypeOK
<1>a. file \in Content /\ Whole(file)
  BY DEF IInv, Placed, BackupConfig
<1>b. /\ ring' \in [1..Ring -> Content \cup {Torn, None}]
      /\ ring'[1] = file
      /\ \A k \in 1..Ring : ring'[k] = file \/ \E j \in 1..Ring : ring'[k] = ring[j]
  BY <1>a, RotatedBackups DEF IInv, BackupConfig
<1>c. proc' = [proc EXCEPT !.at = "write"] /\ UNCHANGED <<file, env, crashes, acked, given, unbacked>>
  BY DEF BackupConfig
<1>1. TypeOK'
  BY <1>b, <1>c DEF IInv, TypeOK, Process
<1>2. InReach'
  BY <1>a, <1>b, <1>c, ConfigAssumption, SMTT(30) DEF IInv, TypeOK, InReach
<1>3. Placed'
  BY <1>a, <1>c DEF IInv, TypeOK, Process, Placed, BackupConfig
<1>4. Clear'
  BY <1>a, <1>b, <1>c DEF IInv, TypeOK, Process, Placed, Clear, BackupConfig
<1>5. unbacked' \/ Accurate'
  BY <1>a, <1>b, <1>c DEF IInv, TypeOK, Process, Accurate, Good, Resolved, BackupConfig
<1> QED BY <1>1, <1>2, <1>3, <1>4, <1>5 DEF IInv

\* Truncate.
LEMMA StepTruncate ==
  ASSUME IInv, Truncate
  PROVE  IInv'
<1> proc.mem \in Content /\ Whole(proc.mem)
  BY ContentFields DEF IInv, TypeOK, Process
<1> ~Whole(Torn) /\ ~Whole(None)
  BY DEF Whole
<1>1. TypeOK'
  BY ConfigAssumption DEF IInv, TypeOK, Process, Jobs, Truncate
<1>2. InReach'
  BY DEF IInv, InReach, Truncate
<1>3. Placed'
  BY ConfigAssumption DEF IInv, TypeOK, Process, Placed, Truncate
<1>4. Clear'
  BY ConfigAssumption DEF IInv, TypeOK, Process, Placed, Clear, Truncate
<1>5. unbacked' \/ Accurate'
    BY LatestStays, ConfigAssumption DEF IInv, TypeOK, Process, Placed, Clear, Accurate,
     Good, Resolved, Truncate
<1> QED BY <1>1, <1>2, <1>3, <1>4, <1>5 DEF IInv

\* SaveConfig: what is written is good without its token.
LEMMA StepSaveConfig ==
  ASSUME IInv, SaveConfig
  PROVE  IInv'
<1> proc.mem \in Content /\ Whole(proc.mem)
  BY ContentFields DEF IInv, TypeOK, Process
<1>1. TypeOK'
  <2>1. /\ file' \in Content /\ acked' \subseteq Edits
        /\ UNCHANGED <<ring, env, crashes, unbacked>>
    BY StrippedContent DEF IInv, TypeOK, SaveConfig
  <2>2. proc' \in Process
    BY IdleProcess DEF IInv, TypeOK, Process, SaveConfig
  <2>3. given' \in [n : 0..MaxTokens, safe : BOOLEAN]
    <3>1. given' = given \/ (proc.job = "token" /\ given' = [n |-> given.n + 1, safe |-> FALSE])
      BY DEF SaveConfig
    <3>2. proc.job = "token" => given.n + 1 \in 0..MaxTokens
      BY ConfigAssumption DEF IInv, TypeOK, Placed, SaveConfig
    <3>3. given \in [n : 0..MaxTokens, safe : BOOLEAN]
      BY DEF IInv, TypeOK
    <3>4. ASSUME NEW m \in 0..MaxTokens
          PROVE  [n |-> m, safe |-> FALSE] \in [n : 0..MaxTokens, safe : BOOLEAN]
      OBVIOUS
    <3> QED BY <3>1, <3>2, <3>3, <3>4
  <2> QED BY <2>1, <2>2, <2>3 DEF IInv, TypeOK
<1>2. InReach'
  BY DEF IInv, InReach, SaveConfig
<1>3. Placed'
    BY StrippedContent, IdleProcess, ConfigAssumption DEF IInv, TypeOK, Process, Placed,
     SaveConfig
<1>4. Clear'
    BY StrippedContent, IdleProcess, ConfigAssumption DEF IInv, TypeOK, Process, Placed,
     Clear, SaveConfig
<1>5. unbacked' \/ Accurate'
    BY StrippedContent, IdleProcess, LatestStays, ConfigAssumption DEF IInv, TypeOK,
     Process, Placed, Clear, Accurate, Good, Resolved, SaveConfig
<1> QED BY <1>1, <1>2, <1>3, <1>4, <1>5 DEF IInv

\* Crash: a file that is cut off has a good backup, or it was a migration's.
LEMMA StepCrash ==
  ASSUME IInv, Crash
  PROVE  IInv'
<1> Whole(file) => file \in Content
  BY WholeIsContent DEF IInv, TypeOK
<1>a. ~Whole(Torn) /\ ~Whole(None)
  BY DEF Whole
<1>b. /\ crashes < MaxCrashes /\ crashes' = crashes + 1
      /\ crashes \in Nat /\ crashes + 1 < Ring
      /\ proc' = Idle /\ proc.at # "idle"
      /\ unbacked' = (unbacked \/ proc.at = "migrating")
      /\ UNCHANGED <<file, env, acked, given>>
  BY ConfigAssumption DEF IInv, TypeOK, Crash, Resting
<1>c. /\ ring' \in [1..Ring -> Content \cup {Torn, None}]
      /\ \A k \in 1..Ring : k + 1 \in 1..Ring => ring[k] \in {ring'[k], ring'[k + 1]}
      /\ \A k \in 1..Ring : ~Whole(ring'[k]) \/ \E j \in 1..Ring : ring'[k] = ring[j]
  <2>1. CASE ring' = ring
    BY <2>1 DEF IInv, TypeOK
  <2>2. CASE ring' = Rotated(Torn)
    BY <2>2, <1>a, RotatedBackups DEF IInv
  <2>3. CASE \E k \in 1..Ring : ring' = MovedFrom(k)
    <3> PICK k \in 1..Ring : ring' = MovedFrom(k)
      BY <2>3
    <3> QED BY <1>a, MovedBackups DEF IInv
  <2> QED BY <2>1, <2>2, <2>3 DEF Crash
<1>d. ring' = ring \/ proc.at = "backup"
  BY DEF Crash
<1>1. TypeOK'
  BY <1>b, <1>c, IdleProcess, ConfigAssumption DEF IInv, TypeOK
<1>2. InReach'
  <2> PICK k \in 1..Ring : k <= crashes + 1 /\ Whole(ring[k])
    BY DEF IInv, InReach
  <2>1. k + 1 \in 1..Ring /\ k <= crashes' + 1 /\ k + 1 <= crashes' + 1
    BY <1>b, ConfigAssumption
  <2> QED BY <2>1, <1>c DEF InReach
<1>3. Placed'
  BY <1>b, IdleProcess DEF Placed
<1>4. Clear'
  BY <1>b, <1>c, IdleProcess DEF IInv, Clear
<1>5. unbacked' \/ Accurate'
  <2> SUFFICES ASSUME ~unbacked, proc.at # "migrating"
               PROVE  Accurate'
    BY <1>b
  <2>1. Accurate /\ (Whole(file) => Good(file))
    BY DEF IInv, Accurate
  <2>2. CASE Whole(file)
    BY <2>1, <2>2, <1>b, IdleProcess DEF Accurate, Good, Resolved
  <2>3. CASE ~Whole(file)
    <3>1. ring' = ring /\ Latest' = Latest
      BY <2>3, <1>d, LatestStays DEF IInv, Placed
    <3>2. Good(ring[Latest])
      BY <2>1, <2>3, <1>b, LatestIsFirst DEF IInv, Placed, Accurate
    <3> QED BY <2>1, <2>3, <3>1, <3>2, <1>b, IdleProcess DEF Accurate, Good, Resolved
  <2> QED BY <2>2, <2>3
<1> QED BY <1>1, <1>2, <1>3, <1>4, <1>5 DEF IInv

\* GiveInFile.
LEMMA StepGiveInFile ==
  ASSUME IInv, GiveInFile
  PROVE  IInv'
<1> Whole(file) => file \in Content
  BY WholeIsContent DEF IInv, TypeOK
<1>a. /\ file' \in Content /\ Whole(file')
      /\ file'.edits = file.edits /\ file'.token = given.n + 1
      /\ given.n + 1 \in 1..MaxTokens
  <2>1. given.n + 1 \in 1..MaxTokens /\ given.n + 1 \in 0..MaxTokens
    BY ConfigAssumption DEF GiveInFile, IInv, TypeOK
  <2> QED BY <2>1, TokenContent DEF GiveInFile
<1>1. TypeOK'
  BY <1>a, ConfigAssumption DEF IInv, TypeOK, Process, Jobs, GiveInFile, Resting
<1>2. InReach'
  BY DEF IInv, InReach, GiveInFile, Resting
<1>3. Placed'
  BY <1>a, ConfigAssumption DEF IInv, TypeOK, Process, Placed, GiveInFile, Resting
<1>4. Clear'
  BY <1>a, ConfigAssumption DEF IInv, TypeOK, Process, Placed, Clear, GiveInFile, Resting
<1>5. unbacked' \/ Accurate'
    BY <1>a, LatestStays, ConfigAssumption DEF IInv, TypeOK, Process, Placed, Clear,
     Accurate, Good, Resolved, GiveInFile, Resting
<1> QED BY <1>1, <1>2, <1>3, <1>4, <1>5 DEF IInv

\* GiveInEnv.
LEMMA StepGiveInEnv ==
  ASSUME IInv, GiveInEnv
  PROVE  IInv'
<1> Whole(file) => file \in Content
  BY WholeIsContent DEF IInv, TypeOK
<1>1. TypeOK'
  BY ContentFields, ConfigAssumption DEF IInv, TypeOK, Process, Jobs, GiveInEnv, Resting
<1>2. InReach'
  BY DEF IInv, InReach, GiveInEnv, Resting
<1>3. Placed'
  BY ContentFields, ConfigAssumption DEF IInv, TypeOK, Process, Placed, GiveInEnv, Resting
<1>4. Clear'
    BY ContentFields, ConfigAssumption DEF IInv, TypeOK, Process, Placed, Clear,
     GiveInEnv, Resting
<1>5. unbacked' \/ Accurate'
    BY ContentFields, LatestStays, ConfigAssumption DEF IInv, TypeOK, Process, Placed,
     Clear, Accurate, Good, Resolved, GiveInEnv, Resting
<1> QED BY <1>1, <1>2, <1>3, <1>4, <1>5 DEF IInv

-----------------------------------------------------------------------------
(***************************************************************************)
(* The theorems                                                            *)
(***************************************************************************)

\* The invariant holds at the start, and every step keeps it.
THEOREM Invariance == Spec => []IInv
<1>1. Init => IInv
  <2> SUFFICES ASSUME Init PROVE IInv
    OBVIOUS
  <2>1. First \in Content /\ Whole(First) /\ First.edits = {} /\ First.token = 0
    <3>1. First \in Content /\ First.edits = {} /\ First.token = 0
      BY ConfigAssumption DEF First, Content
    <3> QED BY <3>1, WholeIsContent
  <2>2. ~Whole(None) /\ 1 \in 1..Ring /\ 0 \in 0..MaxTokens /\ 0 \in 0..MaxCrashes
    BY ConfigAssumption DEF Whole
  <2>3. TypeOK
    BY <2>1, <2>2, IdleProcess DEF Init, TypeOK
  <2>4. InReach
    BY <2>1, <2>2 DEF Init, InReach
  <2>5. Placed /\ Clear
    BY <2>1, <2>2, IdleProcess DEF Init, Placed, Clear
  <2>6. Accurate
    BY <2>1, IdleProcess DEF Init, Accurate, Good, Resolved
  <2> QED BY <2>3, <2>4, <2>5, <2>6 DEF IInv
<1>2. IInv /\ [Next]_vars => IInv'
  <2> SUFFICES ASSUME IInv, [Next]_vars PROVE IInv'
    OBVIOUS
  <2>1. CASE UNCHANGED vars
    <3>1. TypeOK' /\ InReach' /\ Placed' /\ Clear'
      BY <2>1 DEF vars, IInv, TypeOK, InReach, Placed, Clear, Whole
    <3>2. unbacked' \/ Accurate'
      BY <2>1, LatestStays DEF vars, IInv, Accurate, Good, Resolved, Whole
    <3> QED BY <3>1, <3>2 DEF IInv
  <2>2. CASE Next
        BY <2>2, StepLoadConfig, StepRecoverFromBackup, StepMigrateSecretsToEnv,
       StepMigrateConfig,
       StepMigrated, StepEdit, StepBackupConfig, StepTruncate, StepSaveConfig, StepCrash,
       StepGiveInFile, StepGiveInEnv DEF Next
  <2> QED BY <2>1, <2>2
<1> QED BY <1>1, <1>2, PTL DEF Spec

\* Type correctness.
THEOREM TypeCorrect == Spec => []TypeOK
<1>1. IInv => TypeOK
  BY DEF IInv
<1> QED BY <1>1, Invariance, PTL

\* No load gives up, and none finds less than what was saved and given, however
\* many processes are killed at the file - fewer than there are backups.
THEOREM NothingLostEver == Spec => []NothingLost
<1>1. IInv => NothingLost
  <2> SUFFICES ASSUME IInv PROVE NothingLost
    OBVIOUS
  <2>1. Recoverable # {}
    BY FoundIsContent DEF IInv
  <2>2. CASE unbacked \/ proc.at = "migrating"
    BY <2>1, <2>2 DEF NothingLost
  <2>3. CASE ~unbacked /\ proc.at # "migrating"
    <3>1. Good(Found)
      BY <2>3, LatestIsFirst DEF IInv, Placed, Accurate, Found
    <3> QED BY <2>1, <3>1 DEF NothingLost, Good
  <2> QED BY <2>2, <2>3
<1> QED BY <1>1, Invariance, PTL
-----------------------------------------------------------------------------
(***************************************************************************)
(* AgentPids                                                               *)
(***************************************************************************)

(* nanoclaw stop: what is live is still to be killed, or excused; under    *)
(* systemd it is of the daemon that runs, and none runs in a stop.         *)
PidsInv ==
  /\ Pids!TypeOK
  /\ stop.at \notin {"idle", "kill"} => stop.left = {}
  /\ host # "systemd" =>
       Pids!Live \subseteq excused \cup IF stop.at = "idle" THEN list ELSE stop.left
  /\ host = "systemd" =>
       /\ Pids!Live \subseteq IF Pids!Runs THEN mine ELSE {}
       /\ stop.at # "idle" => ~Pids!Runs

PidStates == {"unborn", "live", "dead", "closed"}

LEMMA KilledAgents ==
  ASSUME Pids!TypeOK, NEW S
  PROVE  /\ Pids!Killed(S) \in [Agents -> PidStates]
         /\ agents' = Pids!Killed(S) => (Pids!Live)' = Pids!Live \ S
BY DEF Pids!TypeOK, Pids!Killed, Pids!Live, PidStates

LEMMA PidsType ==
  ASSUME Pids!TypeOK, [Pids!Next]_pidVars
  PROVE  Pids!TypeOK'
<1> USE UpkeepAssumption DEF Pids!TypeOK
<1>1. CASE Pids!ClearAgentPids
  BY <1>1 DEF Pids!ClearAgentPids, Pids!Idle, Pids!Runs, Pids!Live
<1>2. ASSUME NEW a \in Agents, Pids!RegisterAgentPid(a) PROVE Pids!TypeOK'
  BY <1>2 DEF Pids!RegisterAgentPid
<1>3. ASSUME NEW a \in Agents, Pids!Release(a) PROVE Pids!TypeOK'
  BY <1>3 DEF Pids!Release
<1>4. ASSUME NEW a \in Agents, Pids!Die(a) PROVE Pids!TypeOK'
  BY <1>4 DEF Pids!Die
<1>5. ASSUME NEW a \in Agents, Pids!UnregisterAgentPid(a) PROVE Pids!TypeOK'
  BY <1>5 DEF Pids!UnregisterAgentPid
<1>6. CASE Pids!Reap
  BY <1>6 DEF Pids!Reap
<1>7. CASE Pids!ReapReads
  BY <1>7 DEF Pids!ReapReads
<1>8. ASSUME NEW a \in Agents, Pids!IsPidAlive(a) PROVE Pids!TypeOK'
  BY <1>8 DEF Pids!IsPidAlive
<1>9. CASE Pids!ReapWrites
  BY <1>9 DEF Pids!ReapWrites, Pids!Idle, Pids!Live
<1>10. CASE Pids!Crash
  BY <1>10, KilledAgents DEF Pids!Crash, Pids!Ended, Pids!Idle, PidStates
<1>11. CASE Pids!ShutdownAsked
  BY <1>11 DEF Pids!ShutdownAsked, Pids!Shutdown
<1>12. CASE Pids!KillAgain
  BY <1>12, KilledAgents DEF Pids!KillAgain, PidStates
<1>13. CASE Pids!Exit
  BY <1>13, KilledAgents DEF Pids!Exit, Pids!Ended, Pids!Idle, PidStates
<1>14. CASE Pids!KillAllAgentPids
  <2>1. stop' \in [at : {"idle", "kill", "daemon", "wait", "done"}, left : SUBSET Agents]
    BY <1>14 DEF Pids!KillAllAgentPids
  <2>2. CASE host = "systemd" /\ Pids!Runs
    <3>1. /\ agents' = Pids!Killed(mine) /\ daemon' = "gone" /\ held' = {}
          /\ reaper' = Pids!Idle /\ UNCHANGED <<host, boots, mine, list, excused>>
      BY <1>14, <2>2 DEF Pids!KillAllAgentPids, Pids!Ended
    <3>2. agents' \in [Agents -> PidStates]
      BY <3>1, KilledAgents
    <3> QED
      BY <2>1, <3>1, <3>2 DEF Pids!Idle, PidStates
  <2>3. CASE ~(host = "systemd" /\ Pids!Runs)
    BY <1>14, <2>1, <2>3 DEF Pids!KillAllAgentPids
  <2> QED
    BY <2>2, <2>3
<1>15. ASSUME NEW a \in Agents, Pids!StopKills(a) PROVE Pids!TypeOK'
  BY <1>15, KilledAgents DEF Pids!StopKills, PidStates
<1>16. CASE Pids!StopUnlinks
  BY <1>16 DEF Pids!StopUnlinks
<1>17. CASE Pids!StopDaemon
  <2>1. stop' \in [at : {"idle", "kill", "daemon", "wait", "done"}, left : SUBSET Agents]
    BY <1>17 DEF Pids!StopDaemon
  <2>2. CASE daemon = "up" /\ host = "windows"
    <3>1. /\ agents' = Pids!Killed(mine) /\ daemon' = "down" /\ held' = {}
          /\ reaper' = Pids!Idle /\ UNCHANGED <<host, boots, mine, list, excused>>
      BY <1>17, <2>2 DEF Pids!StopDaemon, Pids!Ended
    <3>2. agents' \in [Agents -> PidStates]
      BY <3>1, KilledAgents
    <3> QED
      BY <2>1, <3>1, <3>2 DEF Pids!Idle, PidStates
  <2>3. CASE daemon = "up" /\ host # "windows"
    BY <1>17, <2>1, <2>3 DEF Pids!StopDaemon, Pids!Shutdown
  <2>4. CASE daemon # "up"
    BY <1>17, <2>1, <2>4 DEF Pids!StopDaemon
  <2> QED
    BY <2>2, <2>3, <2>4
<1>18. CASE Pids!Stopped
  BY <1>18 DEF Pids!Stopped
<1>19. CASE Pids!StopReturns
  BY <1>19 DEF Pids!StopReturns
<1>20. CASE UNCHANGED pidVars
  BY <1>20 DEF pidVars
<1> QED
  BY <1>1, <1>2, <1>3, <1>4, <1>5, <1>6, <1>7, <1>8, <1>9, <1>10, <1>11, <1>12,
     <1>13, <1>14, <1>15, <1>16, <1>17, <1>18, <1>19, <1>20 DEF Pids!Next

LEMMA PidsStep ==
  ASSUME PidsInv, [Pids!Next]_pidVars
  PROVE  PidsInv'
<1>1. Pids!TypeOK /\ Pids!TypeOK'
  BY PidsType DEF PidsInv
<1> USE DEF PidsInv, Pids!TypeOK, Pids!Live, Pids!Runs
<1> USE <1>1
<1>2. CASE Pids!ClearAgentPids
  BY <1>2 DEF Pids!ClearAgentPids
<1>3. ASSUME NEW a \in Agents, Pids!RegisterAgentPid(a) PROVE PidsInv'
  BY <1>3 DEF Pids!RegisterAgentPid
<1>4. ASSUME NEW a \in Agents, Pids!Release(a) \/ Pids!IsPidAlive(a) PROVE PidsInv'
  BY <1>4 DEF Pids!Release, Pids!IsPidAlive
<1>5. ASSUME NEW a \in Agents, Pids!Die(a) PROVE PidsInv'
  BY <1>5 DEF Pids!Die
<1>6. ASSUME NEW a \in Agents, Pids!UnregisterAgentPid(a) PROVE PidsInv'
  BY <1>6 DEF Pids!UnregisterAgentPid
<1>7. CASE Pids!Reap \/ Pids!ReapReads
  BY <1>7 DEF Pids!Reap, Pids!ReapReads
<1>8. CASE Pids!ReapWrites
  BY <1>8 DEF Pids!ReapWrites
<1>9. CASE Pids!Crash
  <2>1. UNCHANGED <<host, mine, list, excused, stop>> /\ daemon' = "down"
    BY <1>9 DEF Pids!Crash, Pids!Ended
  <2>2. CASE host = "systemd"
    <3>1. (Pids!Live)' = Pids!Live \ mine
      BY <1>9, <2>2, KilledAgents DEF Pids!Crash
    <3> QED
      BY <2>1, <2>2, <3>1
  <2>3. CASE host # "systemd"
    BY <1>9, <2>1, <2>3 DEF Pids!Crash
  <2> QED
    BY <2>2, <2>3
<1>10. CASE Pids!ShutdownAsked
  BY <1>10 DEF Pids!ShutdownAsked, Pids!Shutdown
<1>11. CASE Pids!KillAgain
  <2>1. (Pids!Live)' = Pids!Live \ held
    BY <1>11, KilledAgents DEF Pids!KillAgain
  <2> QED
    BY <1>11, <2>1 DEF Pids!KillAgain
<1>12. CASE Pids!Exit
  <2>1. UNCHANGED <<host, mine, list, excused, stop>> /\ daemon' = "gone"
    BY <1>12 DEF Pids!Exit, Pids!Ended
  <2>2. CASE host = "systemd"
    <3>1. (Pids!Live)' = Pids!Live \ mine
      BY <1>12, <2>2, KilledAgents DEF Pids!Exit
    <3> QED
      BY <2>1, <2>2, <3>1
  <2>3. CASE host # "systemd"
    BY <1>12, <2>1, <2>3 DEF Pids!Exit
  <2> QED
    BY <2>2, <2>3
<1>13. CASE Pids!KillAllAgentPids
  <2>1. /\ stop.at = "idle"
        /\ stop'.at = (IF list = {} THEN "daemon" ELSE "kill") /\ stop'.left = list
    BY <1>13 DEF Pids!KillAllAgentPids
  <2>2. CASE host = "systemd" /\ Pids!Runs
    <3>1. agents' = Pids!Killed(mine) /\ daemon' = "gone" /\ UNCHANGED host
      BY <1>13, <2>2 DEF Pids!KillAllAgentPids, Pids!Ended
    <3>2. (Pids!Live)' = Pids!Live \ mine
      BY <3>1, KilledAgents
    <3> QED
      BY <2>1, <2>2, <3>1, <3>2
  <2>3. CASE ~(host = "systemd" /\ Pids!Runs)
    <3>1. UNCHANGED <<host, daemon, boots, agents, mine, held, list, reaper, excused>>
      BY <1>13, <2>3 DEF Pids!KillAllAgentPids
    <3> QED
      BY <2>1, <2>3, <3>1
  <2> QED
    BY <2>2, <2>3
<1>14. ASSUME NEW a \in Agents, Pids!StopKills(a) PROVE PidsInv'
  <2>1. (Pids!Live)' = Pids!Live \ {a}
    BY <1>14, KilledAgents DEF Pids!StopKills
  <2> QED
    BY <1>14, <2>1 DEF Pids!StopKills
<1>15. CASE Pids!StopUnlinks
  BY <1>15 DEF Pids!StopUnlinks
<1>16. CASE Pids!StopDaemon
  <2>1. /\ stop.at = "daemon" /\ stop'.at \in {"wait", "done"}
        /\ stop'.left = stop.left
    BY <1>16 DEF Pids!StopDaemon
  <2>2. CASE daemon = "up" /\ host = "windows"
    <3>1. agents' = Pids!Killed(mine) /\ UNCHANGED <<host, excused>>
      BY <1>16, <2>2 DEF Pids!StopDaemon, Pids!Ended
    <3>2. (Pids!Live)' = Pids!Live \ mine
      BY <3>1, KilledAgents
    <3> QED
      BY <2>1, <2>2, <3>1, <3>2
  <2>3. CASE daemon = "up" /\ host # "windows"
    BY <1>16, <2>1, <2>3 DEF Pids!StopDaemon, Pids!Shutdown
  <2>4. CASE daemon # "up"
    BY <1>16, <2>1, <2>4 DEF Pids!StopDaemon
  <2> QED
    BY <2>2, <2>3, <2>4
<1>17. CASE Pids!Stopped
  BY <1>17 DEF Pids!Stopped
<1>18. CASE Pids!StopReturns
  BY <1>18 DEF Pids!StopReturns
<1>19. CASE UNCHANGED pidVars
  BY <1>19 DEF pidVars
<1> QED
  BY <1>2, <1>3, <1>4, <1>5, <1>6, <1>7, <1>8, <1>9, <1>10, <1>11, <1>12,
     <1>13, <1>14, <1>15, <1>16, <1>17, <1>18, <1>19 DEF Pids!Next

(* No agent outlives nanoclaw stop but the excused.                        *)
THEOREM AgentsStopped == Pids!Spec => []StopLeavesNone
<1>1. Pids!Init => PidsInv
  BY UpkeepAssumption DEF Pids!Init, PidsInv, Pids!TypeOK, Pids!Live, Pids!Idle
<1>2. PidsInv /\ [Pids!Next]_Pids!vars => PidsInv'
  BY PidsStep DEF pidVars, Pids!vars
<1>3. PidsInv => StopLeavesNone
  BY DEF PidsInv, StopLeavesNone, Pids!StopLeavesNone
<1> QED
  BY <1>1, <1>2, <1>3, PTL DEF Pids!Spec
-----------------------------------------------------------------------------
(***************************************************************************)
(* McpTokens: what a run has got so far, and mcp.json while it is newer    *)
(* than the cache, have the tokens of the cache.                           *)
(***************************************************************************)

Entry == [token : Nat, fresh : BOOLEAN, refresh : BOOLEAN]
Tokens == [Mcp!Servers -> Nat]

RunShape ==
  [ phase : {"off", "preparing", "starting", "busy", "idle", "killed"},
    owner : BOOLEAN, next : 1..(NServers + 1), got : Tokens,
    asked : SUBSET Mcp!Servers, missed : SUBSET Mcp!Servers, source : Nat,
    headers : Tokens, rewritten : BOOLEAN ]

FileShape ==
  [ there : BOOLEAN, headers : Tokens, source : Nat,
    missed : SUBSET Mcp!Servers, newer : BOOLEAN ]

Shapes ==
  /\ cache \in [Mcp!Servers -> Entry]
  /\ run \in [Mcp!Runs -> RunShape]
  /\ mcpFile \in FileShape
  /\ source \in Nat

(* The tokens h of the servers S are those of the cache, where it has good *)
(* ones and none was missed.                                               *)
Current(h, missed, S) ==
  \A s \in S \ missed : Mcp!Valid(s) => h[s] = cache[s].token

Before(n) == {s \in Mcp!Servers : s < n}

(* What a run has got so far, and mcp.json while it is newer than the      *)
(* cache, have the tokens of the cache; and in a sandbox the agent has     *)
(* what mcp.json says, until that is written for another run.              *)
TokensInv ==
  /\ Shapes
  /\ Mcp!OwnerAsked
  /\ \A r \in Mcp!Runs : run[r].phase = "preparing" =>
       Current(run[r].got, run[r].missed, Before(run[r].next))
  /\ mcpFile.there /\ mcpFile.newer =>
       Current(mcpFile.headers, mcpFile.missed, Mcp!Servers)
  /\ place.sandbox /\ run["chat"].phase \in {"busy", "idle"}
       /\ ~run["chat"].rewritten =>
       /\ run["chat"].headers = mcpFile.headers
       /\ run["chat"].source = mcpFile.source
       /\ run["chat"].missed = mcpFile.missed

(* The walk stops at the first server that has to be waited for.           *)
LEMMA StopAt ==
  ASSUME NEW from \in 1..(NServers + 1), NEW owner, NEW az
  PROVE  LET halt == Mcp!FirstWait(from, owner, az) IN
         /\ halt \in from..(NServers + 1)
         /\ \A s \in from..(halt - 1) : ~Mcp!Waits(s, owner, az)
<1> DEFINE S == {s \in from..NServers : Mcp!Waits(s, owner, az)} \cup {NServers + 1}
           halt == CHOOSE x \in S : \A y \in S : x <= y
<1>1. S \in SUBSET Nat /\ S # {} /\ \A s \in S : s \in from..(NServers + 1)
  BY UpkeepAssumption
<1>2. \A s \in from..NServers : Mcp!Waits(s, owner, az) => s \in S
  OBVIOUS
<1>3. Mcp!FirstWait(from, owner, az) = halt
  BY DEF Mcp!FirstWait, Mcp!Min
<1> HIDE DEF S
<1>4. halt \in S /\ \A y \in S : halt <= y
  BY <1>1, HasLeast
<1> HIDE DEF halt
<1>5. halt \in from..(NServers + 1)
  BY <1>1, <1>4
<1>6. ASSUME NEW s \in from..(halt - 1), Mcp!Waits(s, owner, az) PROVE FALSE
  <2>1. s \in from..NServers /\ s < halt
    BY <1>5, UpkeepAssumption
  <2> QED
    BY <1>2, <1>4, <1>5, <1>6, <2>1
<1> QED
  BY <1>3, <1>5, <1>6

(* The runs G are the runs F but for what is new in a walk.                *)
IsRewritten(G, F, b) ==
  /\ G \in [Mcp!Runs -> RunShape] /\ G["chat"].rewritten = b
  /\ \A r \in Mcp!Runs :
       /\ G[r].phase = F[r].phase /\ G[r].owner = F[r].owner
       /\ G[r].next = F[r].next /\ G[r].got = F[r].got
       /\ G[r].asked = F[r].asked /\ G[r].missed = F[r].missed
       /\ G[r].source = F[r].source /\ G[r].headers = F[r].headers

IsMissing(G, F, W, S) ==
  /\ G \in [Mcp!Runs -> RunShape]
  /\ \A r \in Mcp!Runs :
       /\ G[r].phase = F[r].phase /\ G[r].owner = F[r].owner
       /\ G[r].next = F[r].next /\ G[r].got = F[r].got
       /\ G[r].asked = F[r].asked /\ G[r].rewritten = F[r].rewritten
       /\ G[r].source = F[r].source /\ G[r].headers = F[r].headers
       /\ G[r].missed = IF r \notin W /\ F[r].phase = "preparing"
                        THEN F[r].missed \cup (S \cap Before(F[r].next))
                        ELSE F[r].missed

IsWalked(F, R, W, over, halt, got) ==
  /\ F \in [Mcp!Runs -> RunShape]
  /\ \A r \in Mcp!Runs :
       /\ r \notin W => F[r] = R[r]
       /\ r \in W /\ over /\ r = "task" => F[r].phase = "off"
       /\ r \in W /\ ~(over /\ r = "task") =>
            /\ F[r].got = got[r] /\ F[r].next = halt
            /\ F[r].phase = (IF over THEN "starting" ELSE R[r].phase)
            /\ F[r].owner = R[r].owner /\ F[r].asked = R[r].asked
            /\ F[r].missed = R[r].missed /\ F[r].source = R[r].source

LEMMA Rewritten ==
  ASSUME NEW F \in [Mcp!Runs -> RunShape], NEW b \in BOOLEAN, NEW G,
         G = [F EXCEPT !["chat"].rewritten = b]
  PROVE  IsRewritten(G, F, b)
BY DEF IsRewritten, RunShape, Mcp!Runs

LEMMA MissingRuns ==
  ASSUME NEW F \in [Mcp!Runs -> RunShape], NEW W, NEW S \in SUBSET Mcp!Servers,
         NEW G, G = Mcp!Missing(F, W, S)
  PROVE  IsMissing(G, F, W, S)
<1> DEFINE missed(r) == F[r].missed \cup {s \in S : s < F[r].next}
<1>1. G = [r \in Mcp!Runs |->
             IF r \notin W /\ F[r].phase = "preparing"
             THEN [F[r] EXCEPT !.missed = missed(r)] ELSE F[r]]
  BY DEF Mcp!Missing
<1>2. ASSUME NEW r \in Mcp!Runs
      PROVE  /\ missed(r) = F[r].missed \cup (S \cap Before(F[r].next))
             /\ missed(r) \in SUBSET Mcp!Servers
  BY DEF Before, RunShape
<1> HIDE DEF missed
<1>3. ASSUME NEW r \in Mcp!Runs
      PROVE  /\ G[r] \in RunShape
             /\ G[r].phase = F[r].phase /\ G[r].owner = F[r].owner
             /\ G[r].next = F[r].next /\ G[r].got = F[r].got
             /\ G[r].asked = F[r].asked /\ G[r].rewritten = F[r].rewritten
             /\ G[r].source = F[r].source /\ G[r].headers = F[r].headers
             /\ G[r].missed = IF r \notin W /\ F[r].phase = "preparing"
                              THEN missed(r) ELSE F[r].missed
  <2>1. G[r] = IF r \notin W /\ F[r].phase = "preparing"
               THEN [F[r] EXCEPT !.missed = missed(r)] ELSE F[r]
    BY <1>1
  <2>2. F[r] \in RunShape /\ missed(r) \in SUBSET Mcp!Servers
    BY <1>2
  <2> QED
    BY <2>1, <2>2 DEF RunShape
<1> QED
  BY <1>1, <1>2, <1>3, ZenonT(40) DEF IsMissing

LEMMA WrittenFile ==
  ASSUME NEW h \in Tokens, NEW n \in Nat, NEW S \in SUBSET Mcp!Servers
  PROVE  [ there |-> TRUE, headers |-> h, source |-> n, missed |-> S,
           newer |-> TRUE ] \in FileShape
BY DEF FileShape

LEMMA OffShape == Mcp!Off \in RunShape /\ Mcp!Off.phase = "off"
BY UpkeepAssumption DEF Mcp!Off, RunShape, Mcp!NoHeaders, Tokens, Mcp!Servers

LEMMA WalkedRuns ==
  ASSUME NEW R \in [Mcp!Runs -> RunShape], NEW W, NEW over \in BOOLEAN,
         NEW halt \in 1..(NServers + 1), NEW got \in [Mcp!Runs -> Tokens], NEW F,
         F = [r \in Mcp!Runs |->
                IF r \notin W THEN R[r]
                ELSE IF over /\ r = "task" THEN Mcp!Off
                ELSE [R[r] EXCEPT !.got = got[r], !.next = halt,
                                  !.phase = IF over THEN "starting" ELSE @]]
  PROVE  IsWalked(F, R, W, over, halt, got)
<1>1. ASSUME NEW r \in Mcp!Runs, r \in W, ~(over /\ r = "task")
      PROVE  /\ F[r] \in RunShape
             /\ F[r].got = got[r] /\ F[r].next = halt
             /\ F[r].phase = (IF over THEN "starting" ELSE R[r].phase)
             /\ F[r].owner = R[r].owner /\ F[r].asked = R[r].asked
             /\ F[r].missed = R[r].missed /\ F[r].source = R[r].source
  <2> DEFINE phase == IF over THEN "starting" ELSE R[r].phase
  <2>1. F[r] = [R[r] EXCEPT !.got = got[r], !.next = halt, !.phase = phase]
    BY <1>1
  <2>2. /\ R[r] \in RunShape /\ got[r] \in Tokens
        /\ phase \in {"off", "preparing", "starting", "busy", "idle", "killed"}
    BY DEF RunShape
  <2> HIDE DEF phase
  <2>3. /\ F[r] \in RunShape
        /\ F[r].got = got[r] /\ F[r].next = halt /\ F[r].phase = phase
        /\ F[r].owner = R[r].owner /\ F[r].asked = R[r].asked
        /\ F[r].missed = R[r].missed /\ F[r].source = R[r].source
    BY <2>1, <2>2, ZenonT(40) DEF RunShape
  <2> QED
    BY <2>3 DEF phase
<1>2. ASSUME NEW r \in Mcp!Runs, r \in W, over /\ r = "task"
      PROVE  F[r] \in RunShape /\ F[r].phase = "off"
  BY <1>2, OffShape
<1>3. ASSUME NEW r \in Mcp!Runs, r \notin W
      PROVE  F[r] \in RunShape /\ F[r] = R[r]
  BY <1>3
<1> QED
  BY <1>1, <1>2, <1>3 DEF IsWalked

HeadersStep ==
  run["chat"].phase = "idle" /\ run'["chat"].phase = "busy" =>
    \/ place.sandbox /\ run["chat"].rewritten
    \/ /\ run'["chat"].source = source
       /\ \A s \in Mcp!Servers \ run'["chat"].missed :
            run'["chat"].headers[s] = cache[s].token

OlderStep == \A s \in Mcp!Servers : cache'[s].token >= cache[s].token

(* What a walk starts with: see WalkStep.                                  *)
Walkable(W, R, from, owner, C) ==
  /\ W \in SUBSET Mcp!Runs /\ R \in [Mcp!Runs -> RunShape]
  /\ from \in 1..(NServers + 1) /\ C \in [Mcp!Servers -> Entry]
  /\ \A s \in Mcp!Servers : s >= from => C[s] = cache[s]
  /\ \A s \in Mcp!Servers : C[s] # cache[s] => C[s].token > cache[s].token
  /\ \A r \in W : R[r].phase = "preparing" /\ R[r].owner = owner
  /\ \A r \in Mcp!Runs \ W : R[r] = run[r]
  /\ \A r \in W : \A s \in Before(from) \ R[r].missed :
       C[s].token # 0 /\ C[s].fresh => R[r].got[s] = C[s].token
  /\ "chat" \in W /\ owner =>
       \A s \in Before(from) : R["chat"].got[s] # 0 \/ s \in R["chat"].asked

(* A walk over the servers keeps the invariant.                             *)
LEMMA WalkStep ==
  ASSUME TokensInv, UNCHANGED <<place, source>>,
         NEW W, NEW R, NEW from, NEW owner \in BOOLEAN, NEW az \in BOOLEAN,
         NEW C, NEW A, Walkable(W, R, from, owner, C),
         Mcp!Walk(W, R, from, owner, az, C, A)
  PROVE  TokensInv' /\ OlderStep /\ HeadersStep
<1>0. /\ W \in SUBSET Mcp!Runs /\ R \in [Mcp!Runs -> RunShape]
      /\ from \in 1..(NServers + 1) /\ C \in [Mcp!Servers -> Entry]
      /\ \A s \in Mcp!Servers : s >= from => C[s] = cache[s]
      /\ \A s \in Mcp!Servers : C[s] # cache[s] => C[s].token > cache[s].token
      /\ \A r \in W : R[r].phase = "preparing" /\ R[r].owner = owner
      /\ \A r \in Mcp!Runs \ W : R[r] = run[r]
      /\ \A r \in W : \A s \in Before(from) \ R[r].missed :
           C[s].token # 0 /\ C[s].fresh => R[r].got[s] = C[s].token
      /\ "chat" \in W /\ owner =>
           \A s \in Before(from) : R["chat"].got[s] # 0 \/ s \in R["chat"].asked
  BY DEF Walkable
<1> USE <1>0
<1> DEFINE azure(s) == Mcp!Issued(s, FALSE)
           halt == Mcp!FirstWait(from, owner, az)
           over == halt > NServers
           passed == from..(halt - 1)
           fetched == IF az THEN {s \in passed : ~Mcp!Valid(s)} ELSE {}
           after == [s \in Mcp!Servers |->
                       IF s \in fetched THEN azure(s) ELSE C[s]]
           changed == {s \in Mcp!Servers : after[s] # cache[s]}
           Got(r) == [s \in Mcp!Servers |->
                        IF s \notin passed THEN R[r].got[s]
                        ELSE IF after[s].fresh THEN after[s].token
                        ELSE 0]
           got == [r \in Mcp!Runs |-> Got(r)]
           walked == [r \in Mcp!Runs |->
                        IF r \notin W THEN R[r]
                        ELSE IF over /\ r = "task" THEN Mcp!Off
                        ELSE [R[r] EXCEPT !.got = got[r], !.next = halt,
                                          !.phase = IF over THEN "starting" ELSE @]]
           writers == IF over THEN W \cap Mcp!Here ELSE {}
           marked == Mcp!Missing(walked, W, changed)
           rewritten == marked["chat"].rewritten
                          \/ (writers # {} /\ "chat" \notin writers)
<1>1. /\ Shapes
      /\ \A s \in Mcp!Servers : s \in Nat /\ s >= 1 /\ s <= NServers
      /\ NServers \in Nat /\ from \in Nat
  BY UpkeepAssumption DEF TokensInv, Mcp!Servers
<1>2. /\ halt \in from..(NServers + 1) /\ halt \in 1..(NServers + 1)
      /\ halt \in Nat /\ over \in BOOLEAN
      /\ \A s \in passed : ~Mcp!Waits(s, owner, az)
  BY <1>1, StopAt
<1>3. /\ cache' = after
      /\ run' = [marked EXCEPT !["chat"].rewritten = rewritten]
      /\ mcpFile' = IF writers = {} THEN Mcp!Older(changed)
                    ELSE LET r == CHOOSE r \in writers : TRUE IN
                         [ there |-> TRUE, headers |-> Got(r),
                           source |-> R[r].source, missed |-> R[r].missed,
                           newer |-> TRUE ]
  BY DEF Mcp!Walk
<1> HIDE DEF halt
<1>4. \A s \in passed : s \in Mcp!Servers /\ C[s] = cache[s]
  BY <1>1, <1>2 DEF Mcp!Servers
<1>5. \A s \in Mcp!Servers : cache[s] \in Entry /\ C[s] \in Entry
  BY <1>1 DEF Shapes
<1>6. ASSUME NEW s \in Mcp!Servers
      PROVE  /\ azure(s) \in Entry
             /\ azure(s).token = cache[s].token + 1
             /\ azure(s).fresh
  BY <1>5 DEF Mcp!Issued, Entry
<1> HIDE DEF azure
<1>7. after \in [Mcp!Servers -> Entry]
  BY <1>5, <1>6
<1>22. /\ \A s \in Mcp!Servers :
            after[s] = IF s \in fetched THEN azure(s) ELSE C[s]
       /\ fetched \subseteq passed
       /\ az => \A s \in passed \ fetched : Mcp!Valid(s)
  OBVIOUS
<1> HIDE DEF fetched, after
<1>8. ASSUME NEW s \in Mcp!Servers
      PROVE  after[s] # cache[s] => after[s].token > cache[s].token
  <2>1. cache[s].token \in Nat
    BY <1>5 DEF Entry
  <2>2. CASE s \in fetched
    BY <1>6, <1>22, <2>1, <2>2
  <2>3. CASE s \notin fetched
    BY <1>22, <2>3
  <2> QED
    BY <2>2, <2>3
<1>9. ASSUME NEW s \in Before(from) PROVE after[s] = C[s]
  <2>1. s \in Mcp!Servers /\ s \notin passed
    BY <1>1, <1>2 DEF Before
  <2> HIDE DEF passed
  <2> QED
    BY <1>22, <2>1
<1>10. ASSUME NEW s \in passed, owner
       PROVE  after[s].fresh /\ after[s].token # 0
  <2>1. s \in Mcp!Servers /\ ~Mcp!Waits(s, owner, az)
    BY <1>2, <1>4
  <2>2. Mcp!Valid(s) \/ az
    BY <2>1, <1>10 DEF Mcp!Waits
  <2>3. CASE s \in fetched
    <3>1. after[s] = azure(s) /\ cache[s].token \in Nat
      BY <1>5, <1>22, <2>1, <2>3 DEF Entry
    <3>2. azure(s).token = cache[s].token + 1 /\ azure(s).fresh
      BY <1>6, <2>1
    <3> QED
      BY <3>1, <3>2
  <2>4. CASE s \notin fetched
    <3>1. Mcp!Valid(s)
      BY <1>22, <2>2, <2>4
    <3>2. after[s] = cache[s]
      BY <1>4, <1>22, <2>1, <2>4
    <3> QED
      BY <3>1, <3>2 DEF Mcp!Valid
  <2> QED
    BY <2>3, <2>4
<1>11. got \in [Mcp!Runs -> Tokens]
  <2>1. \A r \in Mcp!Runs : R[r].got \in [Mcp!Servers -> Nat]
    BY DEF RunShape, Tokens
  <2>2. \A s \in Mcp!Servers : after[s].token \in Nat
    BY <1>7 DEF Entry
  <2> HIDE DEF passed
  <2>3. \A r \in Mcp!Runs : Got(r) \in Tokens
    BY <2>1, <2>2 DEF Tokens
  <2> QED
    BY <2>3
(* Whatever of the runs of W may be written is of the cache.               *)
<1>12. ASSUME NEW r \in W, NEW s \in Before(halt) \ R[r].missed,
              after[s].token # 0, after[s].fresh
       PROVE  got[r][s] = after[s].token
  <2>1. s \in Mcp!Servers /\ r \in Mcp!Runs
    BY DEF Before
  <2>2. CASE s \in passed
    BY <1>12, <2>1, <2>2
  <2>3. CASE s \notin passed
    <3>1. s \in Before(from) /\ got[r][s] = R[r].got[s]
      BY <1>1, <1>2, <2>1, <2>3 DEF Before
    <3> QED
      BY <1>9, <1>12, <3>1
  <2> QED
    BY <2>2, <2>3
<1>13. ASSUME "chat" \in W, owner, NEW s \in Before(halt)
       PROVE  got["chat"][s] # 0 \/ s \in R["chat"].asked
  <2>1. s \in Mcp!Servers
    BY DEF Before
  <2>2. CASE s \in passed
    BY <1>10, <1>13, <2>1, <2>2
  <2>3. CASE s \notin passed
    <3>1. s \in Before(from) /\ got["chat"][s] = R["chat"].got[s]
      BY <1>1, <1>2, <1>13, <2>1, <2>3 DEF Before
    <3> QED
      BY <1>13, <3>1
  <2> QED
    BY <2>2, <2>3
<1> HIDE DEF passed, got, over
<1>23. walked = [r \in Mcp!Runs |->
                   IF r \notin W THEN R[r]
                   ELSE IF over /\ r = "task" THEN Mcp!Off
                   ELSE [R[r] EXCEPT !.got = got[r], !.next = halt,
                                     !.phase = IF over THEN "starting" ELSE @]]
  OBVIOUS
<1>24. over \in BOOLEAN /\ halt \in 1..(NServers + 1)
  BY <1>2
<1> HIDE DEF walked
<1>14. IsWalked(walked, R, W, over, halt, got)
  BY <1>11, <1>23, <1>24, WalkedRuns
<1>15. changed \in SUBSET Mcp!Servers
  OBVIOUS
<1>21. \A s \in Mcp!Servers \ changed : cache'[s] = cache[s]
  BY <1>3
<1> HIDE DEF changed
<1>25. walked \in [Mcp!Runs -> RunShape] /\ marked = Mcp!Missing(walked, W, changed)
  BY <1>14 DEF IsWalked
<1> HIDE DEF marked
<1>16. IsMissing(marked, walked, W, changed)
  BY <1>15, <1>25, MissingRuns
<1>17. rewritten \in BOOLEAN
  OBVIOUS
<1>18. "chat" \in Mcp!Runs /\ "task" \in Mcp!Runs
  BY DEF Mcp!Runs
<1>19. rewritten =
         (marked["chat"].rewritten \/ (writers # {} /\ "chat" \notin writers))
  OBVIOUS
<1> HIDE DEF rewritten
<1>20. IsRewritten(run', marked, rewritten)
  <2>1. run' = [marked EXCEPT !["chat"].rewritten = rewritten]
    BY <1>3
  <2>2. marked \in [Mcp!Runs -> RunShape]
    BY <1>16 DEF IsMissing
  <2> QED
    BY <1>17, <2>1, <2>2, Rewritten
(* What became of a run that walked, and of one that did not.              *)
<1>26. ASSUME NEW r \in Mcp!Runs, r \notin W
       PROVE  /\ run'[r].phase = run[r].phase /\ run'[r].owner = run[r].owner
              /\ run'[r].next = run[r].next /\ run'[r].got = run[r].got
              /\ run'[r].asked = run[r].asked
              /\ run'[r].source = run[r].source
              /\ run'[r].headers = run[r].headers
              /\ marked[r].rewritten = run[r].rewritten
              /\ run'[r].missed = IF run[r].phase = "preparing"
                                  THEN run[r].missed \cup (changed \cap Before(run[r].next))
                                  ELSE run[r].missed
  <2>1. walked[r] = run[r]
    BY <1>14, <1>26 DEF IsWalked
  <2>2. /\ marked[r].phase = walked[r].phase /\ marked[r].owner = walked[r].owner
        /\ marked[r].next = walked[r].next /\ marked[r].got = walked[r].got
        /\ marked[r].asked = walked[r].asked /\ marked[r].source = walked[r].source
        /\ marked[r].headers = walked[r].headers
        /\ marked[r].rewritten = walked[r].rewritten
        /\ marked[r].missed = IF r \notin W /\ walked[r].phase = "preparing"
                              THEN walked[r].missed \cup (changed \cap Before(walked[r].next))
                              ELSE walked[r].missed
    BY <1>16 DEF IsMissing
  <2>3. /\ run'[r].phase = marked[r].phase /\ run'[r].owner = marked[r].owner
        /\ run'[r].next = marked[r].next /\ run'[r].got = marked[r].got
        /\ run'[r].asked = marked[r].asked /\ run'[r].missed = marked[r].missed
        /\ run'[r].source = marked[r].source /\ run'[r].headers = marked[r].headers
    BY <1>20 DEF IsRewritten
  <2> QED
    BY <1>26, <2>1, <2>2, <2>3
<1>27. ASSUME NEW r \in W
       PROVE  /\ over => run'[r].phase \in {"starting", "off"}
              /\ ~over => run'[r].phase = "preparing"
              /\ run'[r].phase # "off" =>
                   /\ run'[r].owner = owner /\ run'[r].next = halt
                   /\ run'[r].got = got[r] /\ run'[r].asked = R[r].asked
                   /\ run'[r].missed = R[r].missed
  <2>1. r \in Mcp!Runs /\ R[r].phase = "preparing" /\ R[r].owner = owner
    OBVIOUS
  <2>2. run'[r].phase = walked[r].phase /\ run'[r].owner = walked[r].owner
        /\ run'[r].next = walked[r].next /\ run'[r].got = walked[r].got
        /\ run'[r].asked = walked[r].asked /\ run'[r].missed = walked[r].missed
    <3>1. /\ marked[r].phase = walked[r].phase /\ marked[r].owner = walked[r].owner
          /\ marked[r].next = walked[r].next /\ marked[r].got = walked[r].got
          /\ marked[r].asked = walked[r].asked /\ marked[r].source = walked[r].source
          /\ marked[r].headers = walked[r].headers
          /\ marked[r].rewritten = walked[r].rewritten
          /\ marked[r].missed = IF r \notin W /\ walked[r].phase = "preparing"
                                THEN walked[r].missed \cup (changed \cap Before(walked[r].next))
                                ELSE walked[r].missed
      BY <1>16, <2>1 DEF IsMissing
    <3>2. /\ run'[r].phase = marked[r].phase /\ run'[r].owner = marked[r].owner
          /\ run'[r].next = marked[r].next /\ run'[r].got = marked[r].got
          /\ run'[r].asked = marked[r].asked /\ run'[r].missed = marked[r].missed
          /\ run'[r].source = marked[r].source /\ run'[r].headers = marked[r].headers
      BY <1>20, <2>1 DEF IsRewritten
    <3> QED
      BY <3>1, <3>2
  <2>3. CASE over /\ r = "task"
    BY <1>14, <2>1, <2>2, <2>3 DEF IsWalked
  <2>4. CASE ~(over /\ r = "task")
    BY <1>14, <2>1, <2>2, <2>4 DEF IsWalked
  <2> QED
    BY <2>3, <2>4
<1>28. \A s \in Mcp!Servers : (Mcp!Valid(s))' <=> after[s].token # 0 /\ after[s].fresh
  BY <1>3 DEF Mcp!Valid
<1>29. /\ Mcp!Older(changed) \in FileShape
       /\ Mcp!Older(changed).headers = mcpFile.headers
       /\ Mcp!Older(changed).source = mcpFile.source
       /\ Mcp!Older(changed).missed = mcpFile.missed
       /\ Mcp!Older(changed).newer => changed = {} /\ mcpFile.newer
       /\ Mcp!Older(changed).there = mcpFile.there
  BY <1>1 DEF Mcp!Older, Shapes, FileShape
<1>30. PICK w : writers # {} =>
         /\ w \in W /\ over
         /\ mcpFile' = [ there |-> TRUE, headers |-> got[w],
                         source |-> R[w].source, missed |-> R[w].missed,
                         newer |-> TRUE ]
  <2>1. CASE writers # {}
    <3> DEFINE x == CHOOSE x \in writers : TRUE
    <3>1. x \in writers
      BY <2>1
    <3>2. mcpFile' = [ there |-> TRUE, headers |-> Got(x),
                       source |-> R[x].source, missed |-> R[x].missed,
                       newer |-> TRUE ]
      BY <1>3, <2>1
    <3> HIDE DEF x
    <3>3. x \in W /\ over
      BY <3>1
    <3>4. Got(x) = got[x]
      BY <3>3 DEF got
    <3> QED
      BY <3>2, <3>3, <3>4
  <2>2. CASE writers = {}
    BY <2>2
  <2> QED
    BY <2>1, <2>2
<1>31. Shapes'
  <2>1. mcpFile' \in FileShape
    <3>1. CASE writers = {}
      BY <1>3, <1>29, <3>1
    <3>2. CASE writers # {}
      <4>1. R[w] \in RunShape /\ got[w] \in Tokens
        BY <1>11, <1>30, <3>2
      <4>2. R[w].source \in Nat /\ R[w].missed \in SUBSET Mcp!Servers
        BY <4>1 DEF RunShape
      <4> QED
        BY <1>30, <3>2, <4>1, <4>2, WrittenFile
    <3> QED
      BY <3>1, <3>2
  <2>2. source' \in Nat
    BY <1>1 DEF Shapes
  <2>3. run' \in [Mcp!Runs -> RunShape]
    BY <1>20 DEF IsRewritten
  <2>4. cache' \in [Mcp!Servers -> Entry]
    BY <1>3, <1>7
  <2> QED
    BY <2>1, <2>2, <2>3, <2>4 DEF Shapes
<1>32. (Mcp!OwnerAsked)'
  <2> SUFFICES ASSUME NEW s \in Mcp!Servers,
                      run'["chat"].phase \in {"preparing", "starting"},
                      run'["chat"].owner, s < run'["chat"].next
               PROVE  run'["chat"].got[s] # 0 \/ s \in run'["chat"].asked
    BY DEF Mcp!OwnerAsked
  <2>1. CASE "chat" \in W
    <3>1. owner /\ s \in Before(halt)
      BY <1>27, <2>1 DEF Before
    <3>2. got["chat"][s] # 0 \/ s \in R["chat"].asked
      BY <1>13, <2>1, <3>1
    <3> QED
      BY <1>27, <2>1, <3>2
  <2>2. CASE "chat" \notin W
    BY <1>18, <1>26, <2>2 DEF TokensInv, Mcp!OwnerAsked
  <2> QED
    BY <2>1, <2>2
<1>33. ASSUME NEW r \in Mcp!Runs, run'[r].phase = "preparing",
              NEW s \in Before(run'[r].next) \ run'[r].missed, (Mcp!Valid(s))'
       PROVE  run'[r].got[s] = cache'[s].token
  <2>1. s \in Mcp!Servers
    BY DEF Before
  <2>2. CASE r \in W
    <3>1. s \in Before(halt) \ R[r].missed /\ run'[r].got = got[r]
      BY <1>27, <1>33, <2>2
    <3> QED
      BY <1>3, <1>12, <1>28, <1>33, <2>1, <2>2, <3>1
  <2>3. CASE r \notin W
    <3>1. /\ s \in Before(run[r].next) /\ s \notin run[r].missed /\ s \notin changed
          /\ run[r].phase = "preparing" /\ run'[r].got = run[r].got
      BY <1>26, <1>33, <2>3, ZenonT(40)
    <3>2. cache'[s] = cache[s]
      BY <1>21, <2>1, <3>1
    <3>3. Mcp!Valid(s)
      BY <1>33, <3>2 DEF Mcp!Valid
    <3>4. run[r].got[s] = cache[s].token
      BY <3>1, <3>3 DEF TokensInv, Current
    <3> QED
      BY <3>1, <3>2, <3>4
  <2> QED
    BY <2>2, <2>3
<1>34. ASSUME mcpFile'.there, mcpFile'.newer,
              NEW s \in Mcp!Servers \ mcpFile'.missed, (Mcp!Valid(s))'
       PROVE  mcpFile'.headers[s] = cache'[s].token
  <2>1. CASE writers = {}
    <3>1. changed = {} /\ mcpFile.newer /\ mcpFile.there /\ s \notin mcpFile.missed
          /\ mcpFile'.headers = mcpFile.headers
      BY <1>3, <1>29, <1>34, <2>1
    <3>2. cache'[s] = cache[s]
      BY <1>21, <3>1
    <3>3. Mcp!Valid(s)
      BY <1>34, <3>2 DEF Mcp!Valid
    <3>4. mcpFile.headers[s] = cache[s].token
      BY <3>1, <3>3 DEF TokensInv, Current
    <3> QED
      BY <3>1, <3>2, <3>4
  <2>2. CASE writers # {}
    <3>1. w \in W /\ over /\ mcpFile'.headers = got[w] /\ s \notin R[w].missed
      BY <1>30, <1>34, <2>2
    <3>2. s \in Before(halt)
      BY <1>1, <1>2, <3>1 DEF Before, over
    <3> QED
      BY <1>3, <1>12, <1>28, <1>34, <3>1, <3>2
  <2> QED
    BY <2>1, <2>2
<1>35. ASSUME place'.sandbox, run'["chat"].phase \in {"busy", "idle"},
              ~run'["chat"].rewritten
       PROVE  /\ run'["chat"].headers = mcpFile'.headers
              /\ run'["chat"].source = mcpFile'.source
              /\ run'["chat"].missed = mcpFile'.missed
  <2>1. "chat" \notin W
    BY <1>27, <1>35
  <2>2. ~rewritten
    BY <1>20, <1>35 DEF IsRewritten
  <2>3. writers = {}
    BY <1>19, <2>1, <2>2
  <2>4. /\ run["chat"].phase \in {"busy", "idle"} /\ ~run["chat"].rewritten
        /\ run'["chat"].headers = run["chat"].headers
        /\ run'["chat"].source = run["chat"].source
        /\ run'["chat"].missed = run["chat"].missed
    BY <1>18, <1>19, <1>26, <1>35, <2>1, <2>2
  <2> QED
    BY <1>3, <1>29, <1>35, <2>3, <2>4 DEF TokensInv
<1>36. TokensInv'
  BY <1>31, <1>32, <1>33, <1>34, <1>35 DEF TokensInv, Current
<1>37. ASSUME NEW s \in Mcp!Servers PROVE cache'[s].token >= cache[s].token
  <2>1. cache[s].token \in Nat /\ after[s].token \in Nat
    BY <1>5, <1>7 DEF Entry
  <2> QED
    BY <1>3, <1>8, <2>1
<1>38. run["chat"].phase = "idle" => run'["chat"].phase # "busy"
  BY <1>18, <1>26, <1>27
<1> QED
  BY <1>36, <1>37, <1>38 DEF OlderStep, HeadersStep


LEMMA StartStep ==
  ASSUME TokensInv, NEW r \in Mcp!Runs, NEW owner \in BOOLEAN, NEW az \in BOOLEAN,
         Mcp!Start(r, owner, az)
  PROVE  TokensInv' /\ OlderStep /\ HeadersStep
<1> DEFINE x == [Mcp!Off EXCEPT !.phase = "preparing", !.owner = owner,
                                !.source = source]
           R == [run EXCEPT ![r] = x]
<1>1. /\ Mcp!Walk({r}, R, 1, owner, az, cache, acquiring)
      /\ UNCHANGED <<place, source>>
  BY DEF Mcp!Start
<1>2. /\ cache \in [Mcp!Servers -> Entry] /\ run \in [Mcp!Runs -> RunShape]
      /\ source \in Nat
  BY DEF TokensInv, Shapes
<1>3. x \in RunShape /\ x.phase = "preparing" /\ x.owner = owner
  <2>1. Mcp!Off \in RunShape
    BY OffShape
  <2> QED
    BY <1>2, <2>1 DEF RunShape
<1> HIDE DEF x
<1>4. /\ R \in [Mcp!Runs -> RunShape]
      /\ R[r] = x /\ \A q \in Mcp!Runs \ {r} : R[q] = run[q]
  BY <1>2, <1>3
<1> HIDE DEF R
<1>5. 1 \in 1..(NServers + 1) /\ Before(1) = {}
  BY UpkeepAssumption DEF Before, Mcp!Servers
<1>6. {r} \in SUBSET Mcp!Runs
  OBVIOUS
<1>7. Walkable({r}, R, 1, owner, cache)
  BY <1>2, <1>3, <1>4, <1>5, <1>6 DEF Walkable
<1> QED
  BY <1>1, <1>7, WalkStep

(* An acquisition of s is over with this token, or none, and the cache is  *)
(* C now: whoever waits takes it if it is good, and an owner's was asked   *)
(* for if there is none.                                                   *)
Answered(s, owner, token, asked, C) ==
  /\ token \in Nat /\ asked \in SUBSET Mcp!Servers
  /\ C \in [Mcp!Servers -> Entry]
  /\ \A x \in Mcp!Servers \ {s} : C[x] = cache[x]
  /\ C[s] # cache[s] => C[s].token > cache[s].token
  /\ C[s].token # 0 /\ C[s].fresh =>
       token = C[s].token \/ (token = 0 /\ Mcp!Valid(s))
  /\ owner => token # 0 \/ s \in asked

LEMMA OverStep ==
  ASSUME TokensInv, UNCHANGED <<place, source>>,
         NEW s \in Mcp!Servers, NEW owner \in BOOLEAN, NEW az \in BOOLEAN,
         NEW token, NEW asked, NEW C, Answered(s, owner, token, asked, C),
         Mcp!Over(s, owner, az, token, asked, C)
  PROVE  TokensInv' /\ OlderStep /\ HeadersStep
<1>0. /\ token \in Nat /\ asked \in SUBSET Mcp!Servers
      /\ C \in [Mcp!Servers -> Entry]
      /\ \A x \in Mcp!Servers \ {s} : C[x] = cache[x]
      /\ C[s] # cache[s] => C[s].token > cache[s].token
      /\ C[s].token # 0 /\ C[s].fresh =>
           token = C[s].token \/ (token = 0 /\ Mcp!Valid(s))
      /\ owner => token # 0 \/ s \in asked
  BY DEF Answered
<1> USE <1>0
<1> DEFINE W == Mcp!Waiters(s, owner)
           got(r) == [run[r].got EXCEPT ![s] = token]
           missed(r) == IF token = 0 /\ Mcp!Valid(s)
                        THEN run[r].missed \cup {s} ELSE run[r].missed
           asked2(r) == run[r].asked \cup asked
           R == [r \in Mcp!Runs |->
                   IF r \in W
                   THEN [run[r] EXCEPT !.got = got(r), !.asked = asked2(r),
                                       !.missed = missed(r)]
                   ELSE run[r]]
           A == [acquiring EXCEPT ![s][owner] = Mcp!NotAcquiring]
<1>1. Mcp!Walk(W, R, s + 1, owner, az, C, A)
  <2>1. R = [r \in Mcp!Runs |->
              IF r \in W
              THEN [run[r] EXCEPT !.got[s] = token, !.asked = @ \cup asked,
                                  !.missed = IF token = 0 /\ Mcp!Valid(s)
                                             THEN @ \cup {s} ELSE @]
              ELSE run[r]]
    OBVIOUS
  <2> QED
    BY <2>1 DEF Mcp!Over
<1>2. /\ cache \in [Mcp!Servers -> Entry] /\ run \in [Mcp!Runs -> RunShape]
      /\ \A x \in Mcp!Servers : x \in Nat
      /\ s + 1 \in 1..(NServers + 1)
  BY UpkeepAssumption DEF TokensInv, Shapes, Mcp!Servers
<1>3. /\ W \in SUBSET Mcp!Runs
      /\ \A r \in W : run[r].phase = "preparing" /\ run[r].next = s
                      /\ run[r].owner = owner
  BY DEF Mcp!Waiters, Mcp!Key
<1> HIDE DEF W, A
<1>4. ASSUME NEW r \in Mcp!Runs
      PROVE  /\ got(r) \in Tokens /\ missed(r) \in SUBSET Mcp!Servers
             /\ asked2(r) \in SUBSET Mcp!Servers
             /\ got(r)[s] = token
             /\ \A x \in Mcp!Servers \ {s} : got(r)[x] = run[r].got[x]
             /\ run[r].missed \subseteq missed(r)
             /\ token = 0 /\ Mcp!Valid(s) => s \in missed(r)
             /\ run[r].asked \subseteq asked2(r) /\ asked \subseteq asked2(r)
  <2>1. run[r].got \in [Mcp!Servers -> Nat] /\ run[r].missed \in SUBSET Mcp!Servers
        /\ run[r].asked \in SUBSET Mcp!Servers
    BY <1>2 DEF RunShape, Tokens
  <2> QED
    BY <2>1 DEF Tokens
<1> HIDE DEF got, missed, asked2
<1>5. ASSUME NEW r \in Mcp!Runs
      PROVE  /\ R[r] \in RunShape
             /\ r \notin W => R[r] = run[r]
             /\ r \in W => /\ R[r].phase = run[r].phase /\ R[r].owner = run[r].owner
                           /\ R[r].got = got(r) /\ R[r].missed = missed(r)
                           /\ R[r].asked = asked2(r)
  <2>1. run[r] \in RunShape
    BY <1>2
  <2>2. CASE r \in W
    <3>1. R[r] = [run[r] EXCEPT !.got = got(r), !.asked = asked2(r),
                                !.missed = missed(r)]
      BY <2>2
    <3> QED
      BY <1>4, <2>1, <2>2, <3>1 DEF RunShape
  <2>3. CASE r \notin W
    BY <2>1, <2>3
  <2> QED
    BY <2>2, <2>3
<1>6. R \in [Mcp!Runs -> RunShape]
  <2>1. \A r \in Mcp!Runs : R[r] \in RunShape
    BY <1>5
  <2> QED
    BY <2>1
<1> HIDE DEF R
<1>7. \A x \in Mcp!Servers : x >= s + 1 => C[x] = cache[x]
  BY <1>2
<1>8. \A x \in Mcp!Servers : C[x] # cache[x] => C[x].token > cache[x].token
  OBVIOUS
<1>9. \A r \in W : R[r].phase = "preparing" /\ R[r].owner = owner
  BY <1>3, <1>5
<1>10. \A r \in Mcp!Runs \ W : R[r] = run[r]
  BY <1>5
<1>11. \A x \in Before(s + 1) : x \in Mcp!Servers /\ (x # s => x \in Before(s))
  BY <1>2 DEF Before
<1>12. ASSUME NEW r \in W, NEW x \in Before(s + 1) \ R[r].missed,
              C[x].token # 0, C[x].fresh
       PROVE  R[r].got[x] = C[x].token
  <2>1. r \in Mcp!Runs /\ R[r].got = got(r) /\ R[r].missed = missed(r)
    BY <1>3, <1>5
  <2>2. CASE x = s
    BY <1>4, <1>12, <2>1, <2>2
  <2>3. CASE x # s
    <3>1. x \in Before(s) /\ x \in Mcp!Servers /\ x \notin run[r].missed
      BY <1>4, <1>11, <2>1, <2>3
    <3>2. C[x] = cache[x] /\ Mcp!Valid(x)
      BY <1>12, <2>3, <3>1 DEF Mcp!Valid
    <3>3. run[r].got[x] = cache[x].token
      BY <1>3, <2>1, <3>1, <3>2 DEF TokensInv, Current
    <3> QED
      BY <1>4, <2>1, <2>3, <3>1, <3>2, <3>3
  <2> QED
    BY <2>2, <2>3
<1>13. ASSUME "chat" \in W, owner, NEW x \in Before(s + 1)
       PROVE  R["chat"].got[x] # 0 \/ x \in R["chat"].asked
  <2>1. "chat" \in Mcp!Runs /\ R["chat"].got = got("chat")
        /\ R["chat"].asked = asked2("chat")
    BY <1>3, <1>5, <1>13
  <2>2. CASE x = s
    BY <1>4, <1>13, <2>1, <2>2
  <2>3. CASE x # s
    <3>1. x \in Mcp!Servers /\ x < s
      BY <1>11, <2>3 DEF Before
    <3>2. run["chat"].phase = "preparing" /\ run["chat"].owner /\ run["chat"].next = s
      BY <1>3, <1>13
    <3>3. run["chat"].got[x] # 0 \/ x \in run["chat"].asked
      BY <3>1, <3>2 DEF TokensInv, Mcp!OwnerAsked
    <3> QED
      BY <1>4, <2>1, <2>3, <3>1, <3>3
  <2> QED
    BY <2>2, <2>3
<1>14. \A r \in W : \A x \in Before(s + 1) \ R[r].missed :
         C[x].token # 0 /\ C[x].fresh => R[r].got[x] = C[x].token
  BY <1>12
<1>15. "chat" \in W /\ owner =>
         \A x \in Before(s + 1) : R["chat"].got[x] # 0 \/ x \in R["chat"].asked
  BY <1>13
<1>16. Walkable(W, R, s + 1, owner, C)
  BY <1>2, <1>3, <1>6, <1>7, <1>8, <1>9, <1>10, <1>14, <1>15 DEF Walkable
<1> QED
  BY <1>1, <1>16, WalkStep
(* A new token of s.                                                       *)
LEMMA NewToken ==
  ASSUME Shapes, NEW s \in Mcp!Servers, NEW refresh \in BOOLEAN
  PROVE  /\ Mcp!Issued(s, refresh) \in Entry /\ cache[s].token \in Nat
         /\ Mcp!Issued(s, refresh).token = cache[s].token + 1
         /\ Mcp!Issued(s, refresh).fresh
<1>1. cache[s].token \in Nat
  BY DEF Shapes, Entry
<1> QED
  BY <1>1 DEF Mcp!Issued, Entry

(* It ends an acquisition.                                                 *)
LEMMA SavedStep ==
  ASSUME TokensInv, UNCHANGED <<place, source>>,
         NEW s \in Mcp!Servers, NEW owner \in BOOLEAN, NEW az \in BOOLEAN,
         NEW refresh \in BOOLEAN, NEW e, e = Mcp!Issued(s, refresh),
         Mcp!Over(s, owner, az, e.token, {}, Mcp!Saved(s, owner, e))
  PROVE  TokensInv' /\ OlderStep /\ HeadersStep
<1> DEFINE C == Mcp!Saved(s, owner, e)
           token == e.token
<1>1. C = [cache EXCEPT ![s] = e]
  BY DEF Mcp!Saved
<1>2. Mcp!Over(s, owner, az, token, {}, C)
  OBVIOUS
<1> HIDE DEF C
<1>0. Shapes
  BY DEF TokensInv
<1>3. /\ C \in [Mcp!Servers -> Entry] /\ C[s] = e
      /\ \A x \in Mcp!Servers \ {s} : C[x] = cache[x]
      /\ cache[s].token \in Nat /\ e.token \in Nat
      /\ e.token = cache[s].token + 1 /\ e.fresh
  <2>1. e \in Entry /\ e.token = cache[s].token + 1 /\ e.fresh
        /\ cache[s].token \in Nat
    BY <1>0, NewToken
  <2> QED
    BY <1>0, <1>1, <2>1 DEF Shapes
<1>4. Answered(s, owner, token, {}, C)
  BY <1>3 DEF Answered
<1> HIDE DEF token
<1> QED
  BY <1>2, <1>4, OverStep

(* An acquisition ends without a token: a background one, or the owner's   *)
(* after a device code was requested.                                      *)
LEMMA NoToken ==
  ASSUME TokensInv, UNCHANGED <<place, source>>,
         NEW s \in Mcp!Servers, NEW owner \in BOOLEAN, NEW az \in BOOLEAN,
         NEW asked \in SUBSET Mcp!Servers, owner => s \in asked,
         Mcp!Over(s, owner, az, 0, asked, cache)
  PROVE  TokensInv' /\ OlderStep /\ HeadersStep
<1>1. cache \in [Mcp!Servers -> Entry]
  BY DEF TokensInv, Shapes
<1>2. Answered(s, owner, 0, asked, cache)
  BY <1>1 DEF Answered, Mcp!Valid
<1> QED
  BY <1>2, OverStep

LEMMA AcquisitionStep ==
  ASSUME TokensInv, NEW s \in Mcp!Servers, NEW owner \in BOOLEAN,
         NEW az \in BOOLEAN,
         \/ Mcp!Refreshed(s, owner, az)
         \/ Mcp!RefreshFails(s, owner, az)
         \/ Mcp!DeviceFails(s, az)
  PROVE  TokensInv' /\ OlderStep /\ HeadersStep
<1>1. CASE Mcp!Refreshed(s, owner, az)
  <2>1. UNCHANGED <<place, source>> /\ TRUE \in BOOLEAN
    BY <1>1 DEF Mcp!Refreshed
  <2>2. PICK e : /\ e = Mcp!Issued(s, TRUE)
                 /\ Mcp!Over(s, owner, az, e.token, {}, Mcp!Saved(s, owner, e))
    BY <1>1 DEF Mcp!Refreshed
  <2> QED
    BY <2>1, <2>2, SavedStep
<1>2. CASE Mcp!RefreshFails(s, owner, az)
  <2>1. UNCHANGED <<place, source>> /\ FALSE \in BOOLEAN
    BY <1>2 DEF Mcp!RefreshFails
  <2>2. CASE az
    <3>1. PICK e : /\ e = Mcp!Issued(s, FALSE)
                   /\ Mcp!Over(s, owner, az, e.token, {}, Mcp!Saved(s, owner, e))
      BY <1>2, <2>2 DEF Mcp!RefreshFails
    <3> QED
      BY <2>1, <3>1, SavedStep
  <2>3. CASE ~az /\ ~owner
    <3>1. Mcp!Over(s, owner, az, 0, {}, cache)
      BY <1>2, <2>3 DEF Mcp!RefreshFails
    <3>2. (owner => s \in {}) /\ {} \in SUBSET Mcp!Servers
      BY <2>3
    <3> QED
      BY <2>1, <3>1, <3>2, NoToken
  <2>4. CASE ~az /\ owner
    <3>1. UNCHANGED <<place, cache, run, mcpFile, source>>
      BY <1>2, <2>4 DEF Mcp!RefreshFails
    <3>2. \A x \in Mcp!Servers : cache[x].token \in Nat
      BY DEF TokensInv, Shapes, Entry
    <3> QED
      BY <3>1, <3>2 DEF TokensInv, Shapes, Mcp!OwnerAsked, Current, Mcp!Valid,
         OlderStep, HeadersStep, Before
  <2> QED
    BY <2>2, <2>3, <2>4
<1>3. CASE Mcp!DeviceFails(s, az)
  <2>1. UNCHANGED <<place, source>> /\ Mcp!Over(s, TRUE, az, 0, {s}, cache)
    BY <1>3 DEF Mcp!DeviceFails
  <2>2. TRUE \in BOOLEAN /\ (TRUE => s \in {s}) /\ {s} \in SUBSET Mcp!Servers
    OBVIOUS
  <2> QED
    BY <2>1, <2>2, NoToken
<1> QED
  BY <1>1, <1>2, <1>3
(* An agent that starts now has what mcp.json says.                        *)
LEMMA ReadsFile ==
  ASSUME Shapes
  PROVE  /\ Mcp!Reading \in RunShape /\ Mcp!Reading.phase = "busy"
         /\ Mcp!Reading.headers = mcpFile.headers
         /\ Mcp!Reading.source = mcpFile.source
         /\ Mcp!Reading.missed = mcpFile.missed
<1>1. Mcp!Off \in RunShape
  BY OffShape
<1>2. /\ mcpFile.headers \in Tokens /\ mcpFile.source \in Nat
      /\ mcpFile.missed \in SUBSET Mcp!Servers
  BY DEF Shapes, FileShape
<1>3. Mcp!Reading = [Mcp!Off EXCEPT !.phase = "busy", !.headers = mcpFile.headers,
                                     !.source = mcpFile.source,
                                     !.missed = mcpFile.missed]
  BY DEF Mcp!Reading
<1> QED
  BY <1>1, <1>2, <1>3 DEF RunShape

(* One run changes, to x, which is not preparing.                          *)
LEMMA RunStep ==
  ASSUME TokensInv, NEW r \in Mcp!Runs, NEW x \in RunShape,
         UNCHANGED <<place, cache, mcpFile, source>>,
         run' = [run EXCEPT ![r] = x],
         x.phase \notin {"preparing", "starting"},
         r = "chat" /\ place.sandbox /\ x.phase \in {"busy", "idle"} /\ ~x.rewritten =>
           /\ x.headers = mcpFile.headers
           /\ x.source = mcpFile.source
           /\ x.missed = mcpFile.missed
  PROVE  TokensInv' /\ OlderStep
<1>1. /\ run \in [Mcp!Runs -> RunShape] /\ cache \in [Mcp!Servers -> Entry]
      /\ "chat" \in Mcp!Runs
  BY DEF TokensInv, Shapes, Mcp!Runs
<1>2. run' \in [Mcp!Runs -> RunShape]
  BY <1>1
<1>3. run'[r] = x /\ \A q \in Mcp!Runs \ {r} : run'[q] = run[q]
  BY <1>1
<1>4. Shapes'
  BY <1>2 DEF TokensInv, Shapes
<1>5. (Mcp!OwnerAsked)'
  <2>1. CASE r = "chat"
    BY <1>3, <2>1 DEF Mcp!OwnerAsked
  <2>2. CASE r # "chat"
    BY <1>1, <1>3, <2>2 DEF TokensInv, Mcp!OwnerAsked
  <2> QED
    BY <2>1, <2>2
<1>6. ASSUME NEW q \in Mcp!Runs, run'[q].phase = "preparing"
      PROVE  Current(run[q].got, run[q].missed, Before(run[q].next))'
  <2>1. q # r /\ run'[q] = run[q]
    BY <1>3, <1>6
  <2>2. Current(run[q].got, run[q].missed, Before(run[q].next))
    BY <1>6, <2>1 DEF TokensInv
  <2> QED
    BY <2>1, <2>2 DEF Current, Mcp!Valid, Before
<1>7. mcpFile'.there /\ mcpFile'.newer =>
        Current(mcpFile.headers, mcpFile.missed, Mcp!Servers)'
  BY DEF TokensInv, Current, Mcp!Valid
<1>8. place'.sandbox /\ run'["chat"].phase \in {"busy", "idle"}
        /\ ~run'["chat"].rewritten =>
        /\ run'["chat"].headers = mcpFile'.headers
        /\ run'["chat"].source = mcpFile'.source
        /\ run'["chat"].missed = mcpFile'.missed
  <2>1. CASE r = "chat"
    BY <1>3, <2>1
  <2>2. CASE r # "chat"
    BY <1>1, <1>3, <2>2 DEF TokensInv
  <2> QED
    BY <2>1, <2>2
<1>9. OlderStep
  <2>1. \A s \in Mcp!Servers : cache[s].token \in Nat
    BY <1>1 DEF Entry
  <2> QED
    BY <2>1 DEF OlderStep
<1>10. \A q \in Mcp!Runs : run'[q].phase = "preparing" =>
          Current(run[q].got, run[q].missed, Before(run[q].next))'
  BY <1>6
<1> QED
  BY <1>4, <1>5, <1>7, <1>8, <1>9, <1>10 DEF TokensInv

LEMMA BootStep ==
  ASSUME TokensInv, Mcp!Boot
  PROVE  TokensInv' /\ OlderStep /\ HeadersStep
<1> DEFINE x == Mcp!Reading
<1>1. /\ x \in RunShape /\ x.phase = "busy"
      /\ x.headers = mcpFile.headers /\ x.source = mcpFile.source
      /\ x.missed = mcpFile.missed
  BY ReadsFile DEF TokensInv
<1>2. /\ run["chat"].phase = "starting" /\ run' = [run EXCEPT !["chat"] = x]
      /\ UNCHANGED <<place, cache, mcpFile, source>> /\ "chat" \in Mcp!Runs
  BY DEF Mcp!Boot, Mcp!Runs
<1> HIDE DEF x
<1>3. TokensInv' /\ OlderStep
  BY <1>1, <1>2, RunStep
<1> QED
  BY <1>2, <1>3 DEF HeadersStep

LEMMA QueryOverStep ==
  ASSUME TokensInv, Mcp!QueryOver
  PROVE  TokensInv' /\ OlderStep /\ HeadersStep
<1> DEFINE x == [run["chat"] EXCEPT !.phase = "idle"]
<1>1. /\ run["chat"].phase = "busy" /\ run' = [run EXCEPT !["chat"] = x]
      /\ UNCHANGED <<place, cache, mcpFile, source>> /\ "chat" \in Mcp!Runs
  BY DEF Mcp!QueryOver, Mcp!Runs
<1>2. run["chat"] \in RunShape
  BY <1>1 DEF TokensInv, Shapes
<1>3. /\ x \in RunShape /\ x.phase = "idle" /\ x.headers = run["chat"].headers
      /\ x.source = run["chat"].source /\ x.missed = run["chat"].missed
      /\ x.rewritten = run["chat"].rewritten
  BY <1>2 DEF RunShape
<1> HIDE DEF x
<1>4. "chat" = "chat" /\ place.sandbox /\ x.phase \in {"busy", "idle"} /\ ~x.rewritten =>
        /\ x.headers = mcpFile.headers
        /\ x.source = mcpFile.source
        /\ x.missed = mcpFile.missed
  BY <1>1, <1>3 DEF TokensInv
<1>5. TokensInv' /\ OlderStep
  BY <1>1, <1>3, <1>4, RunStep
<1> QED
  BY <1>1, <1>5 DEF HeadersStep

LEMMA RecycleStep ==
  ASSUME TokensInv, Mcp!Recycle
  PROVE  TokensInv' /\ OlderStep /\ HeadersStep
<1> DEFINE x == [Mcp!Off EXCEPT !.phase = "killed"]
<1>1. /\ run["chat"].phase = "idle" /\ run' = [run EXCEPT !["chat"] = x]
      /\ UNCHANGED <<place, cache, mcpFile, source>> /\ "chat" \in Mcp!Runs
  BY DEF Mcp!Recycle, Mcp!Runs
<1>2. x \in RunShape /\ x.phase = "killed"
  <2>1. Mcp!Off \in RunShape
    BY OffShape
  <2> QED
    BY <2>1 DEF RunShape
<1> HIDE DEF x
<1>3. TokensInv' /\ OlderStep
  BY <1>1, <1>2, RunStep
<1>4. run'["chat"] = x
  BY <1>1 DEF TokensInv, Shapes
<1> QED
  BY <1>2, <1>3, <1>4 DEF HeadersStep

LEMMA ExitStep ==
  ASSUME TokensInv, NEW r \in Mcp!Runs, Mcp!Exit(r)
  PROVE  TokensInv' /\ OlderStep /\ HeadersStep
<1> DEFINE x == Mcp!Off
<1>1. /\ run' = [run EXCEPT ![r] = x]
      /\ UNCHANGED <<place, cache, mcpFile, source>>
  BY DEF Mcp!Exit
<1>2. x \in RunShape /\ x.phase = "off"
  BY OffShape
<1> HIDE DEF x
<1>3. TokensInv' /\ OlderStep
  BY <1>1, <1>2, RunStep
<1>4. run["chat"].phase = "idle" => run'["chat"].phase # "busy"
  BY <1>1, <1>2 DEF TokensInv, Shapes, Mcp!Runs
<1> QED
  BY <1>3, <1>4 DEF HeadersStep

(* A message for an idle agent: its mcp.json is newer than the cache.      *)
LEMMA PipeStep ==
  ASSUME TokensInv, Mcp!Pipe
  PROVE  TokensInv' /\ OlderStep /\ HeadersStep
<1>1. /\ run["chat"].phase = "idle" /\ "chat" \in Mcp!Runs
      /\ UNCHANGED <<place, cache, mcpFile, source>>
      /\ run \in [Mcp!Runs -> RunShape]
  BY DEF Mcp!Pipe, Mcp!Runs, TokensInv, Shapes
<1>2. /\ mcpFile.source = source
      /\ \A s \in Mcp!Servers \ mcpFile.missed :
           mcpFile.headers[s] = cache[s].token
  <2>1. /\ mcpFile.there /\ mcpFile.newer /\ mcpFile.source = source
        /\ \A s \in Mcp!Servers : Mcp!Valid(s)
    <3>1. ~Mcp!NeedsRefresh
      BY DEF Mcp!Pipe
    <3> QED
      BY <3>1 DEF Mcp!NeedsRefresh
  <2> QED
    BY <2>1 DEF TokensInv, Current
<1>3. CASE place.sandbox
  <2> DEFINE x == [run["chat"] EXCEPT !.phase = "busy"]
  <2>1. run' = [run EXCEPT !["chat"] = x]
    BY <1>3 DEF Mcp!Pipe
  <2>2. run["chat"] \in RunShape
    BY <1>1
  <2>3. /\ x \in RunShape /\ x.phase = "busy" /\ x.headers = run["chat"].headers
        /\ x.source = run["chat"].source /\ x.missed = run["chat"].missed
        /\ x.rewritten = run["chat"].rewritten
    BY <2>2 DEF RunShape
  <2> HIDE DEF x
  <2>4. "chat" = "chat" /\ place.sandbox /\ x.phase \in {"busy", "idle"} /\ ~x.rewritten =>
          /\ x.headers = mcpFile.headers
          /\ x.source = mcpFile.source
          /\ x.missed = mcpFile.missed
    BY <1>1, <2>3 DEF TokensInv
  <2>5. TokensInv' /\ OlderStep
    BY <1>1, <2>1, <2>3, <2>4, RunStep
  <2>6. run'["chat"] = x
    BY <1>1, <2>1
  <2>7. HeadersStep
    BY <1>2, <1>3, <2>3, <2>4, <2>6 DEF HeadersStep
  <2> QED
    BY <2>5, <2>7
<1>4. CASE ~place.sandbox
  <2> DEFINE x == Mcp!Reading
  <2>1. run' = [run EXCEPT !["chat"] = x]
    BY <1>4 DEF Mcp!Pipe
  <2>2. /\ x \in RunShape /\ x.phase = "busy"
        /\ x.headers = mcpFile.headers /\ x.source = mcpFile.source
        /\ x.missed = mcpFile.missed
    BY ReadsFile DEF TokensInv
  <2> HIDE DEF x
  <2>3. TokensInv' /\ OlderStep
    BY <1>1, <2>1, <2>2, RunStep
  <2>4. run'["chat"] = x
    BY <1>1, <2>1
  <2>5. HeadersStep
    BY <1>2, <2>2, <2>4 DEF HeadersStep
  <2> QED
    BY <2>3, <2>5
<1> QED
  BY <1>3, <1>4

(* Someone signs in: mcp.json is older than the cache now, and a run that  *)
(* has resolved the server already has missed the token.                   *)
LEMMA AuthorizeStep ==
  ASSUME TokensInv, NEW s \in Mcp!Servers, Mcp!Authorize(s)
  PROVE  TokensInv' /\ OlderStep /\ HeadersStep
<1> DEFINE e == Mcp!Issued(s, TRUE)
<1>1. /\ cache' = [cache EXCEPT ![s] = e] /\ run' = Mcp!Missing(run, {}, {s})
      /\ mcpFile' = Mcp!Older({s}) /\ UNCHANGED <<place, source>>
  BY DEF Mcp!Authorize
<1>2. Shapes /\ TRUE \in BOOLEAN
  BY DEF TokensInv
<1>3. e \in Entry /\ e.token = cache[s].token + 1 /\ e.fresh
      /\ cache[s].token \in Nat
  BY <1>2, NewToken
<1> HIDE DEF e
<1>4. /\ cache' \in [Mcp!Servers -> Entry] /\ cache'[s] = e
      /\ \A x \in Mcp!Servers \ {s} : cache'[x] = cache[x]
      /\ e.token \in Nat
  BY <1>1, <1>2, <1>3 DEF Shapes
<1>5. /\ run' \in [Mcp!Runs -> RunShape]
      /\ \A r \in Mcp!Runs :
           /\ run'[r].phase = run[r].phase /\ run'[r].owner = run[r].owner
           /\ run'[r].next = run[r].next /\ run'[r].got = run[r].got
           /\ run'[r].asked = run[r].asked /\ run'[r].rewritten = run[r].rewritten
           /\ run'[r].source = run[r].source /\ run'[r].headers = run[r].headers
           /\ run'[r].missed = IF run[r].phase = "preparing"
                               THEN run[r].missed \cup ({s} \cap Before(run[r].next))
                               ELSE run[r].missed
  <2> DEFINE G == Mcp!Missing(run, {}, {s})
  <2>1. G = Mcp!Missing(run, {}, {s}) /\ {s} \in SUBSET Mcp!Servers
        /\ run \in [Mcp!Runs -> RunShape]
    BY <1>2 DEF Shapes
  <2> HIDE DEF G
  <2>2. IsMissing(G, run, {}, {s})
    BY <2>1, MissingRuns
  <2>3. run' = G
    BY <1>1, <2>1
  <2> QED
    BY <2>2, <2>3 DEF IsMissing
<1>6. /\ mcpFile' \in FileShape /\ ~mcpFile'.newer
      /\ mcpFile'.headers = mcpFile.headers /\ mcpFile'.source = mcpFile.source
      /\ mcpFile'.missed = mcpFile.missed
  BY <1>1, <1>2 DEF Mcp!Older, Shapes, FileShape
<1>7. Shapes'
  BY <1>1, <1>2, <1>4, <1>5, <1>6 DEF Shapes
<1>8. "chat" \in Mcp!Runs
  BY DEF Mcp!Runs
<1>9. (Mcp!OwnerAsked)'
  BY <1>5, <1>8 DEF TokensInv, Mcp!OwnerAsked
<1>10. ASSUME NEW r \in Mcp!Runs, run'[r].phase = "preparing",
              NEW x \in Before(run'[r].next) \ run'[r].missed, (Mcp!Valid(x))'
       PROVE  run'[r].got[x] = cache'[x].token
  <2>1. /\ x \in Mcp!Servers \ {s} /\ run[r].phase = "preparing"
        /\ x \in Before(run[r].next) \ run[r].missed
        /\ run'[r].got = run[r].got
    BY <1>5, <1>10 DEF Before
  <2>2. cache'[x] = cache[x]
    BY <1>4, <2>1
  <2>3. Mcp!Valid(x)
    BY <1>10, <2>2 DEF Mcp!Valid
  <2>4. run[r].got[x] = cache[x].token
    BY <2>1, <2>3 DEF TokensInv, Current
  <2> QED
    BY <2>1, <2>2, <2>4
<1>11. place'.sandbox /\ run'["chat"].phase \in {"busy", "idle"}
         /\ ~run'["chat"].rewritten =>
         /\ run'["chat"].headers = mcpFile'.headers
         /\ run'["chat"].source = mcpFile'.source
         /\ run'["chat"].missed = mcpFile'.missed
  BY <1>1, <1>5, <1>6, <1>8 DEF TokensInv
<1>12. TokensInv'
  BY <1>6, <1>7, <1>9, <1>10, <1>11 DEF TokensInv, Current
<1>13. OlderStep
  <2>1. \A x \in Mcp!Servers : cache[x].token \in Nat
    BY <1>2 DEF Shapes, Entry
  <2> QED
    BY <1>3, <1>4, <2>1 DEF OlderStep
<1>14. HeadersStep
  BY <1>5, <1>8 DEF HeadersStep
<1> QED
  BY <1>12, <1>13, <1>14

(* No run and no mcp.json changes, and what the cache has good of s it had *)
(* before.                                                                 *)
LEMMA QuietStep ==
  ASSUME TokensInv, UNCHANGED <<place, run, mcpFile>>,
         cache' \in [Mcp!Servers -> Entry], source' \in Nat,
         \A s \in Mcp!Servers : cache'[s].token = cache[s].token,
         \A s \in Mcp!Servers : (Mcp!Valid(s))' => Mcp!Valid(s)
  PROVE  TokensInv' /\ OlderStep /\ HeadersStep
<1>1. /\ Shapes' /\ (Mcp!OwnerAsked)'
      /\ \A s \in Mcp!Servers : cache[s].token \in Nat
      /\ \A r \in Mcp!Runs : Before(run[r].next) \subseteq Mcp!Servers
  BY DEF TokensInv, Shapes, Mcp!OwnerAsked, Entry, Before
<1>2. ASSUME NEW r \in Mcp!Runs, run'[r].phase = "preparing",
             NEW s \in Before(run'[r].next) \ run'[r].missed, (Mcp!Valid(s))'
      PROVE  run'[r].got[s] = cache'[s].token
  <2>1. s \in Mcp!Servers
    BY DEF Before
  <2>2. run[r].got[s] = cache[s].token
    BY <1>2, <2>1 DEF TokensInv, Current
  <2> QED
    BY <2>1, <2>2
<1>3. ASSUME mcpFile'.there, mcpFile'.newer,
             NEW s \in Mcp!Servers \ mcpFile'.missed, (Mcp!Valid(s))'
      PROVE  mcpFile'.headers[s] = cache'[s].token
  BY <1>3 DEF TokensInv, Current
<1>4. TokensInv'
  BY <1>1, <1>2, <1>3 DEF TokensInv, Current
<1> QED
  BY <1>1, <1>4 DEF OlderStep, HeadersStep

LEMMA ComesNearStep ==
  ASSUME TokensInv, NEW s \in Mcp!Servers, Mcp!ComesNear(s)
  PROVE  TokensInv' /\ OlderStep /\ HeadersStep
<1> DEFINE e == [cache[s] EXCEPT !.fresh = FALSE]
<1>1. /\ cache' = [cache EXCEPT ![s] = e] /\ cache \in [Mcp!Servers -> Entry]
      /\ UNCHANGED <<place, run, mcpFile, source>> /\ source \in Nat
  BY DEF Mcp!ComesNear, TokensInv, Shapes
<1>2. e \in Entry /\ e.token = cache[s].token /\ ~e.fresh
  <2>1. cache[s] \in Entry
    BY <1>1
  <2> QED
    BY <2>1 DEF Entry
<1> HIDE DEF e
<1>3. cache' \in [Mcp!Servers -> Entry] /\ source' \in Nat
  BY <1>1, <1>2
<1>4. \A x \in Mcp!Servers : cache'[x].token = cache[x].token
  BY <1>1, <1>2
<1>5. \A x \in Mcp!Servers : (Mcp!Valid(x))' => Mcp!Valid(x)
  BY <1>1, <1>2 DEF Mcp!Valid
<1> QED
  BY <1>1, <1>3, <1>4, <1>5, QuietStep

LEMMA OtherStep ==
  ASSUME TokensInv, Mcp!Reconfigure \/ UNCHANGED Mcp!vars
  PROVE  TokensInv' /\ OlderStep /\ HeadersStep
<1>1. /\ UNCHANGED <<place, run, mcpFile, cache>>
      /\ source' = source \/ source' = source + 1
  BY DEF Mcp!Reconfigure, Mcp!vars
<1>2. cache \in [Mcp!Servers -> Entry] /\ source \in Nat
  BY DEF TokensInv, Shapes
<1>3. \A s \in Mcp!Servers : (Mcp!Valid(s))' => Mcp!Valid(s)
  BY <1>1 DEF Mcp!Valid
<1>4. cache' \in [Mcp!Servers -> Entry] /\ source' \in Nat
  BY <1>1, <1>2
<1>5. \A s \in Mcp!Servers : cache'[s].token = cache[s].token
  BY <1>1
<1>6. UNCHANGED <<place, run, mcpFile>>
  BY <1>1
<1> QED
  BY <1>3, <1>4, <1>5, <1>6, QuietStep

LEMMA TokensStep ==
  ASSUME TokensInv, [Mcp!Next]_(Mcp!vars)
  PROVE  TokensInv' /\ OlderStep /\ HeadersStep
<1>1. ASSUME NEW r \in Mcp!Runs, NEW owner \in BOOLEAN, NEW az \in BOOLEAN,
             Mcp!Start(r, owner, az)
      PROVE  TokensInv' /\ OlderStep /\ HeadersStep
  BY <1>1, StartStep
<1>2. ASSUME NEW s \in Mcp!Servers, NEW owner \in BOOLEAN, NEW az \in BOOLEAN,
             Mcp!Refreshed(s, owner, az) \/ Mcp!RefreshFails(s, owner, az)
      PROVE  TokensInv' /\ OlderStep /\ HeadersStep
  BY <1>2, AcquisitionStep
<1>3. ASSUME NEW s \in Mcp!Servers, NEW az \in BOOLEAN, Mcp!DeviceFails(s, az)
      PROVE  TokensInv' /\ OlderStep /\ HeadersStep
  <2>1. TRUE \in BOOLEAN
    OBVIOUS
  <2> QED
    BY <1>3, <2>1, AcquisitionStep
<1>4. ASSUME NEW r \in Mcp!Runs, Mcp!Exit(r)
      PROVE  TokensInv' /\ OlderStep /\ HeadersStep
  BY <1>4, ExitStep
<1>5. CASE Mcp!Boot
  BY <1>5, BootStep
<1>6. CASE Mcp!QueryOver
  BY <1>6, QueryOverStep
<1>7. CASE Mcp!Recycle
  BY <1>7, RecycleStep
<1>8. CASE Mcp!Pipe
  BY <1>8, PipeStep
<1>9. ASSUME NEW s \in Mcp!Servers, Mcp!Authorize(s)
      PROVE  TokensInv' /\ OlderStep /\ HeadersStep
  BY <1>9, AuthorizeStep
<1>10. ASSUME NEW s \in Mcp!Servers, Mcp!ComesNear(s)
       PROVE  TokensInv' /\ OlderStep /\ HeadersStep
  BY <1>10, ComesNearStep
<1>11. CASE Mcp!Reconfigure \/ UNCHANGED Mcp!vars
  BY <1>11, OtherStep
<1> QED
  BY <1>1, <1>2, <1>3, <1>4, <1>5, <1>6, <1>7, <1>8, <1>9, <1>10, <1>11
  DEF Mcp!Next

LEMMA TokensInit ==
  Mcp!Init => TokensInv
<1> SUFFICES ASSUME Mcp!Init PROVE TokensInv
  OBVIOUS
<1> DEFINE empty == Mcp!NoEntry
<1>1. /\ cache = [s \in Mcp!Servers |-> empty] /\ mcpFile = Mcp!NoFile
      /\ run = [r \in Mcp!Runs |-> Mcp!Off] /\ source = 0
  BY DEF Mcp!Init
<1>2. empty \in Entry
  BY DEF Mcp!NoEntry, Entry
<1> HIDE DEF empty
<1>3. mcpFile \in FileShape /\ ~mcpFile.there
  BY <1>1 DEF Mcp!NoFile, FileShape, Mcp!NoHeaders, Tokens
<1>4. Shapes /\ "chat" \in Mcp!Runs
  BY <1>1, <1>2, <1>3, OffShape DEF Shapes, Mcp!Runs
<1>5. \A r \in Mcp!Runs : run[r].phase = "off"
  BY <1>1, OffShape
<1> QED
  BY <1>3, <1>4, <1>5 DEF TokensInv, Mcp!OwnerAsked

(* An owner's run goes without a token only after asking                   *)
(* (mcp-azure-auth.ts:resolveAllMcpTokens).                                *)
THEOREM OwnersAsked == Mcp!Spec => []OwnerAsked
<1>1. TokensInv /\ [Mcp!Next]_(Mcp!vars) => TokensInv'
  BY TokensStep
<1>2. TokensInv => OwnerAsked
  BY DEF TokensInv, OwnerAsked
<1> QED
  BY <1>1, <1>2, TokensInit, PTL DEF Mcp!Spec

(* No save of a token brings back an older one of any server, though the   *)
(* acquisitions took copies of the whole cache (mcp-azure-auth.ts:         *)
(* saveTokenEntry).                                                        *)
THEOREM TokensGetNewer == Mcp!Spec => NeverOlder
<1>1. TokensInv /\ [Mcp!Next]_(Mcp!vars) => TokensInv'
  BY TokensStep
<1>2. TokensInv /\ [Mcp!Next]_(Mcp!vars) =>
        [\A s \in Mcp!Servers : cache'[s].token >= cache[s].token]_(Mcp!vars)
  BY TokensStep DEF OlderStep
<1> QED
  BY <1>1, <1>2, TokensInit, PTL DEF Mcp!Spec, NeverOlder, Mcp!NeverOlder

(* An idle agent that gets a message has the tokens of the cache.          *)
THEOREM TokensCurrent == Mcp!Spec => HeadersCurrent
<1>1. TokensInv /\ [Mcp!Next]_(Mcp!vars) => TokensInv'
  BY TokensStep
<1>2. TokensInv /\ [Mcp!Next]_(Mcp!vars) =>
        [run["chat"].phase = "idle" /\ run'["chat"].phase = "busy" =>
           \/ place.sandbox /\ run["chat"].rewritten
           \/ /\ run'["chat"].source = source
              /\ \A s \in Mcp!Servers \ run'["chat"].missed :
                   run'["chat"].headers[s] = cache[s].token]_(Mcp!vars)
  BY TokensStep DEF HeadersStep
<1> QED
  BY <1>1, <1>2, TokensInit, PTL DEF Mcp!Spec, HeadersCurrent, Mcp!HeadersCurrent
=============================================================================

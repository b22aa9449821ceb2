------------------------------- MODULE McpTokens -------------------------------
(***************************************************************************)
(* Azure tokens of remote MCP servers: src/mcp-azure-auth.ts acquires them *)
(* and caches them in one file, src/mcp-runtime-config.ts puts them into   *)
(* the mcp.json of a folder before an agent of it starts, and the          *)
(* dispatcher (src/index.ts) recycles an idle agent whose tokens look old. *)
(*                                                                         *)
(* Two runs: the agent of a chat, which goes on from message to message,   *)
(* and scheduled tasks, of the same folder or of another one, which are    *)
(* followed until their agent starts.  Time is abstract: a cached token    *)
(* may come within the five minutes any time.                              *)
(* The daemon yields only for answers of the identity service; what it     *)
(* does between two of them is one step.                                   *)
(***************************************************************************)
EXTENDS Integers, FiniteSetsExt, Functions

CONSTANTS
  NServers,    \* servers with auth.provider = "azure", in the order of their keys
  MaxIssues,   \* bound: tokens issued, by server
  MaxChanges   \* bound: changes of the configured servers

VARIABLES
  place,     \* where agents run, and whether the task shares the chat's folder
  cache,     \* mcp-tokens.json
  acquiring, \* tokenAcquisitions
  run,       \* the chat's run and the task's
  file,      \* mcp.json of the chat's folder, with its fingerprint
  source     \* the configured servers, as a version

vars == <<place, cache, acquiring, run, file, source>>

Servers == 1..NServers
Tokens == 0..Max(Range(MaxIssues))          \* 0: no token
Runs == {"chat", "task"}
Here == IF place.shared THEN Runs ELSE {"chat"}   \* runs of the folder
Headers == [Servers -> Tokens]

Entries == [ token : Tokens, fresh : BOOLEAN, refresh : BOOLEAN ]
NoEntry == [ token |-> 0, fresh |-> FALSE, refresh |-> FALSE ]
NoHeaders == [s \in Servers |-> 0]

(* An acquisition of a server, with or without a way to prompt an owner:   *)
(* what it waits for, and the servers saved since it took its own copy of  *)
(* the cache.                                                              *)
NotAcquiring == [ at |-> "none", behind |-> {} ]

(* next: the server being resolved; asked: those whose device code was     *)
(* requested; missed (ghost): those with a newer token by now.             *)
RunStates ==
  [ phase : {"off", "preparing", "starting", "busy", "idle", "killed"},
    owner : BOOLEAN, next : 1..(NServers + 1), got : Headers,
    asked : SUBSET Servers, missed : SUBSET Servers, source : 0..MaxChanges,
    headers : Headers, rewritten : BOOLEAN ]
Off ==
  [ phase |-> "off", owner |-> FALSE, next |-> 1, got |-> NoHeaders,
    asked |-> {}, missed |-> {}, source |-> 0,
    headers |-> NoHeaders, rewritten |-> FALSE ]

NoFile ==
  [ there |-> FALSE, headers |-> NoHeaders, source |-> 0, missed |-> {},
    newer |-> FALSE ]

Init ==
  /\ place \in [ sandbox : BOOLEAN, shared : BOOLEAN ]
  /\ cache = [s \in Servers |-> NoEntry]
  /\ acquiring = [s \in Servers |-> [owner \in BOOLEAN |-> NotAcquiring]]
  /\ run = [r \in Runs |-> Off]
  /\ file = NoFile
  /\ source = 0

-----------------------------------------------------------------------------
(* The cache                                                               *)

(* A token good for five minutes more.                                     *)
Valid(s) == cache[s].token # 0 /\ cache[s].fresh

CanIssue(S) == \A s \in S : cache[s].token < MaxIssues[s]
Issued(s, refresh) ==
  [ token |-> cache[s].token + 1, fresh |-> TRUE, refresh |-> refresh ]

(* Mutant: the acquisition saves its own copy of the cache.                *)
SavedCopy(s, owner, entry) ==
  [x \in Servers |->
     IF x = s THEN entry
     ELSE IF x \in acquiring[s][owner].behind
     THEN [cache[x] EXCEPT !.token = @ - 1]
     ELSE cache[x]]

(* saveTokenEntry, for the acquisition of s: it reads the file again, as   *)
(* the acquisition's copy may be behind.                                   *)
Saved(s, owner, entry) == [cache EXCEPT ![s] = entry]

(* After a save of the entries of S, mcp.json is older than the cache, and *)
(* a run that has resolved one of S already has missed it.                 *)
Older(S) == IF S = {} THEN file ELSE [file EXCEPT !.newer = FALSE]
Missing(R, W, S) ==
  [r \in Runs |->
     IF r \notin W /\ R[r].phase = "preparing"
     THEN [R[r] EXCEPT !.missed = @ \cup {s \in S : s < R[r].next}]
     ELSE R[r]]

Behind(S, A) ==
  [s \in Servers |-> [o \in BOOLEAN |->
     IF A[s][o].at = "none" THEN A[s][o]
     ELSE [A[s][o] EXCEPT !.behind = @ \cup (S \ {s})]]]

-----------------------------------------------------------------------------
(* resolveAllMcpTokens, from one wait to the next                          *)

(* Mutant: one acquisition per server.                                     *)
KeyOfServer(owner) == FALSE

(* Which acquisition a caller joins: owners do not join background ones.   *)
Key(owner) == owner

InFlight(s, owner) == acquiring[s][Key(owner)].at # "none"

(* Whether the caller has to wait for s: an acquisition is under way, or   *)
(* has to refresh, or to request a device code.                            *)
Waits(s, owner, az) ==
  \/ InFlight(s, owner)
  \/ ~Valid(s) /\ (cache[s].refresh \/ (~az /\ owner))

FirstWait(from, owner, az) ==
  Min({s \in from..NServers : Waits(s, owner, az)} \cup {NServers + 1})

(* The runs of W go on from server `from` (they wait for the same one, so  *)
(* they walk together): valid tokens are taken from the cache, others from *)
(* the Azure CLI if it is logged in (az), and those who reach the end      *)
(* write mcp.json.  The other arguments are the state so far.              *)
Walk(W, R, from, owner, az, C, A) ==
  LET stop == FirstWait(from, owner, az)
      over == stop > NServers
      passed == from..(stop - 1)
      fetched == IF az THEN {s \in passed : ~Valid(s)} ELSE {}
      after == [s \in Servers |-> IF s \in fetched THEN Issued(s, FALSE) ELSE C[s]]
      changed == {s \in Servers : after[s] # cache[s]}
      Got(r) == [s \in Servers |->
                   IF s \notin passed THEN R[r].got[s]
                   ELSE IF after[s].fresh THEN after[s].token
                   ELSE 0]
      walked == [r \in Runs |->
                   IF r \notin W THEN R[r]
                   ELSE IF over /\ r = "task" THEN Off
                   ELSE [R[r] EXCEPT
                           !.got = Got(r), !.next = stop,
                           !.phase = IF over THEN "starting" ELSE @]]
      writers == IF over THEN W \cap Here ELSE {}
  IN
  /\ CanIssue(fetched)
  /\ cache' = after
  /\ run' = [Missing(walked, W, changed) EXCEPT
               !["chat"].rewritten = @ \/ (writers # {} /\ "chat" \notin writers)]
  /\ file' = IF writers = {} THEN Older(changed)
             ELSE LET r == CHOOSE r \in writers : TRUE IN
                  [ there |-> TRUE, headers |-> Got(r),
                    source |-> R[r].source, missed |-> R[r].missed,
                    newer |-> TRUE ]
  /\ acquiring' =
       IF over \/ InFlight(stop, owner) THEN Behind(changed, A)
       ELSE [Behind(changed, A) EXCEPT ![stop][Key(owner)].at =
               IF cache[stop].refresh THEN "refresh" ELSE "device"]

(* An agent is to be started: prepareMcpRuntimeConfig reads the configured *)
(* servers and takes their fingerprint before it waits for any token.      *)
Start(r, owner, az) ==
  /\ run[r].phase = "off"
  /\ owner => r = "chat"
  /\ Walk({r}, [run EXCEPT ![r] = [Off EXCEPT !.phase = "preparing",
                                              !.owner = owner,
                                              !.source = source]],
          1, owner, az, cache, acquiring)
  /\ UNCHANGED <<place, source>>

-----------------------------------------------------------------------------
(* Answers of the identity service (or none, for 15 s)                     *)

Waiters(s, owner) ==
  {r \in Runs : /\ run[r].phase = "preparing" /\ run[r].next = s
                /\ Key(run[r].owner) = owner}

(* The acquisition is over, with a token or without: all that wait for it  *)
(* go on to the next server.                                               *)
Over(s, owner, az, token, asked, C) ==
  LET W == Waiters(s, owner)
      R == [r \in Runs |->
              IF r \in W
              THEN [run[r] EXCEPT !.got[s] = token, !.asked = @ \cup asked,
                                  !.missed = IF token = 0 /\ Valid(s)
                                             THEN @ \cup {s} ELSE @]
              ELSE run[r]]
  IN Walk(W, R, s + 1, owner, az, C, [acquiring EXCEPT ![s][owner] = NotAcquiring])

(* The token was refreshed.                                                *)
Refreshed(s, owner, az) ==
  /\ acquiring[s][owner].at = "refresh"
  /\ CanIssue({s})
  /\ LET e == Issued(s, TRUE) IN
     Over(s, owner, az, e.token, {}, Saved(s, owner, e))
  /\ UNCHANGED <<place, source>>

(* It was not: the Azure CLI is asked; its tokens have no refresh token.   *)
(* Without one, the owner's acquisition requests a device code.            *)
RefreshFails(s, owner, az) ==
  /\ acquiring[s][owner].at = "refresh"
  /\ CASE az ->
            /\ CanIssue({s})
            /\ LET e == Issued(s, FALSE) IN
               Over(s, owner, az, e.token, {}, Saved(s, owner, e))
       [] ~az /\ ~owner -> Over(s, owner, az, 0, {}, cache)
       [] OTHER ->
            /\ acquiring' = [acquiring EXCEPT ![s][owner].at = "device"]
            /\ UNCHANGED <<cache, run, file>>
  /\ UNCHANGED <<place, source>>

(* The code is there, but the prompt of the daemon throws: nothing sets    *)
(* the delivery adapter it needs.                                          *)
DeviceFails(s, az) ==
  /\ acquiring[s][TRUE].at = "device"
  /\ Over(s, TRUE, az, 0, {s}, cache)
  /\ UNCHANGED <<place, source>>

-----------------------------------------------------------------------------
(* Agents                                                                  *)

(* An agent reads mcp.json when it starts.                                 *)
Reading ==
  [Off EXCEPT !.phase = "busy", !.headers = file.headers,
              !.source = file.source, !.missed = file.missed]

Boot ==
  /\ run["chat"].phase = "starting"
  /\ run' = [run EXCEPT !["chat"] = Reading]
  /\ UNCHANGED <<place, cache, acquiring, file, source>>

QueryOver ==
  /\ run["chat"].phase = "busy"
  /\ run' = [run EXCEPT !["chat"].phase = "idle"]
  /\ UNCHANGED <<place, cache, acquiring, file, source>>

(* Mutant: a look at the cache alone.                                      *)
NeedsRefreshByCache ==
  \/ ~file.there
  \/ file.source # source
  \/ \E s \in Servers : ~Valid(s)

(* configuredMcpAzureTokensNeedRefresh, of the chat's mcp.json.            *)
NeedsRefresh ==
  \/ ~file.there
  \/ file.source # source
  \/ ~file.newer
  \/ \E s \in Servers : ~Valid(s)

(* A message for an idle agent: it is recycled ...                         *)
Recycle ==
  /\ run["chat"].phase = "idle"
  /\ NeedsRefresh
  /\ run' = [run EXCEPT !["chat"] = [Off EXCEPT !.phase = "killed"]]
  /\ UNCHANGED <<place, cache, acquiring, file, source>>

(* ... or gets the message.  On the host it reads mcp.json again for every *)
(* query; in a sandbox the file was mounted when it started.               *)
Pipe ==
  /\ run["chat"].phase = "idle"
  /\ ~NeedsRefresh
  /\ run' = IF place.sandbox THEN [run EXCEPT !["chat"].phase = "busy"]
            ELSE [run EXCEPT !["chat"] = Reading]
  /\ UNCHANGED <<place, cache, acquiring, file, source>>

Exit(r) ==
  /\ run[r].phase \in {"starting", "busy", "idle", "killed"}
  /\ run' = [run EXCEPT ![r] = Off]
  /\ UNCHANGED <<place, cache, acquiring, file, source>>

-----------------------------------------------------------------------------
(* The world                                                               *)

(* nanoclaw mcp auth, or the terminal client: someone signs in, and        *)
(* another process saves.                                                  *)
Authorize(s) ==
  /\ ~Valid(s)
  /\ CanIssue({s})
  /\ cache' = [cache EXCEPT ![s] = Issued(s, TRUE)]
  /\ acquiring' = Behind({s}, acquiring)
  /\ run' = Missing(run, {}, {s})
  /\ file' = Older({s})
  /\ UNCHANGED <<place, source>>

ComesNear(s) ==
  /\ Valid(s)
  /\ cache' = [cache EXCEPT ![s].fresh = FALSE]
  /\ UNCHANGED <<place, acquiring, run, file, source>>

Reconfigure ==
  /\ source < MaxChanges
  /\ source' = source + 1
  /\ UNCHANGED <<place, cache, acquiring, run, file>>

Next ==
  \/ \E r \in Runs, owner, az \in BOOLEAN : Start(r, owner, az)
  \/ \E s \in Servers, owner, az \in BOOLEAN :
       Refreshed(s, owner, az) \/ RefreshFails(s, owner, az)
  \/ \E s \in Servers, az \in BOOLEAN : DeviceFails(s, az)
  \/ \E r \in Runs : Exit(r)
  \/ Boot \/ QueryOver \/ Recycle \/ Pipe
  \/ \E s \in Servers : Authorize(s) \/ ComesNear(s)
  \/ Reconfigure

Spec == Init /\ [][Next]_vars

-----------------------------------------------------------------------------
(* Types.                                                                  *)
TypeOK ==
  /\ place \in [ sandbox : BOOLEAN, shared : BOOLEAN ]
  /\ cache \in [Servers -> Entries]
  /\ acquiring \in [Servers -> [BOOLEAN ->
       [ at : {"none", "refresh", "device"}, behind : SUBSET Servers ]]]
  /\ run \in [Runs -> RunStates]
  /\ file \in [ there : BOOLEAN, headers : Headers, newer : BOOLEAN,
                source : 0..MaxChanges, missed : SUBSET Servers ]
  /\ source \in 0..MaxChanges

(* An idle agent that gets a message has, for every server, the token of   *)
(* the cache, and the servers as they are configured now, although tokens  *)
(* are acquired and mcp.json is written for other runs meanwhile.  Two     *)
(* cases are excepted, which the check does not see: a token issued while  *)
(* the run was waiting for another server's, or failing to get this one's, *)
(* and, in a sandbox, mcp.json written anew for another run of the folder. *)
HeadersCurrent ==
  [][run["chat"].phase = "idle" /\ run'["chat"].phase = "busy" =>
       \/ place.sandbox /\ run["chat"].rewritten
       \/ /\ run'["chat"].source = source
          /\ \A s \in Servers \ run'["chat"].missed :
               run'["chat"].headers[s] = cache[s].token]_vars

(* No save of an acquisition brings back an older token of any server,     *)
(* though each began with a copy of the whole cache.                       *)
NeverOlder == [][\A s \in Servers : cache'[s].token >= cache[s].token]_vars

(* An owner's run goes without a token only if a device code was requested *)
(* for it: a background acquisition that fails does not decide for it.     *)
OwnerAsked ==
  \A s \in Servers :
    /\ run["chat"].phase \in {"preparing", "starting"} /\ run["chat"].owner
    /\ s < run["chat"].next
    => run["chat"].got[s] # 0 \/ s \in run["chat"].asked
=============================================================================

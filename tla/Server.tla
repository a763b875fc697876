------------------------------- MODULE Server -------------------------------
(***************************************************************************)
(* One process of the server, from its arguments to its exit: the startup  *)
(* order of main, the signals that reach it meanwhile, the token store and *)
(* its reload, the requests it authenticates, authorizes and runs, and the *)
(* evidence pipeline that is flushed once serving has ended.               *)
(*                                                                         *)
(* The token files are written by an operator at any moment.  What a tool  *)
(* call does once it runs is the other modules' subject; here it either    *)
(* writes or reads, and a write leaves an evidence record.                 *)
(***************************************************************************)
EXTENDS Tools, Naturals, FiniteSets

CONSTANTS
  Token,      \* bearer tokens
  Req,        \* tool calls
  Asked,      \* tools that are called
  Edits,      \* bound: how often a token file is written while the process runs
  None

ASSUME AskedAssumption == Asked \subseteq KnownTools
ASSUME EditsAssumption == Edits \in Nat
ASSUME NoneAssumption  == None \notin Token \cup {"canonical", "legacy", "custom"}

(* What a token may do: nothing (the file does not hold it), any tool of a *)
(* wildcard scope on any tenant, the tools it names on the configured      *)
(* tenant, or the same on another tenant.                                  *)
Grants == {"none", "wild", "named", "elsewhere"}

File == {"canonical", "legacy", "custom"}

NoTokens == [t \in Token |-> "none"]
Content  == [state : {"absent", "broken"}, grants : {NoTokens}]
              \cup [state : {"good"}, grants : [Token -> Grants]]
Absent   == [state |-> "absent", grants |-> NoTokens]

Args == [transport : {"stdio", "http"}, tokens : File \cup {None}, noAuth : BOOLEAN,
         audit : BOOLEAN, evidence : BOOLEAN]

VARIABLES
  args,       \* command line: transport, --tokens-file, --allow-no-auth, --audit-log-file, evidence
  pc,         \* where main stands
  exit,       \* how the process ended
  caught,     \* SIGTERM and SIGINT have a handler
  hup,        \* SIGHUP has a handler
  shutdown,   \* the shutdown token is cancelled
  files,      \* the token files on disk
  bound,      \* the file the store was loaded from
  snapshot,   \* the grants the store holds
  edits,      \* writes to the token files so far
  unread,     \* history: bound was written after the store last tried to read it
  failed,     \* history: the store's last reload failed
  pipeline,   \* the evidence service runs
  served,     \* the result of serving
  ask,        \* what each call asks for
  at,         \* how far each call got
  caller,     \* the authority it carries: a copy of the token's grant
  evidence    \* the record of what it wrote

process == <<pc, exit, caught, hup, shutdown, pipeline, served>>
store   == <<bound, snapshot, unread, failed>>
disk    == <<files, edits>>
calls   == <<ask, at, caller, evidence>>
vars    == <<args, process, store, disk, calls>>

(* A listener is either authenticated or asked to be open, never both. *)
AuthMode(a) ==
  IF a.transport = "stdio" THEN "none"
  ELSE IF a.tokens # None /\ ~a.noAuth THEN "tokens"
  ELSE IF a.tokens = None /\ a.noAuth THEN "open"
  ELSE "refused"

(* The files that matter to this command line. *)
Written == IF AuthMode(args) = "tokens" THEN {args.tokens, "legacy"} ELSE {}

NoAsk == [tool |-> None, tenant |-> None, token |-> None]

Init ==
  /\ args \in Args
  /\ files \in [File -> Content]
  /\ \A f \in File : f \notin Written => files[f] = Absent
  /\ pc = "arguments" /\ exit = "running"
  /\ caught = FALSE /\ hup = FALSE /\ shutdown = FALSE
  /\ bound = None /\ snapshot = NoTokens
  /\ edits = 0 /\ unread = FALSE /\ failed = FALSE
  /\ pipeline = FALSE /\ served = "unknown"
  /\ ask = [r \in Req |-> NoAsk]
  /\ at = [r \in Req |-> "idle"]
  /\ caller = [r \in Req |-> "nobody"]
  /\ evidence = [r \in Req |-> "none"]

-----------------------------------------------------------------------------
(* Startup: every step may fail with `?`, and then main returns at once. *)
Advance(from, to) ==
  /\ pc = from
  /\ pc' = to
  /\ UNCHANGED <<args, exit, caught, hup, shutdown, store, disk, pipeline, served, calls>>

Exit(how) ==
  /\ pc' = "exited"
  /\ exit' = how
  /\ UNCHANGED <<args, caught, hup, shutdown, store, disk, pipeline, served, calls>>

CheckArguments ==
  IF AuthMode(args) = "refused" THEN pc = "arguments" /\ Exit("error")
  ELSE \/ Advance("arguments", "setup")
       \/ pc = "arguments" /\ \E how \in {"ok", "error"} : Exit(how)   \* --validate-package, cli_validate

(* The audit key, the sinks, the configuration, the credential; then the   *)
(* handlers of SIGTERM and SIGINT.  A token subcommand ends here.          *)
Setup ==
  /\ pc = "setup"
  /\ \/ /\ pc' = "verifying"
        /\ caught' = TRUE
        /\ UNCHANGED <<args, exit, hup, shutdown, store, disk, pipeline, served, calls>>
     \/ \E how \in {"ok", "error"} : Exit(how)

(* The tenant of the credential is read from SDC, raced against shutdown. *)
VerifyTenant ==
  \/ Advance("verifying", "assembling")
  \/ pc = "verifying" /\ Exit("error")

StartEvidence ==
  /\ pc = "assembling"
  /\ \/ /\ pc' = "loading"
        /\ pipeline' = args.evidence
        /\ UNCHANGED <<args, exit, caught, hup, shutdown, store, disk, served, calls>>
     \/ Exit("error")

(* The approval digest key and the state file of the change manager. *)
LoadState ==
  \/ Advance("loading", IF AuthMode(args) = "tokens" THEN "resolving" ELSE "arming")
  \/ pc = "loading" /\ Exit("error")

(* slip: any missing file falls back to the legacy one *)
ResolvedAny(f) == IF files[f].state = "absent" THEN "legacy" ELSE f

(* Only the canonical path, spelled exactly, falls back. *)
Resolved(f) ==
  IF f = "canonical" /\ files[f].state = "absent" /\ files["legacy"].state # "absent"
  THEN "legacy" ELSE f

ResolveTokens ==
  /\ pc = "resolving"
  /\ pc' = "opening"
  /\ bound' = Resolved(args.tokens)
  /\ UNCHANGED <<args, exit, caught, hup, shutdown, snapshot, unread, failed, disk,
                 pipeline, served, calls>>

LoadTokens ==
  /\ pc = "opening"
  /\ IF files[bound].state = "good"
     THEN /\ pc' = "arming"
          /\ snapshot' = files[bound].grants
          /\ unread' = FALSE
          /\ UNCHANGED <<args, exit, caught, hup, shutdown, bound, failed, disk,
                         pipeline, served, calls>>
     ELSE Exit("error")

(* slip: only a token store is worth a handler *)
HandledIfTokens == bound # None

(* With neither sink nor store SIGHUP keeps its default disposition. *)
Handled == args.audit \/ bound # None

InstallHup ==
  /\ pc = "arming"
  /\ hup' = Handled
  /\ pc' = IF args.transport = "stdio" THEN "handshake" ELSE "serving"
  /\ UNCHANGED <<args, exit, caught, shutdown, store, disk, pipeline, served, calls>>

-----------------------------------------------------------------------------
(* Serving and its end *)

Leave(result) ==
  /\ pc' = "closing"
  /\ served' = result
  /\ UNCHANGED <<args, exit, caught, hup, shutdown, store, disk, pipeline, calls>>

Initialize == Advance("handshake", "serving")

(* slip: the token is looked at only once the client has initialized *)
HandshakeCancelledLate ==
  pc = "serving" /\ args.transport = "stdio" /\ shutdown /\ Leave("ok")

(* A signal before the client's initialize is a clean stop. *)
HandshakeCancelled == pc = "handshake" /\ shutdown /\ Leave("ok")

HandshakeFails == pc = "handshake" /\ Leave("error")

(* The peer closes stdin, the listener cannot be built, or it breaks. *)
ServingEnds ==
  /\ pc = "serving"
  /\ \E result \in {"ok", "error"} : Leave(result)

ShutdownSeen == shutdown /\ Advance("serving", "draining")

(* Calls get a grace period; those that outlive it are left behind. *)
DrainEnds ==
  /\ pc = "draining"
  /\ \E result \in {"ok", "error"} : Leave(result)

Flushed(to) ==
  evidence' = [r \in Req |-> IF evidence[r] = "pending" /\ pipeline THEN to ELSE evidence[r]]

(* slip: an error of serving is returned with `?`, before the flush *)
FlushAfterSuccess ==
  /\ pc = "closing"
  /\ IF served = "ok"
     THEN /\ pc' = "flushed"
          /\ \E to \in {"delivered", "left"} : Flushed(to)
          /\ UNCHANGED <<args, exit, caught, hup, shutdown, store, disk, pipeline, served,
                         ask, at, caller>>
     ELSE Exit(served)

(* Whichever way serving ended, what is spooled is delivered; a flush that *)
(* fails says so and leaves the records for the next start.                *)
Flush ==
  /\ pc = "closing"
  /\ pc' = "flushed"
  /\ \E to \in {"delivered", "left"} : Flushed(to)
  /\ UNCHANGED <<args, exit, caught, hup, shutdown, store, disk, pipeline, served,
                 ask, at, caller>>

Return == pc = "flushed" /\ Exit(served)

(* The pipeline also ships on an interval. *)
Ship ==
  /\ pc \in {"serving", "draining", "closing", "flushed"}
  /\ \E r \in Req :
       /\ evidence[r] = "pending"
       /\ evidence' = [evidence EXCEPT ![r] = "delivered"]
  /\ UNCHANGED <<args, process, store, disk, ask, at, caller>>

-----------------------------------------------------------------------------
(* Signals *)

Killed == Exit("killed")

Term ==
  /\ pc # "exited"
  /\ IF caught
     THEN /\ shutdown' = TRUE
          /\ UNCHANGED <<args, pc, exit, caught, hup, store, disk, pipeline, served, calls>>
     ELSE Killed

Reload ==
  IF bound = None THEN UNCHANGED store
  ELSE /\ unread' = FALSE
       /\ failed' = (files[bound].state # "good")
       /\ snapshot' = IF files[bound].state = "good" THEN files[bound].grants ELSE snapshot
       /\ UNCHANGED bound

(* slip: a failed reopen of the audit log ends the handler *)
HandleHupStrict(reopened) ==
  IF reopened THEN Reload
  ELSE /\ unread' = FALSE
       /\ failed' = (failed /\ files[bound].state # "good")
       /\ UNCHANGED <<bound, snapshot>>

(* The audit log is reopened first; whether that worked or not, the store  *)
(* reads its file again, and keeps its snapshot when it cannot.            *)
HandleHup(reopened) == Reload

Hup ==
  /\ pc # "exited"
  /\ IF hup
     THEN /\ \E reopened \in (IF args.audit THEN BOOLEAN ELSE {TRUE}) : HandleHup(reopened)
          /\ UNCHANGED <<args, process, disk, calls>>
     ELSE Killed

(* An operator adds, revokes, breaks, moves or removes tokens. *)
Edit ==
  /\ edits < Edits
  /\ pc # "exited"
  /\ \E f \in Written, c \in Content :
       /\ c # files[f]
       /\ files' = [files EXCEPT ![f] = c]
       /\ unread' = (unread \/ f = bound)
  /\ edits' = edits + 1
  /\ UNCHANGED <<args, process, bound, snapshot, failed, calls>>

-----------------------------------------------------------------------------
(* Calls *)

(* Scope of a token: its tools and its tenants. *)
InScope(grant, tool, tenant) ==
  \/ grant = "wild" /\ tool \notin WildcardExcluded
  \/ grant = "named" /\ tenant = "ours"
  \/ grant = "elsewhere" /\ tenant = "other"

(* The bearer boundary and its preflight, against the snapshot of this     *)
(* moment; stdio and an open listener have neither.                        *)
Admitted(a, grant) ==
  AuthMode(args) = "tokens" => grant # "none" /\ InScope(grant, a.tool, a.tenant)

Arrive(r) ==
  /\ pc = "serving"
  /\ at[r] = "idle"
  /\ \E tool \in Asked, tenant \in {"ours", "other"}, token \in Token \cup {None} :
       LET a     == [tool |-> tool, tenant |-> tenant, token |-> token]
           grant == IF token = None THEN "none" ELSE snapshot[token]
       IN  IF Admitted(a, grant)
           THEN /\ ask' = [ask EXCEPT ![r] = a]
                /\ at' = [at EXCEPT ![r] = "admitted"]
                /\ caller' = [caller EXCEPT ![r] =
                                IF AuthMode(args) = "tokens" THEN grant ELSE "anonymous"]
           ELSE /\ at' = [at EXCEPT ![r] = "refused"]
                /\ UNCHANGED <<ask, caller>>
  /\ UNCHANGED <<args, process, store, disk, evidence>>

(* slip: an absent caller is a trusted one *)
AuthorizedAbsent(a, grant) ==
  /\ grant = "anonymous" \/ InScope(grant, a.tool, a.tenant)
  /\ a.tenant = "ours"

(* authorize_request: a write needs a token, a token its scope, and the    *)
(* tenant is the configured one.                                           *)
Authorized(a, grant) ==
  /\ grant = "anonymous" => a.tool \notin WriteTools
  /\ grant = "anonymous" \/ InScope(grant, a.tool, a.tenant)
  /\ a.tenant = "ours"

Alive == pc \in {"serving", "draining", "closing", "flushed"}

Authorize(r) ==
  /\ Alive
  /\ at[r] = "admitted"
  /\ at' = [at EXCEPT ![r] = IF Authorized(ask[r], caller[r]) THEN "running" ELSE "refused"]
  /\ UNCHANGED <<args, process, store, disk, ask, caller, evidence>>

(* The handler returns; the coordinator recorded what it wrote.  A record  *)
(* made after the flush is left for the next start.                        *)
Run(r) ==
  /\ Alive
  /\ at[r] = "running"
  /\ at' = [at EXCEPT ![r] = "done"]
  /\ evidence' = [evidence EXCEPT ![r] =
                    IF ~pipeline \/ ask[r].tool \notin WriteTools THEN "none"
                    ELSE IF pc = "flushed" THEN "left" ELSE "pending"]
  /\ UNCHANGED <<args, process, store, disk, ask, caller>>

Next ==
  \/ CheckArguments \/ Setup \/ VerifyTenant \/ StartEvidence \/ LoadState
  \/ ResolveTokens \/ LoadTokens \/ InstallHup
  \/ Initialize \/ HandshakeCancelled \/ HandshakeFails \/ ServingEnds \/ ShutdownSeen \/ DrainEnds
  \/ Flush \/ Return \/ Ship
  \/ Term \/ Hup \/ Edit
  \/ \E r \in Req : Arrive(r) \/ Authorize(r) \/ Run(r)

Spec == Init /\ [][Next]_vars

(* The process's own steps.  Nothing is assumed of its client, which may   *)
(* never initialize, nor of calls, signals or the operator.                *)
Fairness ==
  /\ WF_vars(CheckArguments) /\ WF_vars(Setup) /\ WF_vars(VerifyTenant)
  /\ WF_vars(StartEvidence) /\ WF_vars(LoadState)
  /\ WF_vars(ResolveTokens) /\ WF_vars(LoadTokens) /\ WF_vars(InstallHup)
  /\ WF_vars(HandshakeCancelled) /\ WF_vars(ShutdownSeen) /\ WF_vars(DrainEnds)
  /\ WF_vars(Flush) /\ WF_vars(Return)

FairSpec == Spec /\ Fairness

-----------------------------------------------------------------------------
(* Properties *)

Steps == {"arguments", "setup", "verifying", "assembling", "loading", "resolving",
          "opening", "arming", "handshake", "serving", "draining", "closing",
          "flushed", "exited"}

(* Every variable keeps to the values the program gives it. *)
TypeOK ==
  /\ args \in Args
  /\ pc \in Steps
  /\ exit \in {"running", "ok", "error", "killed"}
  /\ caught \in BOOLEAN /\ hup \in BOOLEAN /\ shutdown \in BOOLEAN
  /\ files \in [File -> Content]
  /\ bound \in File \cup {None}
  /\ snapshot \in [Token -> Grants]
  /\ edits \in 0..Edits
  /\ unread \in BOOLEAN /\ failed \in BOOLEAN /\ pipeline \in BOOLEAN
  /\ served \in {"unknown", "ok", "error"}
  /\ ask \in [Req -> [tool : Asked, tenant : {"ours", "other"}, token : Token \cup {None}]
                        \cup {NoAsk}]
  /\ at \in [Req -> {"idle", "admitted", "refused", "running", "done"}]
  /\ caller \in [Req -> Grants \cup {"nobody", "anonymous"}]
  /\ evidence \in [Req -> {"none", "pending", "delivered", "left"}]

(* A call runs on the configured tenant only; a write only for a token     *)
(* that names its tool; no wildcard reaches the scoped reads; and a caller *)
(* without a token is served only on stdio or by a listener that was asked *)
(* to be open and has no token file.                                       *)
AuthorityWasGiven ==
  \A r \in Req : at[r] \in {"running", "done"} =>
    /\ ask[r].tenant = "ours"
    /\ ask[r].tool \in WriteTools => caller[r] = "named"
    /\ caller[r] = "anonymous" =>
         args.transport = "stdio" \/ (args.noAuth /\ args.tokens = None)
    /\ caller[r] = "wild" => ask[r].tool \notin ScopedReads

(* What the store enforces is what a restart would load, but for an edit   *)
(* that was not signalled yet, a reload that failed, or a canonical file   *)
(* that appeared after the store was bound to the legacy one.              *)
Restarted == files[Resolved(args.tokens)].grants

MigratedLater ==
  args.tokens = "canonical" /\ bound = "legacy" /\ files["canonical"].state # "absent"

RevocationTakesHold ==
  hup /\ bound # None /\ snapshot # Restarted => unread \/ failed \/ MigratedLater

(* A process that serves with an audit file or a token store survives the  *)
(* signal its log rotation and its reload send, and a stop is not a kill.  *)
Serving == {"handshake", "serving", "draining", "closing", "flushed"}

ServingIsNotKilled ==
  [][(pc \in Serving /\ (args.audit \/ AuthMode(args) = "tokens")) => exit' # "killed"]_vars

(* Whichever way serving ended, no record made before it is forgotten by   *)
(* the flush: neither an error of serving nor a call that outlives the     *)
(* grace period makes a record wait for the next start unannounced.        *)
EvidenceFlushed ==
  pc = "exited" /\ exit # "killed" => \A r \in Req : evidence[r] # "pending"

(* The strengthening the proofs use.  Where main stands: what a step that  *)
(* was passed has set, and what a step not yet reached has not.            *)
Placed ==
  /\ exit = "running" <=> pc # "exited"
  /\ pc \notin {"arguments", "exited"} => AuthMode(args) # "refused"
  /\ pc \notin {"arguments", "setup", "exited"} => caught
  /\ pc \in Serving => (hup <=> (args.audit \/ bound # None))
  /\ pc \in {"resolving", "opening"} => AuthMode(args) = "tokens"
  /\ pc = "opening" => bound # None
  /\ pc \in Serving \cup {"arming"} => (bound # None <=> AuthMode(args) = "tokens")
  /\ pc \in {"arguments", "setup", "verifying", "assembling", "loading", "resolving"}
       => bound = None
  /\ hup => pc \in Serving \cup {"exited"}
  /\ pc \in {"closing", "flushed"} => served # "unknown"

(* What the store holds: the bound file as it was last read. *)
Loaded ==
  /\ bound # None => bound = args.tokens \/ (bound = "legacy" /\ args.tokens = "canonical")
  /\ (hup \/ pc = "arming") /\ bound # None =>
       unread \/ failed \/ (files[bound].state = "good" /\ snapshot = files[bound].grants)

(* A call: what admitted it, and what it left. *)
Vetted(r) ==
  /\ at[r] # "idle" => pc \in Serving \cup {"exited"} /\ AuthMode(args) # "refused"
  /\ at[r] \in {"admitted", "running", "done"} =>
       caller[r] # "nobody" /\ (caller[r] = "anonymous" <=> AuthMode(args) # "tokens")
  /\ at[r] \in {"running", "done"} => Authorized(ask[r], caller[r])
  /\ evidence[r] # "none" => at[r] = "done"
  /\ evidence[r] = "pending" => pipeline
  /\ pc = "flushed" => evidence[r] # "pending"
  /\ pc = "exited" /\ exit # "killed" => evidence[r] # "pending"

IndInv == TypeOK /\ Placed /\ Loaded /\ \A r \in Req : Vetted(r)

(* A process told to stop stops: whatever the client, SDC or a call does,  *)
(* and whatever main was doing when the signal came.                       *)
ShutdownEnds == shutdown ~> pc = "exited"
=============================================================================

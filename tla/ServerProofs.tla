---------------------------- MODULE ServerProofs ----------------------------
(* Proofs about Server, for any tokens, calls, tools and number of edits.  *)
EXTENDS Server, TLAPS

USE DEF File, Grants, Steps

(* The two moves of main that set nothing but pc, and the way out.         *)
LEMMA AdvanceType ==
  ASSUME TypeOK, NEW from, NEW to \in Steps, Advance(from, to)
  PROVE  TypeOK'
BY DEF TypeOK, Advance, store, disk, calls

LEMMA ExitType ==
  ASSUME TypeOK, NEW how \in {"ok", "error", "killed"}, Exit(how)
  PROVE  TypeOK'
BY DEF TypeOK, Exit, store, disk, calls

LEMMA LeaveType ==
  ASSUME TypeOK, NEW result \in {"ok", "error"}, Leave(result)
  PROVE  TypeOK'
BY DEF TypeOK, Leave, store, disk, calls

(* The startup steps of main. *)
LEMMA StartupType ==
  ASSUME TypeOK, Placed,
         CheckArguments \/ Setup \/ VerifyTenant \/ StartEvidence \/ LoadState
           \/ ResolveTokens \/ LoadTokens \/ InstallHup
  PROVE  TypeOK'
<1>1. CASE CheckArguments
  BY <1>1, AdvanceType, ExitType DEF CheckArguments
<1>2. CASE Setup
  <2>1. CASE \E how \in {"ok", "error"} : Exit(how)
    BY <2>1, ExitType
  <2>2. CASE caught' = TRUE /\ pc' = "verifying"
             /\ UNCHANGED <<args, exit, hup, shutdown, store, disk, pipeline, served, calls>>
    BY <2>2 DEF TypeOK, store, disk, calls
  <2>3. QED
    BY <1>2, <2>1, <2>2 DEF Setup
<1>3. CASE VerifyTenant
  BY <1>3, AdvanceType, ExitType DEF VerifyTenant
<1>4. CASE StartEvidence
  <2>1. CASE Exit("error")
    BY <2>1, ExitType
  <2>2. CASE ~Exit("error")
    BY <1>4, <2>2 DEF StartEvidence, TypeOK, Args, store, disk, calls
  <2>3. QED
    BY <2>1, <2>2
<1>5. CASE LoadState
  BY <1>5, AdvanceType, ExitType DEF LoadState
<1>6. CASE ResolveTokens
  <2>1. args.tokens \in File \cup {None}
    BY DEF TypeOK, Args
  <2>2. bound' \in File \cup {None}
    BY <1>6, <2>1 DEF ResolveTokens, Resolved
  <2>3. QED
    BY <1>6, <2>2 DEF ResolveTokens, TypeOK, disk, calls
<1>7. CASE LoadTokens
  <2>1. CASE files[bound].state = "good"
    <3>1. bound \in File
      BY <1>7 DEF LoadTokens, TypeOK, Placed
    <3>2. files[bound].grants \in [Token -> Grants]
      BY <3>1 DEF TypeOK, Content, NoTokens
    <3>3. /\ snapshot' \in [Token -> Grants] /\ unread' = FALSE /\ pc' = "arming"
          /\ UNCHANGED <<args, exit, caught, hup, shutdown, bound, failed, files, edits,
                         pipeline, served, ask, at, caller, evidence>>
      BY <1>7, <2>1, <3>2 DEF LoadTokens, disk, calls
    <3>. HIDE DEF Grants, File
    <3>4. QED
      BY <3>3 DEF TypeOK
  <2>2. CASE files[bound].state # "good"
    BY <1>7, <2>2, ExitType DEF LoadTokens
  <2>3. QED
    BY <2>1, <2>2
<1>8. CASE InstallHup
  <2>1. hup' \in BOOLEAN /\ pc' \in Steps
    BY <1>8 DEF InstallHup, Handled, TypeOK, Args
  <2>2. QED
    BY <1>8, <2>1 DEF InstallHup, TypeOK, store, disk, calls
<1>9. QED
  BY <1>1, <1>2, <1>3, <1>4, <1>5, <1>6, <1>7, <1>8

(* Serving, its end, the evidence pipeline, signals and the operator. *)
LEMMA ServingType ==
  ASSUME TypeOK, Placed,
         Initialize \/ HandshakeCancelled \/ HandshakeFails \/ ServingEnds
           \/ ShutdownSeen \/ DrainEnds \/ Flush \/ Return \/ Ship \/ Term \/ Hup \/ Edit
  PROVE  TypeOK'
<1>1. CASE Initialize
  BY <1>1, AdvanceType DEF Initialize
<1>2. CASE HandshakeCancelled \/ HandshakeFails \/ ServingEnds \/ DrainEnds
  BY <1>2, LeaveType DEF HandshakeCancelled, HandshakeFails, ServingEnds, DrainEnds
<1>3. CASE ShutdownSeen
  BY <1>3, AdvanceType DEF ShutdownSeen
<1>4. CASE Flush
  BY <1>4 DEF Flush, Flushed, TypeOK, store, disk
<1>5. CASE Return
  <2>1. served \in {"ok", "error"}
    BY <1>5 DEF Return, Placed, TypeOK
  <2>2. QED
    BY <1>5, <2>1, ExitType DEF Return
<1>6. CASE Ship
  BY <1>6 DEF Ship, TypeOK, process, store, disk
<1>7. CASE Term
  <2>1. CASE caught
    BY <1>7, <2>1 DEF Term, TypeOK, store, disk, calls
  <2>2. CASE ~caught
    BY <1>7, <2>2, ExitType DEF Term, Killed
  <2>3. QED
    BY <2>1, <2>2
<1>8. CASE Hup
  <2>1. CASE ~hup
    BY <1>8, <2>1, ExitType DEF Hup, Killed
  <2>2. CASE hup
    <3>1. UNCHANGED <<args, process, disk, calls>> /\ Reload
      BY <1>8, <2>2 DEF Hup, HandleHup
    <3>2. bound \in File => files[bound].grants \in [Token -> Grants]
      BY DEF TypeOK, Content, NoTokens
    <3>3. bound' = bound /\ snapshot' \in [Token -> Grants]
            /\ unread' \in BOOLEAN /\ failed' \in BOOLEAN
      BY <3>1, <3>2 DEF Reload, TypeOK, store
    <3>4. QED
      BY <3>1, <3>3 DEF TypeOK, process, disk, calls
  <2>3. QED
    BY <2>1, <2>2
<1>9. CASE Edit
  <2>1. PICK f \in Written, c \in Content :
          files' = [files EXCEPT ![f] = c] /\ unread' = (unread \/ f = bound)
    BY <1>9 DEF Edit
  <2>2. files' \in [File -> Content] /\ unread' \in BOOLEAN
    BY <2>1 DEF TypeOK
  <2>3. edits' \in 0..Edits
    BY <1>9, EditsAssumption DEF Edit, TypeOK
  <2>4. QED
    BY <1>9, <2>2, <2>3 DEF Edit, TypeOK, process, calls
<1>10. QED
  BY <1>1, <1>2, <1>3, <1>4, <1>5, <1>6, <1>7, <1>8, <1>9

(* A call's own steps. *)
LEMMA CallType ==
  ASSUME TypeOK, NEW r \in Req, Arrive(r) \/ Authorize(r) \/ Run(r)
  PROVE  TypeOK'
<1>1. CASE Arrive(r)
  <2>1. PICK tool \in Asked, tenant \in {"ours", "other"}, token \in Token \cup {None} :
          \/ /\ ask' = [ask EXCEPT ![r] = [tool |-> tool, tenant |-> tenant, token |-> token]]
             /\ at' = [at EXCEPT ![r] = "admitted"]
             /\ caller' = [caller EXCEPT ![r] =
                   IF AuthMode(args) = "tokens"
                   THEN IF token = None THEN "none" ELSE snapshot[token] ELSE "anonymous"]
          \/ /\ at' = [at EXCEPT ![r] = "refused"]
             /\ UNCHANGED <<ask, caller>>
    BY <1>1 DEF Arrive
  <2>2. (IF token = None THEN "none" ELSE snapshot[token]) \in Grants
    BY DEF TypeOK
  <2>3. caller' \in [Req -> Grants \cup {"nobody", "anonymous"}]
    BY <2>1, <2>2 DEF TypeOK
  <2>4. ask' \in [Req -> [tool : Asked, tenant : {"ours", "other"}, token : Token \cup {None}]
                           \cup {NoAsk}]
    BY <2>1 DEF TypeOK
  <2>5. at' \in [Req -> {"idle", "admitted", "refused", "running", "done"}]
    BY <2>1 DEF TypeOK
  <2>6. QED
    BY <1>1, <2>3, <2>4, <2>5 DEF Arrive, TypeOK, process, store, disk
<1>2. CASE Authorize(r)
  BY <1>2 DEF Authorize, TypeOK, process, store, disk
<1>3. CASE Run(r)
  BY <1>3 DEF Run, TypeOK, process, store, disk
<1>4. QED
  BY <1>1, <1>2, <1>3

LEMMA TypeStep ==
  ASSUME TypeOK, Placed, [Next]_vars
  PROVE  TypeOK'
<1>1. CASE UNCHANGED vars
  BY <1>1 DEF TypeOK, vars, process, store, disk, calls
<1>2. CASE Next
  BY <1>2, StartupType, ServingType, CallType DEF Next
<1>3. QED
  BY <1>1, <1>2

-----------------------------------------------------------------------------
(* Where main stands.  A call, a shipment and an edit move none of it.     *)
LEMMA PlacedFrame ==
  ASSUME Placed, UNCHANGED <<args, pc, exit, caught, hup, served, bound>>
  PROVE  Placed'
BY DEF Placed, Serving, AuthMode

LEMMA PlacedStartup ==
  ASSUME TypeOK, Placed,
         CheckArguments \/ Setup \/ VerifyTenant \/ StartEvidence \/ LoadState
           \/ ResolveTokens \/ LoadTokens \/ InstallHup
  PROVE  Placed'
<1>. USE NoneAssumption DEF Placed, Serving, AuthMode, Advance, Exit, store, TypeOK
<1>1. CASE CheckArguments
  BY <1>1 DEF CheckArguments
<1>2. CASE Setup
  BY <1>2 DEF Setup
<1>3. CASE VerifyTenant
  BY <1>3 DEF VerifyTenant
<1>4. CASE StartEvidence
  <2>1. CASE Exit("error")
    BY <1>4, <2>1 DEF StartEvidence
  <2>2. CASE pc = "assembling" /\ pc' = "loading"
             /\ UNCHANGED <<args, exit, caught, hup, shutdown, store, disk, served, calls>>
    BY <2>2
  <2>3. QED
    BY <1>4, <2>1, <2>2 DEF StartEvidence
<1>5. CASE LoadState
  BY <1>5 DEF LoadState
<1>6. CASE ResolveTokens
  BY <1>6 DEF ResolveTokens, Resolved
<1>7. CASE LoadTokens
  BY <1>7 DEF LoadTokens
<1>8. CASE InstallHup
  BY <1>8 DEF InstallHup, Handled
<1>9. QED
  BY <1>1, <1>2, <1>3, <1>4, <1>5, <1>6, <1>7, <1>8

LEMMA PlacedServing ==
  ASSUME TypeOK, Placed,
         Initialize \/ HandshakeCancelled \/ HandshakeFails \/ ServingEnds
           \/ ShutdownSeen \/ DrainEnds \/ Flush \/ Return \/ Term \/ Hup
  PROVE  Placed'
<1>. USE DEF Placed, Serving, AuthMode, Advance, Exit, Leave, store
<1>1. CASE Initialize
  BY <1>1 DEF Initialize
<1>2. CASE HandshakeCancelled \/ HandshakeFails \/ ServingEnds \/ DrainEnds
  BY <1>2 DEF HandshakeCancelled, HandshakeFails, ServingEnds, DrainEnds
<1>3. CASE ShutdownSeen
  BY <1>3 DEF ShutdownSeen
<1>4. CASE Flush
  BY <1>4 DEF Flush
<1>5. CASE Return
  <2>1. served \in {"ok", "error"}
    BY <1>5 DEF Return, TypeOK
  <2>2. QED
    BY <1>5, <2>1 DEF Return
<1>6. CASE Term
  BY <1>6 DEF Term, Killed
<1>7. CASE Hup
  <2>1. CASE hup
    BY <1>7, <2>1 DEF Hup, HandleHup, Reload, process
  <2>2. CASE ~hup
    BY <1>7, <2>2 DEF Hup, Killed
  <2>3. QED
    BY <2>1, <2>2
<1>8. QED
  BY <1>1, <1>2, <1>3, <1>4, <1>5, <1>6, <1>7

LEMMA PlacedStep ==
  ASSUME TypeOK, Placed, [Next]_vars
  PROVE  Placed'
<1>1. CASE UNCHANGED vars \/ Ship \/ Edit \/ \E r \in Req : Arrive(r) \/ Authorize(r) \/ Run(r)
  <2>1. UNCHANGED <<args, pc, exit, caught, hup, served, bound>>
    BY <1>1 DEF vars, process, store, Ship, Edit, Arrive, Authorize, Run
  <2>2. QED
    BY <2>1, PlacedFrame
<1>2. CASE Next
  BY <1>1, <1>2, PlacedStartup, PlacedServing DEF Next
<1>3. QED
  BY <1>1, <1>2
-----------------------------------------------------------------------------
(* What the store holds. *)
LEMMA LoadedFrame ==
  ASSUME Placed, Loaded, UNCHANGED <<args, bound, snapshot, unread, failed, files>>,
         hup' \/ pc' = "arming" => hup \/ pc = "arming" \/ bound = None
  PROVE  Loaded'
BY DEF Loaded

LEMMA LoadedStep ==
  ASSUME TypeOK, Placed, Loaded, [Next]_vars
  PROVE  Loaded'
<1>1. CASE UNCHANGED <<args, bound, snapshot, unread, failed, files>>
           /\ (hup' \/ pc' = "arming" => hup \/ pc = "arming" \/ bound = None)
  BY <1>1, LoadedFrame
<1>2. CASE ResolveTokens
  <2>1. hup = FALSE
    BY <1>2 DEF ResolveTokens, Placed, Serving
  <2>2. QED
    BY <1>2, <2>1 DEF ResolveTokens, Resolved, Loaded
<1>3. CASE LoadTokens
  <2>1. CASE files[bound].state = "good"
    BY <1>3, <2>1 DEF LoadTokens, Loaded, disk
  <2>2. CASE files[bound].state # "good"
    BY <1>3, <2>2 DEF LoadTokens, Loaded, Exit, store, disk
  <2>3. QED
    BY <2>1, <2>2
<1>4. CASE Hup /\ hup
  <2>1. UNCHANGED <<args, pc, hup, files>> /\ Reload
    BY <1>4 DEF Hup, HandleHup, process, disk
  <2>2. QED
    BY <2>1 DEF Reload, Loaded, store
<1>5. CASE Edit
  <2>1. UNCHANGED <<args, pc, hup, bound, snapshot, failed>>
    BY <1>5 DEF Edit, process
  <2>2. PICK f \in Written, c \in Content :
          files' = [files EXCEPT ![f] = c] /\ unread' = (unread \/ f = bound)
    BY <1>5 DEF Edit
  <2>3. bound # None /\ ~unread' => files'[bound] = files[bound] /\ ~unread
    BY <2>2 DEF TypeOK
  <2>4. QED
    BY <2>1, <2>3 DEF Loaded
<1>6. CASE UNCHANGED vars \/ Ship \/ Flush \/ Term \/ (Hup /\ ~hup)
           \/ \E r \in Req : Arrive(r) \/ Authorize(r) \/ Run(r)
  <2>1. UNCHANGED <<args, bound, snapshot, unread, failed, files, hup>>
        /\ (pc' = pc \/ pc' \in {"flushed", "exited"})
    BY <1>6 DEF vars, process, store, disk, Ship, Flush, Term, Hup, Killed, Exit,
                Arrive, Authorize, Run
  <2>2. QED
    BY <1>1, <2>1
<1>7. CASE CheckArguments \/ Setup \/ VerifyTenant \/ StartEvidence
  BY <1>1, <1>7 DEF CheckArguments, Setup, VerifyTenant, StartEvidence, Advance, Exit,
                    store, disk, Placed
<1>8. CASE LoadState
  BY <1>1, <1>8 DEF LoadState, Advance, Exit, store, disk, Placed
<1>9. CASE InstallHup
  <2>1. UNCHANGED <<args, bound, snapshot, unread, failed, files>> /\ pc = "arming"
    BY <1>9 DEF InstallHup, store, disk
  <2>2. QED
    BY <1>1, <2>1
<1>10. CASE Initialize \/ HandshakeCancelled \/ HandshakeFails \/ ServingEnds
           \/ ShutdownSeen \/ DrainEnds \/ Return
  <2>1. UNCHANGED <<args, bound, snapshot, unread, failed, files, hup>> /\ pc' # "arming"
    BY <1>10 DEF Initialize, HandshakeCancelled, HandshakeFails, ServingEnds, ShutdownSeen,
                 DrainEnds, Return, Advance, Leave, Exit, store, disk
  <2>2. QED
    BY <1>1, <2>1
<1>11. QED
  BY <1>2, <1>3, <1>4, <1>5, <1>6, <1>7, <1>8, <1>9, <1>10 DEF Next

-----------------------------------------------------------------------------
(* A call: what admitted it, and what it left. *)
(* Main's own steps leave the calls alone. *)
LEMMA VettedMain ==
  ASSUME TypeOK, Placed, Placed', NEW r \in Req, Vetted(r), UNCHANGED <<args, calls>>,
         CheckArguments \/ Setup \/ VerifyTenant \/ StartEvidence \/ LoadState
           \/ ResolveTokens \/ LoadTokens \/ InstallHup
           \/ Initialize \/ HandshakeCancelled \/ HandshakeFails \/ ServingEnds
           \/ ShutdownSeen \/ DrainEnds \/ Return \/ Term \/ Hup \/ Edit
  PROVE  Vetted(r)'
<1>1. CASE CheckArguments \/ Setup \/ VerifyTenant \/ StartEvidence \/ LoadState
           \/ ResolveTokens \/ LoadTokens \/ InstallHup
  <2>1. pc \notin Serving \cup {"exited"}
    BY <1>1 DEF CheckArguments, Setup, VerifyTenant, StartEvidence, LoadState, Advance,
                ResolveTokens, LoadTokens, InstallHup, Serving, AuthMode
  <2>2. at[r] = "idle" /\ evidence[r] = "none"
    BY <2>1 DEF Vetted
  <2>3. QED
    BY <2>2 DEF Vetted, calls
<1>2. CASE Initialize \/ HandshakeCancelled \/ HandshakeFails \/ ServingEnds
           \/ ShutdownSeen \/ DrainEnds
  <2>1. pc \in Serving /\ pc' \in Serving \ {"flushed"} /\ UNCHANGED <<exit, pipeline>>
    BY <1>2 DEF Initialize, HandshakeCancelled, HandshakeFails, ServingEnds, ShutdownSeen,
                DrainEnds, Advance, Leave, Serving
  <2>2. QED
    BY <2>1 DEF Vetted, calls, Serving, AuthMode, Authorized
<1>3. CASE Return
  BY <1>3 DEF Return, Exit, Vetted, calls, Serving, AuthMode, Authorized
<1>4. CASE Term \/ Hup \/ Edit
  <2>1. /\ (pc' = pc /\ exit' = exit) \/ (pc' = "exited" /\ exit' = "killed")
        /\ UNCHANGED pipeline
    BY <1>4 DEF Term, Hup, Edit, Killed, Exit, process
  <2>2. QED
    BY <2>1 DEF Vetted, calls, Serving, AuthMode, Authorized
<1>5. QED
  BY <1>1, <1>2, <1>3, <1>4

(* The steps of the calls, and of the pipeline that carries their records. *)
LEMMA VettedCalls ==
  ASSUME TypeOK, Placed, NEW r \in Req, Vetted(r), UNCHANGED <<args, exit, pipeline>>,
         NEW q \in Req,
         Arrive(q) \/ Authorize(q) \/ Run(q)
  PROVE  Vetted(r)'
<1>. UNCHANGED pc
  BY DEF Arrive, Authorize, Run, process
<1>1. CASE Arrive(q)
  <2>1. CASE q # r
    <3>1. ask'[r] = ask[r] /\ at'[r] = at[r] /\ caller'[r] = caller[r] /\ evidence'[r] = evidence[r]
      BY <1>1, <2>1 DEF Arrive, TypeOK
    <3>2. QED
      BY <3>1 DEF Vetted, AuthMode, Authorized
  <2>2. CASE q = r
    <3>1. pc = "serving" /\ AuthMode(args) # "refused" /\ at[r] = "idle"
      BY <1>1, <2>2 DEF Arrive, Placed
    <3>2. evidence'[r] = "none"
      BY <1>1, <3>1 DEF Arrive, Vetted
    <3>3. \/ at'[r] = "refused"
          \/ /\ at'[r] = "admitted"
             /\ \E g \in Grants :
                  caller'[r] = IF AuthMode(args) = "tokens" THEN g ELSE "anonymous"
      <4>1. PICK tool \in Asked, tenant \in {"ours", "other"}, token \in Token \cup {None} :
              \/ /\ at' = [at EXCEPT ![r] = "admitted"]
                 /\ caller' = [caller EXCEPT ![r] =
                       IF AuthMode(args) = "tokens"
                       THEN IF token = None THEN "none" ELSE snapshot[token] ELSE "anonymous"]
              \/ at' = [at EXCEPT ![r] = "refused"]
        BY <1>1, <2>2 DEF Arrive
      <4>2. (IF token = None THEN "none" ELSE snapshot[token]) \in Grants
        BY DEF TypeOK
      <4>3. QED
        BY <4>1, <4>2 DEF TypeOK
    <3>4. AuthMode(args)' = AuthMode(args)
      BY DEF AuthMode
    <3>5. QED
      BY <3>1, <3>2, <3>3, <3>4 DEF Vetted, Serving
  <2>3. QED
    BY <2>1, <2>2
<1>2. CASE Authorize(q)
  <2>1. ask'[r] = ask[r] /\ caller'[r] = caller[r] /\ evidence'[r] = evidence[r]
        /\ Alive
        /\ \/ at'[r] = at[r]
           \/ /\ at[r] = "admitted"
              /\ at'[r] = IF Authorized(ask[r], caller[r]) THEN "running" ELSE "refused"
    BY <1>2 DEF Authorize, TypeOK
  <2>2. QED
    BY <2>1 DEF Vetted, Authorized, AuthMode, Alive, Serving
<1>3. CASE Run(q)
  <2>1. CASE q # r
    <3>1. ask'[r] = ask[r] /\ at'[r] = at[r] /\ caller'[r] = caller[r] /\ evidence'[r] = evidence[r]
      BY <1>3, <2>1 DEF Run, TypeOK
    <3>2. QED
      BY <3>1 DEF Vetted, AuthMode, Authorized
  <2>2. CASE q = r
    <3>1. ask'[r] = ask[r] /\ caller'[r] = caller[r] /\ at[r] = "running" /\ at'[r] = "done"
          /\ Alive /\ (evidence'[r] = "pending" => pipeline /\ pc # "flushed")
      BY <1>3, <2>2 DEF Run, TypeOK
    <3>2. QED
      BY <3>1 DEF Vetted, Authorized, AuthMode, Alive, Serving
  <2>3. QED
    BY <2>1, <2>2
<1>4. QED
  BY <1>1, <1>2, <1>3

LEMMA VettedStep ==
  ASSUME TypeOK, Placed, NEW r \in Req, Vetted(r), [Next]_vars
  PROVE  Vetted(r)'
<1>1. Placed'
  BY PlacedStep
<1>2. CASE UNCHANGED vars
  BY <1>2 DEF Vetted, vars, process, calls, AuthMode, Authorized
<1>3. CASE Flush
  <2>1. pc = "closing" /\ pc' = "flushed" /\ UNCHANGED <<args, exit, at, ask, caller>>
        /\ \E to \in {"delivered", "left"} :
             evidence'[r] = (IF evidence[r] = "pending" /\ pipeline THEN to ELSE evidence[r])
    BY <1>3 DEF Flush, Flushed
  <2>2. evidence'[r] # "pending"
    BY <2>1 DEF Vetted
  <2>3. QED
    BY <2>1, <2>2 DEF Vetted, AuthMode, Authorized, Serving
<1>4. CASE Ship
  <2>1. UNCHANGED <<args, pc, exit, pipeline, at, ask, caller>> /\ evidence'[r] \in {evidence[r], "delivered"}
        /\ (evidence[r] = "none" => evidence'[r] = "none")
    BY <1>4 DEF Ship, TypeOK, process
  <2>2. QED
    BY <2>1 DEF Vetted, AuthMode, Authorized
<1>5. CASE \E q \in Req : Arrive(q) \/ Authorize(q) \/ Run(q)
  BY <1>5, VettedCalls DEF Arrive, Authorize, Run, process
<1>6. CASE Next /\ ~Flush /\ ~Ship /\ ~(\E q \in Req : Arrive(q) \/ Authorize(q) \/ Run(q))
  <2>1. UNCHANGED <<args, calls>>
    BY <1>6 DEF Next, CheckArguments, Setup, VerifyTenant, StartEvidence, LoadState, Advance,
                ResolveTokens, LoadTokens, InstallHup, Initialize, HandshakeCancelled,
                HandshakeFails, ServingEnds, ShutdownSeen, DrainEnds, Return, Leave, Exit,
                Term, Hup, Killed, Edit
  <2>2. QED
    BY <1>1, <1>6, <2>1, VettedMain DEF Next
<1>7. QED
  BY <1>2, <1>3, <1>4, <1>5, <1>6

-----------------------------------------------------------------------------
LEMMA InitInv == Init => IndInv
<1>. SUFFICES ASSUME Init PROVE IndInv
  OBVIOUS
<1>1. Absent \in Content /\ NoTokens \in [Token -> Grants]
  BY DEF Absent, Content, NoTokens
<1>2. TypeOK
  <2>1. ask \in [Req -> [tool : Asked, tenant : {"ours", "other"}, token : Token \cup {None}]
                          \cup {NoAsk}]
    BY DEF Init
  <2>2. snapshot \in [Token -> Grants] /\ edits \in 0..Edits
    BY <1>1, EditsAssumption DEF Init
  <2>3. /\ at \in [Req -> {"idle", "admitted", "refused", "running", "done"}]
        /\ caller \in [Req -> Grants \cup {"nobody", "anonymous"}]
        /\ evidence \in [Req -> {"none", "pending", "delivered", "left"}]
    BY DEF Init
  <2>4. QED
    BY <2>1, <2>2, <2>3 DEF Init, TypeOK
<1>3. Placed
  BY DEF Init, Placed, Serving, AuthMode
<1>4. Loaded
  BY DEF Init, Loaded
<1>5. \A r \in Req : Vetted(r)
  BY DEF Init, Vetted
<1>6. QED
  BY <1>2, <1>3, <1>4, <1>5 DEF IndInv

LEMMA StepInv ==
  ASSUME IndInv, [Next]_vars
  PROVE  IndInv'
<1>1. TypeOK' /\ Placed'
  BY TypeStep, PlacedStep DEF IndInv
<1>2. Loaded'
  BY LoadedStep DEF IndInv
<1>3. ASSUME NEW r \in Req PROVE Vetted(r)'
  BY <1>3, VettedStep DEF IndInv
<1>4. QED
  BY <1>1, <1>2, <1>3 DEF IndInv

(* In every reachable state main stands where its steps left it, the store *)
(* holds its file as last read, and each call was admitted before it ran.  *)
THEOREM Consistent == Spec => []IndInv
<1>1. QED
  BY InitInv, StepInv, PTL DEF Spec

(* A call runs only with an authority that reaches it, on the configured   *)
(* tenant, whatever the command line and the token files: authorize_request*)
(* and the bearer boundary together.                                       *)
THEOREM AuthorityHolds == Spec => []AuthorityWasGiven
<1>1. IndInv => AuthorityWasGiven
  <2>. SUFFICES ASSUME IndInv, NEW r \in Req, at[r] \in {"running", "done"}
                PROVE  /\ ask[r].tenant = "ours"
                       /\ ask[r].tool \in WriteTools => caller[r] = "named"
                       /\ caller[r] = "anonymous" =>
                            args.transport = "stdio" \/ (args.noAuth /\ args.tokens = None)
                       /\ caller[r] = "wild" => ask[r].tool \notin ScopedReads
    BY DEF AuthorityWasGiven
  <2>1. Vetted(r) /\ TypeOK
    BY DEF IndInv
  <2>2. Authorized(ask[r], caller[r]) /\ AuthMode(args) # "refused"
    BY <2>1 DEF Vetted
  <2>3. WriteTools \subseteq WildcardExcluded /\ ScopedReads \subseteq WildcardExcluded
    BY DEF WildcardExcluded
  <2>4. ask[r].tenant = "ours" /\ (ask[r].tool \in WriteTools => caller[r] = "named")
        /\ (caller[r] = "wild" => ask[r].tool \notin ScopedReads)
    BY <2>1, <2>2, <2>3 DEF Authorized, InScope, TypeOK
  <2>5. caller[r] = "anonymous" =>
          args.transport = "stdio" \/ (args.noAuth /\ args.tokens = None)
    BY <2>1, <2>2 DEF Vetted, AuthMode
  <2>6. QED
    BY <2>4, <2>5
<1>2. QED
  BY <1>1, Consistent, PTL

(* What the store enforces is what a restart would load, but for an edit   *)
(* not signalled, a failed reload, or a canonical file that appeared after *)
(* the store was bound to the legacy one.                                  *)
THEOREM RevocationHolds == Spec => []RevocationTakesHold
<1>1. IndInv => RevocationTakesHold
  <2>. SUFFICES ASSUME IndInv, hup, bound # None, ~unread, ~failed, ~MigratedLater
                PROVE  snapshot = Restarted
    BY DEF RevocationTakesHold
  <2>1. files[bound].state = "good" /\ snapshot = files[bound].grants
        /\ (bound = args.tokens \/ (bound = "legacy" /\ args.tokens = "canonical"))
    BY DEF IndInv, Loaded
  <2>2. Resolved(args.tokens) = bound
    <3>1. CASE bound = "legacy" /\ args.tokens = "canonical"
      BY <2>1, <3>1 DEF MigratedLater, Resolved
    <3>2. CASE bound = args.tokens
      BY <2>1, <3>2 DEF Resolved
    <3>3. QED
      BY <2>1, <3>1, <3>2
  <2>3. QED
    BY <2>1, <2>2 DEF Restarted
<1>2. QED
  BY <1>1, Consistent, PTL

(* Whichever way serving ended, the flush left no record behind. *)
THEOREM EvidenceHolds == Spec => []EvidenceFlushed
<1>1. IndInv => EvidenceFlushed
  BY DEF IndInv, Vetted, EvidenceFlushed
<1>2. QED
  BY <1>1, Consistent, PTL

(* No signal kills a process that serves with an audit file or a token     *)
(* store: the handlers are there before serving starts.                    *)
THEOREM ServingSurvives == Spec => ServingIsNotKilled
<1>1. ASSUME IndInv, [Next]_vars, pc \in Serving, args.audit \/ AuthMode(args) = "tokens"
      PROVE  exit' # "killed" \/ UNCHANGED vars
  <2>1. exit = "running" /\ caught /\ hup
    BY <1>1 DEF IndInv, Placed, Serving
  <2>2. CASE Initialize \/ HandshakeCancelled \/ HandshakeFails \/ ServingEnds
             \/ ShutdownSeen \/ DrainEnds \/ Flush \/ Return
    <3>1. served # "killed"
      BY <1>1 DEF IndInv, TypeOK
    <3>2. exit' \in {exit, served}
      BY <2>2 DEF Initialize, HandshakeCancelled, HandshakeFails, ServingEnds, ShutdownSeen,
                  DrainEnds, Flush, Return, Advance, Leave, Exit
    <3>3. QED
      BY <2>1, <3>1, <3>2
  <2>3. CASE Ship \/ Term \/ Hup \/ Edit
    BY <2>1, <2>3 DEF Ship, Term, Hup, Edit, process
  <2>4. CASE \E r \in Req : Arrive(r) \/ Authorize(r) \/ Run(r)
    BY <2>1, <2>4 DEF Arrive, Authorize, Run, process
  <2>5. CASE CheckArguments \/ Setup \/ VerifyTenant \/ StartEvidence \/ LoadState
             \/ ResolveTokens \/ LoadTokens \/ InstallHup
    BY <1>1, <2>5 DEF CheckArguments, Setup, VerifyTenant, StartEvidence, LoadState, Advance,
                      ResolveTokens, LoadTokens, InstallHup, Serving
  <2>6. QED
    BY <1>1, <2>2, <2>3, <2>4, <2>5 DEF Next
<1>2. IndInv /\ [Next]_vars =>
        [(pc \in Serving /\ (args.audit \/ AuthMode(args) = "tokens")) => exit' # "killed"]_vars
  BY <1>1
<1>3. QED
  BY <1>2, Consistent, PTL DEF Spec, ServingIsNotKilled

-----------------------------------------------------------------------------
(* The order of main. *)
Order == [arguments |-> 0, setup |-> 1, verifying |-> 2, assembling |-> 3, loading |-> 4,
          resolving |-> 5, opening |-> 6, arming |-> 7, handshake |-> 8, serving |-> 9,
          draining |-> 10, closing |-> 11, flushed |-> 12, exited |-> 13]

(* Why a stop ends, short of fairness: main never repeats a step, whatever *)
(* signals, edits and calls do; a stop is not taken back; and of a process *)
(* that is gone no call and no record moves.                               *)
THEOREM MainMovesOn ==
  Spec => [][/\ pc' # pc => Order[pc] < Order[pc']
             /\ shutdown => shutdown'
             /\ pc = "exited" => UNCHANGED <<exit, store, files, calls>>]_vars
<1>. DEFINE Moves == /\ pc' # pc => Order[pc] < Order[pc']
                     /\ shutdown => shutdown'
                     /\ pc = "exited" => UNCHANGED <<exit, store, files, calls>>
<1>1. ASSUME IndInv, Next PROVE Moves
  <2>. USE DEF Order
  <2>1. pc \in Steps
    BY <1>1 DEF IndInv, TypeOK
  <2>2. CASE CheckArguments \/ Setup \/ VerifyTenant \/ StartEvidence \/ LoadState
    BY <2>1, <2>2 DEF CheckArguments, Setup, VerifyTenant, StartEvidence, LoadState,
                      Advance, Exit
  <2>3. CASE ResolveTokens \/ LoadTokens \/ InstallHup
    BY <2>1, <2>3 DEF ResolveTokens, LoadTokens, InstallHup, Exit
  <2>4. CASE Initialize \/ HandshakeCancelled \/ HandshakeFails \/ ServingEnds
             \/ ShutdownSeen \/ DrainEnds \/ Flush \/ Return
    BY <2>1, <2>4 DEF Initialize, HandshakeCancelled, HandshakeFails, ServingEnds, ShutdownSeen,
                      DrainEnds, Flush, Return, Advance, Leave, Exit
  <2>5. CASE Ship \/ Edit
    BY <2>5 DEF Ship, Edit, process
  <2>6. CASE Term \/ Hup
    <3>1. pc # "exited"
      BY <2>6 DEF Term, Hup
    <3>2. CASE Killed
      BY <2>1, <3>1, <3>2 DEF Killed, Exit
    <3>3. CASE ~Killed
      <4>1. UNCHANGED pc /\ (shutdown => shutdown')
        BY <2>6, <3>3 DEF Term, Hup, process
      <4>2. QED
        BY <3>1, <4>1
    <3>4. QED
      BY <3>2, <3>3
  <2>7. CASE \E r \in Req : Arrive(r) \/ Authorize(r) \/ Run(r)
    BY <2>7 DEF Arrive, Authorize, Run, Alive, process
  <2>8. QED
    BY <1>1, <2>2, <2>3, <2>4, <2>5, <2>6, <2>7 DEF Next
<1>2. IndInv /\ [Next]_vars => [Moves]_vars
  BY <1>1
<1>3. QED
  BY <1>2, Consistent, PTL DEF Spec
=============================================================================
